----------------------------- MODULE GuestMemory -----------------------------
(***************************************************************************)
(* MemoryManager, as a handler of the dispatcher uses it: it reads the     *)
(* string at an address of the guest and, unless it reads nothing, writes  *)
(* another one over it.  The guest's memory consists of pages with their   *)
(* access rights.  A byte is a token that tells where it comes from, so    *)
(* that a byte out of place is seen.                                       *)
(*                                                                         *)
(* process_vm_readv and process_vm_writev obey the rights of the pages and *)
(* may stop half-way; ptrace reads and writes whole words and may write to *)
(* a private read-only page.                                               *)
(***************************************************************************)
EXTENDS Integers, Sequences, SequencesExt

CONSTANTS
    Word,       \* sizeof(long)
    Chunk,      \* the buffer of read_string
    MaxLen,     \* max_len of read_string
    PageSize,
    Pages,      \* the number of pages
    Lengths     \* the lengths of the strings that are written

ASSUME SizeAssumption ==
    /\ {Word, Chunk, PageSize, Pages, MaxLen} \subseteq Nat \ {0}
    /\ Chunk % Word = 0
    /\ Lengths \subseteq Nat \ {0}

Cells  == 1 .. Pages * PageSize
Rights == {"rw", "ro", "shared", "none"}   \* "shared": read-only and not private
NUL    == 0
Ones   == -1                               \* a byte of the long -1
New(j) == 1000 + j                         \* byte j of the string written

VARIABLES
    rights,     \* of each page
    works,      \* process_vm_* is permitted
    memory, addr,
    original,   \* the memory before the call
    pc,         \* read, handler, write, words, done
    offset, result,     \* locals of read_string
    string, i, success  \* argument, local and result of write_bytes

memoryMap == <<rights, works, addr, original>>
vars == <<memoryMap, memory, pc, offset, result, string, i, success>>

Init ==
    /\ rights \in [1 .. Pages -> Rights] /\ works \in BOOLEAN
    /\ addr \in Cells
    /\ \E n \in Cells \cup {NUL} : original = [c \in Cells |-> IF c = n THEN NUL ELSE c]
    /\ memory = original
    /\ pc = "read" /\ offset = 0 /\ result = <<>>
    /\ string = <<>> /\ i = 0 /\ success = FALSE

-----------------------------------------------------------------------------
(* The kernel.                                                             *)

RightsAt(a) == IF a \in Cells THEN rights[(a - 1) \div PageSize + 1] ELSE "none"
Readable(a) == RightsAt(a) # "none"
WithRights(R) == {c \in Cells : RightsAt(c) \in R}
Bytes(a, n) == [k \in 1 .. n |-> memory[a + k - 1]]

(* How many of the n bytes from a on are in W before one is not.           *)
Reach(a, n, W) ==
    CHOOSE m \in 0 .. n : /\ \A k \in 0 .. m - 1 : a + k \in W
                          /\ m = n \/ a + m \notin W

Store(a, s, n) == memory' = [c \in Cells |-> IF c \in a .. a + n - 1 THEN s[c - a + 1]
                                             ELSE memory[c]]

-----------------------------------------------------------------------------
(* read_bytes: all at once, or word by word, the last word to its end.     *)
read_bytes(a, len) ==
    \/ works /\ \A k \in 0 .. len - 1 : Readable(a + k)
    \/ \A k \in 0 .. ((len + Word - 1) \div Word) * Word - 1 : Readable(a + k)

(* Where the first NUL is among the bytes, or one past them. *)
NulIn(bytes) == CHOOSE k \in 1 .. Len(bytes) + 1 :
                    /\ \A m \in 1 .. k - 1 : bytes[m] # NUL
                    /\ k = Len(bytes) + 1 \/ bytes[k] = NUL

(* What of a chunk is appended to the result: up to a NUL or the limit.    *)
(* Mutants: no limit; the chunk as it is.                                  *)
TakenUnlimited(bytes) == NulIn(bytes) - 1
TakenWhole(bytes)     == Len(bytes)
Taken(bytes) == IF NulIn(bytes) - 1 < MaxLen - offset THEN NulIn(bytes) - 1
                ELSE MaxLen - offset

(* Mutant: one chunk only. *)
ReturnsAtOnce(taken) == TRUE
Returns(taken) == taken < Chunk \/ offset + taken >= MaxLen

(* read_string, one round of its loop.                                     *)
ReadChunk ==
    /\ pc = "read"
    /\ IF ~ read_bytes(addr + offset, Chunk) THEN pc' = "handler" /\ UNCHANGED <<offset, result>>
       ELSE LET bytes == Bytes(addr + offset, Chunk)
                taken == Taken(bytes)
            IN /\ result' = result \o SubSeq(bytes, 1, taken)
               /\ offset' = offset + taken
               /\ pc' = IF Returns(taken) THEN "handler" ELSE "read"
    /\ UNCHANGED <<memoryMap, memory, string, i, success>>

(* The handler writes the string of length n that the path resolves to,    *)
(* with its NUL.                                                           *)
Handler ==
    /\ pc = "handler"
    /\ IF result = <<>> THEN pc' = "done" /\ UNCHANGED string
       ELSE /\ pc' = "write"
            /\ \E n \in Lengths : string' = Append([j \in 1 .. n |-> New(j)], NUL)
    /\ UNCHANGED <<memoryMap, memory, offset, result, i, success>>

(* write_bytes: process_vm_writev, which may write a part.                 *)
Write ==
    /\ pc = "write"
    /\ LET n == IF works THEN Reach(addr, Len(string), WithRights({"rw"})) ELSE 0
       IN /\ Store(addr, string, n)
          /\ success' = (n = Len(string))
          /\ pc' = IF n = Len(string) THEN "done" ELSE "words"
    /\ UNCHANGED <<memoryMap, offset, result, string, i>>

(* PTRACE_PEEKDATA of the word at a; -1 where it cannot.                   *)
Peek(a) == IF \A k \in 0 .. Word - 1 : Readable(a + k) THEN Bytes(a, Word)
           ELSE [k \in 1 .. Word |-> Ones]

(* The next word of the string; the last keeps the bytes that follow it.   *)
(* Mutant: it is filled up with zeroes.                                    *)
WordZeroed == [k \in 1 .. Word |-> IF i + k <= Len(string) THEN string[i + k] ELSE NUL]
WordToWrite ==
    [k \in 1 .. Word |-> IF i + k <= Len(string) THEN string[i + k] ELSE Peek(addr + i)[k]]

(* PTRACE_POKEDATA of one word, which may fail with a part written.        *)
WriteWord ==
    /\ pc = "words"
    /\ LET n == Reach(addr + i, Word, WithRights({"rw", "ro"}))
       IN /\ Store(addr + i, WordToWrite, n)
          /\ i' = i + Word
          /\ success' = (n = Word)
          /\ pc' = IF n < Word \/ i + Word >= Len(string) THEN "done" ELSE "words"
    /\ UNCHANGED <<memoryMap, offset, result, string>>

Done == pc = "done" /\ UNCHANGED vars

Next == ReadChunk \/ Handler \/ Write \/ WriteWord \/ Done

Spec == Init /\ [][Next]_vars

-----------------------------------------------------------------------------
(* Properties.                                                             *)

(* Type invariant; read_string never returns more than max_len bytes.      *)
TypeOK ==
    /\ pc \in {"read", "handler", "write", "words", "done"}
    /\ offset = Len(result) /\ offset <= MaxLen
    /\ DOMAIN memory = Cells
    /\ i \in 0 .. Len(string) + Word /\ success \in BOOLEAN

(* The string at addr, as far as there is memory. *)
GuestString ==
    LET end == CHOOSE a \in addr .. Pages * PageSize + 1 :
                   /\ \A c \in addr .. a - 1 : original[c] # NUL
                   /\ a \notin Cells \/ original[a] = NUL
    IN [k \in 1 .. end - addr |-> original[addr + k - 1]]

(* What read_string returns is never anything but the beginning of the     *)
(* guest's string, however many chunks and whichever way it was read.      *)
ReadsPrefix == IsPrefix(result, GuestString)

(* And it is the whole string, if that is shorter than max_len and the     *)
(* chunk with its NUL can be read to the chunk's end.  Without the second  *)
(* condition it does not hold: what lies in the last chunk before memory   *)
(* that cannot be read is lost, and reads as the empty string if it is     *)
(* short.                                                                  *)
ReadsWhole ==
    LET n == Len(GuestString)
    IN /\ pc # "read"
       /\ n < MaxLen
       /\ \A k \in 0 .. (n \div Chunk + 1) * Chunk - 1 : Readable(addr + k)
       => result = GuestString

(* A write that reports success has put the string in its place and        *)
(* changed no other byte, also when it went on by words after a first part *)
(* and the last word is not all the string's.                              *)
WritesExactly ==
    pc = "done" /\ success =>
        memory = [c \in Cells |-> IF c \in addr .. addr + Len(string) - 1
                                  THEN string[c - addr + 1] ELSE original[c]]
=============================================================================
