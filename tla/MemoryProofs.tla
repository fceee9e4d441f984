----------------------------- MODULE MemoryProofs -----------------------------
(***************************************************************************)
(* Proofs about GuestMemory, for any sizes of a word, a chunk, a page and  *)
(* the memory, and strings of any length.  What read_string has so far is  *)
(* the beginning of the guest's string, in whole chunks as long as it goes *)
(* on (Copied, Chunks); what write_bytes has written is a part of the new  *)
(* string, in its place, and complete as far as the words go (Written).    *)
(***************************************************************************)
EXTENDS GuestMemory, SequenceTheorems, WellFoundedInduction, TLAPS

Copied ==
    /\ result \in Seq(Nat)
    /\ \A k \in 1 .. offset : /\ addr + k - 1 \in Cells
                              /\ result[k] = original[addr + k - 1] /\ result[k] # NUL

Chunks == pc = "read" => \E m \in Nat : offset = m * Chunk

Written ==
    /\ string \in Seq(Nat)
    /\ pc \in {"read", "handler", "write"} => memory = original /\ i = 0 /\ ~ success
    /\ pc \in {"write", "words"} => i < Len(string)
    /\ pc = "words" =>
          \A c \in Cells :
              \/ memory[c] = original[c] /\ c \notin addr .. addr + i - 1
              \/ c \in addr .. addr + Len(string) - 1 /\ memory[c] = string[c - addr + 1]

Setting == works \in BOOLEAN /\ addr \in Cells /\ original \in [Cells -> Nat]

IInv == Setting /\ TypeOK /\ Copied /\ Chunks /\ Written /\ ReadsPrefix /\ ReadsWhole /\ WritesExactly

-----------------------------------------------------------------------------
(* What is assumed of the sizes. *)
LEMMA Sizes ==
    /\ Word \in Nat \ {0} /\ Chunk \in Nat \ {0} /\ MaxLen \in Nat \ {0}
    /\ PageSize \in Nat \ {0} /\ Pages \in Nat \ {0} /\ Chunk % Word = 0
    /\ Lengths \subseteq Nat \ {0} /\ NUL = 0
    /\ Pages * PageSize \in Nat /\ Cells = 1 .. Pages * PageSize
BY SizeAssumption DEF Cells, NUL

(* A set of numbers that is not empty has a least element. *)
LEMMA Least ==
    ASSUME NEW S, S \subseteq Nat, S # {}
    PROVE  \E m \in S : \A k \in S : m <= k
<1>1. PICK m \in S : \A k \in S : <<k, m>> \notin OpToRel(<, Nat)
  BY NatLessThanWellFounded, WFMin
<1>2. ASSUME NEW k \in S PROVE m <= k
  <2>1. ~ (k < m)
    <3>1. <<k, m>> \in Nat \X Nat /\ <<k, m>>[1] = k /\ <<k, m>>[2] = m
      OBVIOUS
    <3>2. QED BY <1>1, <3>1 DEF OpToRel
  <2>2. QED BY <2>1
<1>3. QED BY <1>2

(* Reach counts the bytes that can be written. *)
LEMMA ReachType ==
    ASSUME NEW a \in Int, NEW n \in Nat, NEW W, NEW m, m = Reach(a, n, W)
    PROVE  /\ m \in 0 .. n
           /\ \A k \in 0 .. m - 1 : a + k \in W
           /\ m = n \/ a + m \notin W
<1> DEFINE S == {k \in 0 .. n : k = n \/ a + k \notin W}
<1>1. PICK l \in S : \A k \in S : l <= k
  <2>1. S \subseteq Nat /\ n \in S
    OBVIOUS
  <2>2. QED BY <2>1, Least
<1>2. \A k \in 0 .. l - 1 : a + k \in W
  BY <1>1
<1>3. \E x \in 0 .. n : /\ \A k \in 0 .. x - 1 : a + k \in W
                        /\ x = n \/ a + x \notin W
  BY <1>1, <1>2
<1>4. QED BY <1>3 DEF Reach

(* NulIn finds the first NUL. *)
LEMMA NulInType ==
    ASSUME NEW bytes, Len(bytes) \in Nat, NEW k, k = NulIn(bytes)
    PROVE  /\ k \in 1 .. Len(bytes) + 1
           /\ \A m \in 1 .. k - 1 : bytes[m] # NUL
           /\ k = Len(bytes) + 1 \/ bytes[k] = NUL
<1> DEFINE S == {m \in 1 .. Len(bytes) + 1 : m = Len(bytes) + 1 \/ bytes[m] = NUL}
<1>1. PICK l \in S : \A m \in S : l <= m
  <2>1. S \subseteq Nat /\ Len(bytes) + 1 \in S
    OBVIOUS
  <2>2. QED BY <2>1, Least
<1>2. \A m \in 1 .. l - 1 : bytes[m] # NUL
  BY <1>1
<1>3. \E x \in 1 .. Len(bytes) + 1 :
          /\ \A m \in 1 .. x - 1 : bytes[m] # NUL
          /\ x = Len(bytes) + 1 \/ bytes[x] = NUL
  BY <1>1, <1>2
<1>4. QED BY <1>3 DEF NulIn

(* The guest's string ends at the first NUL, or with the memory. *)
LEMMA StringType ==
    ASSUME Setting
    PROVE  /\ GuestString \in Seq(Nat)
           /\ \A k \in 1 .. Len(GuestString) :
                 /\ addr + k - 1 \in Cells
                 /\ GuestString[k] = original[addr + k - 1] /\ GuestString[k] # NUL
           /\ \/ addr + Len(GuestString) \notin Cells
              \/ original[addr + Len(GuestString)] = NUL
<1> USE Sizes
<1>0. addr \in Nat /\ addr \in Cells /\ original \in [Cells -> Nat]
  BY DEF Setting
<1> DEFINE S == {a \in addr .. Pages * PageSize + 1 : a \notin Cells \/ original[a] = NUL}
           Ends(a) == /\ \A c \in addr .. a - 1 : original[c] # NUL
                      /\ a \notin Cells \/ original[a] = NUL
<1>1. PICK l \in S : \A a \in S : l <= a
  <2>1. S \subseteq Nat /\ Pages * PageSize + 1 \in S
    BY <1>0
  <2>2. QED BY <2>1, Least
<1>2. l \in addr .. Pages * PageSize + 1 /\ Ends(l)
  <2>1. \A c \in addr .. l - 1 : original[c] # NUL
    BY <1>0, <1>1
  <2>2. QED BY <1>1, <2>1
<1>3. PICK end : end = CHOOSE a \in addr .. Pages * PageSize + 1 : Ends(a)
  OBVIOUS
<1>4. end \in addr .. Pages * PageSize + 1 /\ Ends(end)
  BY <1>2, <1>3
<1>5. GuestString = [k \in 1 .. end - addr |-> original[addr + k - 1]]
  BY <1>3 DEF GuestString
<1> HIDE DEF S
<1>6. \A k \in 1 .. end - addr : addr + k - 1 \in Cells /\ original[addr + k - 1] # NUL
  BY <1>0, <1>4
<1>7. end - addr \in Nat
  BY <1>0, <1>4
<1>8. GuestString \in Seq(Nat) /\ Len(GuestString) = end - addr
  <2>1. GuestString \in [1 .. end - addr -> Nat]
    BY <1>0, <1>5, <1>6
  <2>2. QED BY <1>7, <2>1
<1>9. addr + Len(GuestString) = end
  BY <1>0, <1>4, <1>8
<1>10. QED BY <1>4, <1>5, <1>6, <1>8, <1>9

-----------------------------------------------------------------------------
(* Quotients. *)
LEMMA Quotient ==
    ASSUME NEW n \in Nat, NEW d \in Nat \ {0}
    PROVE  /\ n \div d \in Nat /\ n % d \in 0 .. d - 1
           /\ n = (n \div d) * d + (n % d)
<1>1. n % d \in 0 .. d - 1
  OBVIOUS
<1>2. n = (n \div d) * d + (n % d)
  OBVIOUS
<1>3. n \div d \in Int
  OBVIOUS
<1>4. n \div d \in Nat
  BY <1>1, <1>2, <1>3
<1>5. QED BY <1>1, <1>2, <1>4

(* The words of a chunk are the chunk. *)
LEMMA WholeWords == ((Chunk + Word - 1) \div Word) * Word = Chunk
<1> USE Sizes
<1>1. PICK c \in Nat : c = Chunk \div Word
  BY Quotient
<1>2. Chunk = c * Word
  BY <1>1, Quotient
<1>3. PICK q \in Nat, r \in 0 .. Word - 1 : q = (Chunk + Word - 1) \div Word /\ Chunk + Word - 1 = q * Word + r
  <2>1. Chunk + Word - 1 \in Nat
    OBVIOUS
  <2>2. PICK q \in Nat : q = (Chunk + Word - 1) \div Word
    BY <2>1, Quotient
  <2>3. PICK r \in 0 .. Word - 1 : r = (Chunk + Word - 1) % Word
    BY <2>1, Quotient
  <2>4. Chunk + Word - 1 = q * Word + r
    BY <2>1, <2>2, <2>3, Quotient
  <2>5. QED BY <2>2, <2>3, <2>4
<1>4. q = c
  <2>1. CASE q < c
    <3>1. q + 1 <= c
      BY <2>1
    <3>2. (q + 1) * Word <= c * Word
      BY <3>1
    <3>3. QED BY <1>2, <1>3, <3>2
  <2>2. CASE q > c
    <3>1. c + 1 <= q
      BY <2>2
    <3>2. (c + 1) * Word <= q * Word
      BY <3>1
    <3>3. QED BY <1>2, <1>3, <3>2
  <2>3. QED BY <2>1, <2>2
<1>5. QED BY <1>2, <1>3, <1>4

(* A chunk that begins within the first n bytes ends with the chunk in     *)
(* which byte n is.                                                        *)
LEMMA WithinChunk ==
    ASSUME NEW n \in Nat, NEW m \in Nat, m * Chunk <= n
    PROVE  m * Chunk + Chunk <= (n \div Chunk + 1) * Chunk
<1> USE Sizes
<1>1. PICK q \in Nat, r \in 0 .. Chunk - 1 : q = n \div Chunk /\ n = q * Chunk + r
  <2>1. PICK q \in Nat : q = n \div Chunk
    BY Quotient
  <2>2. PICK r \in 0 .. Chunk - 1 : r = n % Chunk
    BY Quotient
  <2>3. n = q * Chunk + r
    BY <2>1, <2>2, Quotient
  <2>4. QED BY <2>1, <2>2, <2>3
<1>2. m <= q
  <2>1. CASE q < m
    <3>1. (q + 1) * Chunk <= m * Chunk
      BY <2>1
    <3>2. QED BY <1>1, <3>1
  <2>2. QED BY <2>1
<1>3. (m + 1) * Chunk <= (q + 1) * Chunk
  BY <1>2
<1>4. QED BY <1>1, <1>3

(* A chunk is read if and only if it can be, whichever way. *)
LEMMA ReadsChunk ==
    ASSUME NEW a \in Int
    PROVE  /\ read_bytes(a, Chunk) <=> \A k \in 0 .. Chunk - 1 : Readable(a + k)
           /\ read_bytes(a, Chunk) => \A k \in 0 .. Chunk - 1 : a + k \in Cells
<1>1. \A k \in 0 .. Chunk - 1 : Readable(a + k) => a + k \in Cells
  BY DEF Readable, RightsAt
<1>2. read_bytes(a, Chunk) => \A k \in 0 .. Chunk - 1 : Readable(a + k)
  BY WholeWords DEF read_bytes
<1>3. (\A k \in 0 .. Chunk - 1 : Readable(a + k)) => read_bytes(a, Chunk)
  BY WholeWords DEF read_bytes
<1>4. QED BY <1>1, <1>2, <1>3

-----------------------------------------------------------------------------
(* What has been copied byte by byte is the beginning of the string. *)
LEMMA PrefixOf ==
    ASSUME Setting, NEW r \in Seq(Nat),
           \A k \in 1 .. Len(r) : /\ addr + k - 1 \in Cells
                                  /\ r[k] = original[addr + k - 1] /\ r[k] # NUL
    PROVE  /\ Len(r) <= Len(GuestString)
           /\ IsPrefix(r, GuestString)
           /\ Len(r) = Len(GuestString) => r = GuestString
<1> USE Sizes
<1>1. addr \in Nat /\ Len(r) \in Nat /\ Len(GuestString) \in Nat /\ GuestString \in Seq(Nat)
  BY StringType DEF Setting
<1>2. Len(r) <= Len(GuestString)
  <2> SUFFICES ASSUME Len(GuestString) < Len(r) PROVE FALSE
    BY <1>1
  <2>1. Len(GuestString) + 1 \in 1 .. Len(r)
    BY <1>1
  <2>2. addr + (Len(GuestString) + 1) - 1 = addr + Len(GuestString)
    BY <1>1
  <2>3. addr + Len(GuestString) \in Cells /\ original[addr + Len(GuestString)] # NUL
    BY <2>1, <2>2
  <2>4. QED BY <2>3, StringType
<1>3. \A k \in 1 .. Len(r) : r[k] = GuestString[k]
  <2> TAKE k \in 1 .. Len(r)
  <2>1. k \in 1 .. Len(GuestString)
    BY <1>1, <1>2
  <2>2. QED BY <2>1, StringType
<1>4. IsPrefix(r, GuestString)
  BY <1>1, <1>2, <1>3 DEF IsPrefix
<1>5. Len(r) = Len(GuestString) => r = GuestString
  BY <1>1, <1>3
<1>6. QED BY <1>2, <1>4, <1>5

(* A chunk of the string is read, or read_string returns what it has. *)
LEMMA Reads ==
    ASSUME IInv, ReadChunk
    PROVE  IInv'
<1> USE Sizes DEF IInv
<1>1. /\ pc = "read" /\ pc' \in {"read", "handler"} /\ UNCHANGED <<rights, works, addr, original>>
      /\ UNCHANGED <<memory, string, i, success>>
  BY DEF ReadChunk, memoryMap
<1>2. Setting' /\ Written' /\ WritesExactly'
  <2>1. Setting'
    BY <1>1 DEF Setting
  <2>2. Written'
    BY <1>1 DEF Written
  <2>3. WritesExactly'
    BY <1>1 DEF WritesExactly
  <2>4. QED BY <2>1, <2>2, <2>3
<1>3. /\ addr \in Nat /\ offset \in Nat /\ offset = Len(result) /\ offset <= MaxLen
      /\ result \in Seq(Nat) /\ memory = original /\ original \in [Cells -> Nat]
  BY <1>1, LenProperties DEF Setting, TypeOK, Copied, Written
<1>5. GuestString' = GuestString
  BY <1>1 DEF GuestString
<1>6. Len(GuestString) \in Nat
  BY StringType
<1>7. offset <= Len(GuestString)
  BY <1>3, PrefixOf DEF Copied
<1>8. CASE ~ read_bytes(addr + offset, Chunk)
  <2>1. pc' = "handler" /\ UNCHANGED <<offset, result>>
    BY <1>8 DEF ReadChunk
  <2>2. TypeOK'
    BY <1>1, <2>1 DEF TypeOK
  <2>3. Copied' /\ Chunks' /\ ReadsPrefix'
    BY <1>1, <1>5, <2>1 DEF Copied, Chunks, ReadsPrefix
  <2>4. ReadsWhole'
    <3> DEFINE n == Len(GuestString)
    <3> SUFFICES ASSUME n < MaxLen,
                        \A k \in 0 .. (n \div Chunk + 1) * Chunk - 1 : Readable(addr + k)
                 PROVE  FALSE
      BY <1>1, <1>5 DEF ReadsWhole, Readable, RightsAt
    <3>1. PICK m \in Nat : offset = m * Chunk
      BY <1>1 DEF Chunks
    <3>2. offset + Chunk <= (n \div Chunk + 1) * Chunk /\ (n \div Chunk + 1) * Chunk \in Nat
      <4>1. offset + Chunk <= (n \div Chunk + 1) * Chunk
        BY <1>6, <1>7, <3>1, WithinChunk
      <4>2. n \div Chunk \in Nat
        BY <1>6, Quotient
      <4>3. QED BY <4>1, <4>2
    <3>3. ASSUME NEW k \in 0 .. Chunk - 1 PROVE Readable((addr + offset) + k)
      <4>1. offset + k \in 0 .. (n \div Chunk + 1) * Chunk - 1
        BY <1>3, <3>2
      <4>2. addr + (offset + k) = (addr + offset) + k
        BY <1>3
      <4>3. Readable(addr + (offset + k))
        BY <4>1
      <4>4. QED BY <4>2, <4>3
    <3>4. addr + offset \in Int
      BY <1>3
    <3>5. read_bytes(addr + offset, Chunk)
      BY <3>3, <3>4, ReadsChunk
    <3>6. QED BY <1>8, <3>5
  <2>5. QED BY <1>2, <2>2, <2>3, <2>4
<1>9. CASE read_bytes(addr + offset, Chunk)
  <2>1. PICK bytes : bytes = Bytes(addr + offset, Chunk)
    OBVIOUS
  <2>2. PICK taken : taken = Taken(bytes)
    OBVIOUS
  <2>3. /\ result' = result \o SubSeq(bytes, 1, taken) /\ offset' = offset + taken
        /\ pc' = IF Returns(taken) THEN "handler" ELSE "read"
    BY <1>9, <2>1, <2>2 DEF ReadChunk
  <2>4. \A k \in 1 .. Chunk : /\ addr + offset + k - 1 \in Cells
                              /\ bytes[k] = original[addr + offset + k - 1]
    <3> TAKE k \in 1 .. Chunk
    <3>1. bytes[k] = memory[(addr + offset) + k - 1]
      BY <2>1 DEF Bytes
    <3>2. (addr + offset) + (k - 1) \in Cells
      <4>1. addr + offset \in Int /\ k - 1 \in 0 .. Chunk - 1
        BY <1>3
      <4>2. QED BY <1>9, <4>1, ReadsChunk
    <3>3. QED BY <1>3, <3>1, <3>2
  <2>5. bytes \in Seq(Nat) /\ Len(bytes) = Chunk
    <3>1. bytes = [k \in 1 .. Chunk |-> memory[addr + offset + k - 1]]
      BY <2>1 DEF Bytes
    <3>2. bytes \in [1 .. Chunk -> Nat]
      BY <1>3, <2>4, <3>1
    <3>3. QED BY <3>2
  <2>6. PICK z : z = NulIn(bytes)
    OBVIOUS
  <2>7. z \in 1 .. Chunk + 1 /\ (\A m \in 1 .. z - 1 : bytes[m] # NUL)
            /\ (z = Chunk + 1 \/ bytes[z] = NUL)
    BY <2>5, <2>6, NulInType
  <2>8. /\ taken \in 0 .. Chunk /\ taken <= z - 1 /\ offset + taken <= MaxLen
        /\ taken = z - 1 \/ offset + taken = MaxLen
    BY <1>3, <2>2, <2>6, <2>7 DEF Taken
  <2>9. PICK part : part = SubSeq(bytes, 1, taken)
    OBVIOUS
  <2>10. /\ part \in Seq(Nat) /\ Len(part) = taken
         /\ \A k \in 1 .. taken : part[k] = bytes[k]
    <3>1. \A k \in 1 .. taken : bytes[k] \in Nat
      BY <1>3, <2>4, <2>8
    <3>2. /\ part \in Seq(Nat) /\ Len(part) = (IF 1 <= taken THEN taken - 1 + 1 ELSE 0)
          /\ \A k \in 1 .. taken - 1 + 1 : part[k] = bytes[1 + k - 1]
      BY <2>8, <2>9, <3>1, SubSeqProperties
    <3>3. Len(part) = taken
      BY <2>8, <3>2
    <3>4. ASSUME NEW k \in 1 .. taken PROVE part[k] = bytes[k]
      <4>1. k \in 1 .. taken - 1 + 1 /\ 1 + k - 1 = k
        BY <2>8
      <4>2. QED BY <3>2, <4>1
    <3>5. QED BY <3>2, <3>3, <3>4
  <2>11. /\ result' \in Seq(Nat) /\ Len(result') = offset + taken
         /\ \A k \in 1 .. offset + taken :
                result'[k] = IF k <= offset THEN result[k] ELSE part[k - offset]
    BY <1>3, <2>3, <2>9, <2>10, ConcatProperties
  <2>12. \A k \in 1 .. offset + taken :
            /\ addr + k - 1 \in Cells
            /\ result'[k] = original[addr + k - 1] /\ result'[k] # NUL
    <3> TAKE k \in 1 .. offset + taken
    <3>1. CASE k <= offset
      BY <1>3, <2>8, <2>11, <3>1 DEF Copied
    <3>2. CASE ~ (k <= offset)
      <4>1. k - offset \in 1 .. taken /\ k - offset \in 1 .. Chunk /\ k - offset \in 1 .. z - 1
        BY <1>3, <2>7, <2>8, <3>2
      <4>2. result'[k] = bytes[k - offset]
        BY <2>10, <2>11, <3>2, <4>1
      <4>3. addr + offset + (k - offset) - 1 = addr + k - 1
        BY <1>3, <2>8
      <4>4. QED BY <2>4, <2>7, <4>1, <4>2, <4>3
    <3>3. QED BY <3>1, <3>2
  <2>13. TypeOK' /\ Copied'
    <3>1. TypeOK'
      BY <1>1, <2>3, <2>8, <2>11 DEF TypeOK
    <3>2. Copied'
      BY <1>1, <2>3, <2>11, <2>12 DEF Copied
    <3>3. QED BY <3>1, <3>2
  <2>14. Chunks'
    <3> SUFFICES ASSUME pc' = "read" PROVE \E m \in Nat : offset' = m * Chunk
      BY DEF Chunks
    <3>1. taken = Chunk
      BY <2>3, <2>8 DEF Returns
    <3>2. PICK m \in Nat : offset = m * Chunk
      BY <1>1 DEF Chunks
    <3>3. offset' = (m + 1) * Chunk /\ m + 1 \in Nat
      BY <2>3, <3>1, <3>2
    <3>4. QED BY <3>3
  <2>15. PICK r : r = result'
    OBVIOUS
  <2>16. /\ Len(r) <= Len(GuestString) /\ IsPrefix(r, GuestString)
         /\ Len(r) = Len(GuestString) => r = GuestString
    BY <2>11, <2>12, <2>15, PrefixOf
  <2>17. ReadsPrefix'
    BY <1>5, <2>15, <2>16 DEF ReadsPrefix
  <2>18. ReadsWhole'
    <3> DEFINE n == Len(GuestString)
    <3> SUFFICES ASSUME n < MaxLen, pc' # "read" PROVE result' = GuestString
      BY <1>5 DEF ReadsWhole
    <3>1. offset + taken <= n /\ offset + taken < MaxLen
      BY <1>3, <1>6, <2>8, <2>11, <2>15, <2>16
    <3>2. taken < Chunk /\ taken = z - 1
      BY <1>3, <2>3, <2>8, <3>1 DEF Returns
    <3>3. bytes[taken + 1] = NUL /\ taken + 1 \in 1 .. Chunk
      BY <2>7, <2>8, <3>2
    <3>4. addr + offset + (taken + 1) - 1 = addr + (offset + taken + 1) - 1
      BY <1>3, <2>8
    <3>5. original[addr + (offset + taken + 1) - 1] = NUL
      BY <2>4, <3>3, <3>4
    <3>6. offset + taken + 1 \notin 1 .. n
      BY <3>5, StringType
    <3>7. offset + taken = n
      BY <1>3, <1>6, <2>8, <3>1, <3>6
    <3>8. QED BY <2>11, <2>15, <2>16, <3>7
  <2>19. QED BY <1>2, <2>13, <2>14, <2>17, <2>18
<1>10. QED BY <1>8, <1>9

(* What the other steps leave as it is. *)
LEMMA AfterReading ==
    ASSUME IInv, UNCHANGED <<memoryMap, offset, result>>, pc # "read", pc' # "read"
    PROVE  Setting' /\ Copied' /\ Chunks' /\ ReadsPrefix' /\ ReadsWhole'
<1>1. UNCHANGED <<rights, works, addr, original, offset, result>>
  BY DEF memoryMap
<1>2. GuestString' = GuestString
  BY <1>1 DEF GuestString
<1>3. Setting' /\ Copied' /\ Chunks' /\ ReadsPrefix'
  BY <1>1, <1>2 DEF IInv, Setting, Copied, Chunks, ReadsPrefix
<1>4. ReadsWhole'
  BY <1>1, <1>2 DEF IInv, ReadsWhole, Readable, RightsAt
<1>5. QED BY <1>3, <1>4

(* The handler has a string to write, or nothing to do. *)
LEMMA Handles ==
    ASSUME IInv, Handler
    PROVE  IInv'
<1> USE Sizes DEF IInv
<1>1. /\ pc = "handler" /\ pc' \in {"write", "done"} /\ UNCHANGED <<memoryMap, offset, result>>
      /\ UNCHANGED <<memory, i, success>>
  BY DEF Handler
<1>2. Setting' /\ Copied' /\ Chunks' /\ ReadsPrefix' /\ ReadsWhole'
  BY <1>1, AfterReading
<1>3. memory = original /\ i = 0 /\ ~ success /\ original' = original
  BY <1>1 DEF Written, memoryMap
<1>4. WritesExactly'
  BY <1>1, <1>3 DEF WritesExactly
<1>5. string' \in Seq(Nat) /\ (pc' = "write" => 0 < Len(string'))
  <2>1. CASE result = <<>>
    BY <2>1 DEF Handler, Written
  <2>2. CASE result # <<>>
    <3>1. PICK n \in Lengths : string' = Append([j \in 1 .. n |-> New(j)], NUL)
      BY <2>2 DEF Handler
    <3>2. [j \in 1 .. n |-> New(j)] \in Seq(Nat)
      <4>1. n \in Nat /\ \A j \in 1 .. n : New(j) \in Nat
        BY DEF New
      <4>2. QED BY <4>1
    <3>3. QED BY <3>1, <3>2, AppendProperties, LenProperties
  <2>3. QED BY <2>1, <2>2
<1>6. Len(string') \in Nat
  BY <1>5, LenProperties
<1>7. TypeOK' /\ Written'
  BY <1>1, <1>3, <1>5, <1>6 DEF TypeOK, Written
<1>8. QED BY <1>2, <1>4, <1>7

(* process_vm_writev writes the string or a first part of it. *)
LEMMA WritesAtOnce ==
    ASSUME IInv, Write
    PROVE  IInv'
<1> USE Sizes DEF IInv
<1>1. /\ pc = "write" /\ pc' \in {"words", "done"} /\ UNCHANGED <<memoryMap, offset, result>>
      /\ UNCHANGED <<string, i>>
  BY DEF Write
<1>2. Setting' /\ Copied' /\ Chunks' /\ ReadsPrefix' /\ ReadsWhole'
  BY <1>1, AfterReading
<1>3. /\ memory = original /\ i = 0 /\ UNCHANGED <<original, addr>> /\ addr \in Nat
      /\ string \in Seq(Nat) /\ Len(string) \in Nat /\ 0 < Len(string)
  BY <1>1, LenProperties DEF Written, memoryMap, Setting
<1>4. PICK n : n = IF works THEN Reach(addr, Len(string), WithRights({"rw"})) ELSE 0
  OBVIOUS
<1>5. n \in 0 .. Len(string)
  <2>1. CASE works
    BY <1>3, <1>4, <2>1, ReachType
  <2>2. CASE ~ works
    BY <1>3, <1>4, <2>2
  <2>3. QED BY <2>1, <2>2
<1>6. /\ Store(addr, string, n) /\ success' = (n = Len(string))
      /\ pc' = IF n = Len(string) THEN "done" ELSE "words"
  BY <1>4 DEF Write
<1>7. memory' = [c \in Cells |-> IF c \in addr .. addr + n - 1 THEN string[c - addr + 1]
                                 ELSE memory[c]]
  BY <1>6 DEF Store
<1>8. TypeOK'
  BY <1>1, <1>3, <1>6, <1>7 DEF TypeOK
<1>9. Written'
  <2>1. ASSUME NEW c \in Cells
        PROVE  \/ memory'[c] = original[c] /\ c \notin addr .. addr + i - 1
               \/ c \in addr .. addr + Len(string) - 1 /\ memory'[c] = string[c - addr + 1]
    <3>1. CASE c \in addr .. addr + n - 1
      BY <1>3, <1>5, <1>7, <3>1
    <3>2. CASE c \notin addr .. addr + n - 1
      BY <1>3, <1>7, <3>2
    <3>3. QED BY <3>1, <3>2
  <2>2. QED BY <1>1, <1>3, <2>1 DEF Written
<1>10. WritesExactly'
  <2> SUFFICES ASSUME success' PROVE
         memory' = [c \in Cells |-> IF c \in addr .. addr + Len(string) - 1
                                    THEN string[c - addr + 1] ELSE original[c]]
    BY <1>1, <1>3 DEF WritesExactly
  <2>1. n = Len(string)
    BY <1>6
  <2>2. QED BY <1>3, <1>7, <2>1
<1>11. QED BY <1>2, <1>8, <1>9, <1>10

(* A word is written, or a part of it, and then the write has failed. *)
LEMMA WritesWord ==
    ASSUME IInv, WriteWord
    PROVE  IInv'
<1> USE Sizes DEF IInv
<1>1. /\ pc = "words" /\ pc' \in {"words", "done"} /\ UNCHANGED <<memoryMap, offset, result>>
      /\ UNCHANGED string /\ i' = i + Word
  BY DEF WriteWord
<1>2. Setting' /\ Copied' /\ Chunks' /\ ReadsPrefix' /\ ReadsWhole'
  BY <1>1, AfterReading
<1>3. /\ UNCHANGED <<original, addr>> /\ addr \in Nat /\ i \in Nat /\ i < Len(string)
      /\ string \in Seq(Nat) /\ Len(string) \in Nat
  BY <1>1, LenProperties DEF Written, memoryMap, Setting, TypeOK
<1>4. PICK n : n = Reach(addr + i, Word, WithRights({"rw", "ro"}))
  OBVIOUS
<1>5. n \in 0 .. Word /\ \A k \in 0 .. n - 1 : (addr + i) + k \in WithRights({"rw", "ro"})
  <2>1. addr + i \in Int /\ Word \in Nat
    BY <1>3
  <2>2. QED BY <1>4, <2>1, ReachType
<1>6. PICK w : w = WordToWrite
  OBVIOUS
<1>7. /\ success' = (n = Word)
      /\ pc' = IF n < Word \/ i + Word >= Len(string) THEN "done" ELSE "words"
      /\ memory' = [c \in Cells |-> IF c \in addr + i .. addr + i + n - 1
                                    THEN w[c - (addr + i) + 1] ELSE memory[c]]
  BY <1>4, <1>6 DEF WriteWord, Store
<1>8. TypeOK'
  BY <1>1, <1>3, <1>7 DEF TypeOK
<1>9. n = Word => \A k \in 1 .. Word : Peek(addr + i)[k] = memory[addr + i + k - 1]
  <2> SUFFICES ASSUME n = Word PROVE \A k \in 1 .. Word : Peek(addr + i)[k] = memory[addr + i + k - 1]
    OBVIOUS
  <2>1. \A k \in 0 .. Word - 1 : Readable(addr + i + k)
    BY <1>5 DEF WithRights, Readable
  <2>2. Peek(addr + i) = Bytes(addr + i, Word)
    BY <2>1 DEF Peek
  <2>3. QED BY <2>2 DEF Bytes
<1>10. ASSUME n = Word, NEW c \in Cells
       PROVE  \/ memory'[c] = original[c] /\ c \notin addr .. addr + i + Word - 1
              \/ c \in addr .. addr + Len(string) - 1 /\ memory'[c] = string[c - addr + 1]
              \/ memory'[c] = original[c] /\ c \notin addr .. addr + Len(string) - 1
  <2>0. c \in Nat
    OBVIOUS
  <2>1. \/ memory[c] = original[c] /\ c \notin addr .. addr + i - 1
        \/ c \in addr .. addr + Len(string) - 1 /\ memory[c] = string[c - addr + 1]
    BY <1>1 DEF Written
  <2>2. CASE c \notin addr + i .. addr + i + Word - 1
    <3>1. memory'[c] = memory[c]
      BY <1>7, <1>10, <2>2
    <3>2. c \notin addr .. addr + i - 1 => c \notin addr .. addr + i + Word - 1
      BY <1>3, <2>0, <2>2
    <3>3. QED BY <2>1, <3>1, <3>2
  <2>3. CASE c \in addr + i .. addr + i + Word - 1
    <3>1. PICK k \in 1 .. Word : k = c - (addr + i) + 1
      BY <1>3, <2>3
    <3>2. memory'[c] = w[k] /\ i + k = c - addr + 1 /\ addr + i + k - 1 = c
      BY <1>3, <1>7, <1>10, <2>3, <3>1
    <3>3. w[k] = IF i + k <= Len(string) THEN string[i + k] ELSE Peek(addr + i)[k]
      BY <1>6 DEF WordToWrite
    <3>4. CASE i + k <= Len(string)
      <4>1. c \in addr .. addr + Len(string) - 1
        BY <1>3, <3>2, <3>4
      <4>2. QED BY <3>2, <3>3, <3>4, <4>1
    <3>5. CASE ~ (i + k <= Len(string))
      <4>1. c \notin addr .. addr + Len(string) - 1
        <5>1. ~ (c - addr + 1 <= Len(string))
          BY <3>2, <3>5
        <5>2. QED BY <1>3, <2>0, <5>1
      <4>2. memory'[c] = memory[c]
        BY <1>9, <1>10, <3>2, <3>3, <3>5
      <4>3. QED BY <2>1, <4>1, <4>2
    <3>6. QED BY <3>4, <3>5
  <2>4. QED BY <2>2, <2>3
<1>11. Written'
  <2>1. CASE pc' = "done"
    BY <1>1, <1>3, <2>1 DEF Written
  <2>2. CASE pc' = "words"
    <3>1. n = Word /\ i + Word < Len(string)
      BY <1>3, <1>5, <1>7, <2>2
    <3>2. ASSUME NEW c \in Cells
          PROVE  \/ memory'[c] = original[c] /\ c \notin addr .. addr + (i + Word) - 1
                 \/ c \in addr .. addr + Len(string) - 1 /\ memory'[c] = string[c - addr + 1]
      <4>1. addr + i + Word - 1 = addr + (i + Word) - 1
        BY <1>3
      <4>2. c \notin addr .. addr + Len(string) - 1 => c \notin addr .. addr + (i + Word) - 1
        BY <1>3, <3>1
      <4>3. QED BY <1>10, <3>1, <4>1, <4>2
    <3>3. QED BY <1>1, <1>3, <2>2, <3>1, <3>2 DEF Written
  <2>3. QED BY <1>1, <2>1, <2>2
<1>12. WritesExactly'
  <2> SUFFICES ASSUME success', pc' = "done" PROVE
         memory' = [c \in Cells |-> IF c \in addr .. addr + Len(string) - 1
                                    THEN string[c - addr + 1] ELSE original[c]]
    BY <1>1, <1>3 DEF WritesExactly
  <2>1. n = Word /\ i + Word >= Len(string)
    <3>1. n = Word
      BY <1>7
    <3>2. i + Word >= Len(string)
      <4>1. pc' = IF n < Word \/ i + Word >= Len(string) THEN "done" ELSE "words"
        BY <1>7
      <4>2. ~ (n < Word)
        BY <3>1
      <4>3. QED BY <4>1, <4>2
    <3>3. QED BY <3>1, <3>2
  <2>2. ASSUME NEW c \in Cells
        PROVE  memory'[c] = IF c \in addr .. addr + Len(string) - 1
                            THEN string[c - addr + 1] ELSE original[c]
    <3>1. c \in addr .. addr + Len(string) - 1 => c \in addr .. addr + i + Word - 1
      BY <1>3, <2>1
    <3>2. QED BY <1>10, <2>1, <3>1
  <2>3. QED BY <1>7, <2>2
<1>13. QED BY <1>2, <1>8, <1>11, <1>12

-----------------------------------------------------------------------------
(* The invariant is inductive. *)
LEMMA Initially == Init => IInv
<1> SUFFICES ASSUME Init PROVE IInv
  OBVIOUS
<1> USE Sizes
<1>1. /\ pc = "read" /\ offset = 0 /\ result = <<>> /\ string = <<>> /\ i = 0 /\ success = FALSE
      /\ memory = original
  BY DEF Init
<1>2. Setting /\ DOMAIN original = Cells
  <2>1. PICK n \in Cells \cup {NUL} : original = [c \in Cells |-> IF c = n THEN NUL ELSE c]
    BY DEF Init
  <2>2. QED BY <2>1 DEF Init, Setting
<1>3. Len(<<>>) = 0 /\ <<>> \in Seq(Nat)
  BY EmptySeq
<1>4. TypeOK
  <2>1. offset = Len(result) /\ Len(string) = 0 /\ DOMAIN memory = Cells /\ success \in BOOLEAN
    BY <1>1, <1>2, <1>3
  <2>2. QED BY <1>1, <2>1 DEF TypeOK
<1>5. Copied /\ Written /\ WritesExactly /\ ReadsWhole
  BY <1>1, <1>3 DEF Copied, Written, WritesExactly, ReadsWhole
<1>6. Chunks
  <2>1. offset = 0 * Chunk
    BY <1>1
  <2>2. QED BY <2>1 DEF Chunks
<1>7. ReadsPrefix
  <2>1. result \in Seq(Nat) /\ Len(result) = 0
    BY <1>1, <1>3
  <2>2. \A k \in 1 .. Len(result) : /\ addr + k - 1 \in Cells
                                    /\ result[k] = original[addr + k - 1] /\ result[k] # NUL
    BY <2>1
  <2>3. QED BY <1>2, <2>1, <2>2, PrefixOf DEF ReadsPrefix
<1>8. QED BY <1>2, <1>4, <1>5, <1>6, <1>7 DEF IInv

(* Every step keeps the invariant. *)
LEMMA Inductive == IInv /\ [Next]_vars => IInv'
<1> SUFFICES ASSUME IInv, [Next]_vars PROVE IInv'
  OBVIOUS
<1>1. CASE UNCHANGED vars
  <2>1. UNCHANGED <<rights, works, addr, original, memory, pc, offset, result, string, i, success>>
    BY <1>1 DEF vars, memoryMap
  <2>2. GuestString' = GuestString
    BY <2>1 DEF GuestString
  <2>3. Setting' /\ TypeOK' /\ Copied' /\ Chunks' /\ Written'
    BY <2>1 DEF IInv, Setting, TypeOK, Copied, Chunks, Written
  <2>4. ReadsPrefix' /\ ReadsWhole' /\ WritesExactly'
    BY <2>1, <2>2 DEF IInv, ReadsPrefix, ReadsWhole, WritesExactly, Readable, RightsAt
  <2>5. QED BY <2>3, <2>4 DEF IInv
<1>2. CASE Done
  BY <1>1, <1>2 DEF Done
<1>3. QED BY <1>1, <1>2, Reads, Handles, WritesAtOnce, WritesWord DEF Next

(* So it always holds. *)
LEMMA Always == Spec => []IInv
BY Initially, Inductive, PTL DEF Spec

-----------------------------------------------------------------------------
(* read_string never returns more than max_len bytes, and write_bytes      *)
(* never goes more than a word beyond the string.                          *)
THEOREM MemoryTypes == Spec => []TypeOK
<1>1. IInv => TypeOK
  BY DEF IInv
<1>2. QED BY <1>1, Always, PTL

(* What read_string has, at any time and however it reads, is the          *)
(* beginning of the guest's string.                                        *)
THEOREM NothingMadeUp == Spec => []ReadsPrefix
<1>1. IInv => ReadsPrefix
  BY DEF IInv
<1>2. QED BY <1>1, Always, PTL

(* It returns the whole string where that is short enough and lies, with   *)
(* the rest of its last chunk, in memory that can be read.                 *)
THEOREM NothingMissing == Spec => []ReadsWhole
<1>1. IInv => ReadsWhole
  BY DEF IInv
<1>2. QED BY <1>1, Always, PTL

(* write_bytes that reports success has written the string and no other    *)
(* byte, also where the words took over and the last is not all its own.   *)
THEOREM WriteIsExact == Spec => []WritesExactly
<1>1. IInv => WritesExactly
  BY DEF IInv
<1>2. QED BY <1>1, Always, PTL
===============================================================================
