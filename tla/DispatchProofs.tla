---------------------------- MODULE DispatchProofs ----------------------------
(***************************************************************************)
(* Proofs about PathResolver and SyscallDispatch, for paths of any length  *)
(* and any sequence of calls.                                              *)
(***************************************************************************)
EXTENDS SyscallDispatch, SequenceTheorems, WellFoundedInduction, TLAPS

Dots == {".", ".."}

-----------------------------------------------------------------------------
(* A set of numbers that is not empty has a least element. *)
LEMMA Least ==
    ASSUME NEW S, S \subseteq Nat, S # {}
    PROVE  \E m \in S : \A k \in S : m <= k
<1>1. PICK m \in S : \A k \in S : <<k, m>> \notin OpToRel(<, Nat)
  BY NatLessThanWellFounded, WFMin
<1>2. ASSUME NEW k \in S PROVE m <= k
  <2>1. ~ (k < m)
    <3>1. <<k, m>> \in Nat \X Nat /\ <<k, m>>[1] = k /\ <<k, m>>[2] = m
      OBVIOUS
    <3>2. QED BY <1>1, <3>1 DEF OpToRel
  <2>2. QED BY <2>1
<1>3. QED BY <1>2

(* The first element of T above 0 has a predecessor, which is not in T. *)
LEMMA NotInduction ==
    ASSUME NEW T, T \subseteq Nat, T # {}, 0 \notin T
    PROVE  \E m \in T : m - 1 \in Nat /\ m - 1 \notin T
<1>1. PICK m \in T : \A k \in T : m <= k
  BY Least
<1>2. m \in Nat /\ m # 0
  OBVIOUS
<1>3. m - 1 \in Nat /\ m - 1 \notin T
  BY <1>1, <1>2
<1>4. QED BY <1>3

-----------------------------------------------------------------------------
(* normalize_path goes from segment to segment: f[n] is what it has of the *)
(* first n.                                                                *)
LEMMA Walks ==
    ASSUME NEW S, NEW segs \in Seq(S), NEW abs
    PROVE  \E f : /\ f[0] = <<>>
                  /\ \A n \in 1 .. Len(segs) : f[n] = NormalizeStep(f[n - 1], segs[n])
                  /\ normalize_path(Path(abs, segs)) = f[Len(segs)]
<1> DEFINE Part(f, n) == f = [m \in 0 .. n |-> IF m = 0 THEN <<>>
                                               ELSE NormalizeStep(f[m - 1], segs[m])]
           T == {n \in Nat : ~ \E f : Part(f, n)}
<1>0. Len(segs) \in Nat
  BY LenProperties
<1>1. T = {}
  <2> SUFFICES ASSUME T # {} PROVE FALSE
    OBVIOUS
  <2>1. 0 \notin T
    <3>1. PICK f : f = [m \in 0 .. 0 |-> <<>>]
      OBVIOUS
    <3>2. Part(f, 0)
      BY <3>1
    <3>3. QED BY <3>2
  <2>2. PICK n \in T : n - 1 \in Nat /\ n - 1 \notin T
    BY <2>1, NotInduction
  <2>3. PICK g : Part(g, n - 1)
    BY <2>2
  <2>4. PICK f : f = [m \in 0 .. n |-> IF m = n THEN NormalizeStep(g[n - 1], segs[n]) ELSE g[m]]
    OBVIOUS
  <2>5. ASSUME NEW m \in 0 .. n
        PROVE  f[m] = IF m = 0 THEN <<>> ELSE NormalizeStep(f[m - 1], segs[m])
    <3>1. CASE m = n
      BY <2>2, <2>4, <3>1
    <3>2. CASE m # n
      <4>1. m \in 0 .. n - 1 /\ f[m] = g[m]
        BY <2>2, <2>4, <3>2
      <4>2. m # 0 => f[m - 1] = g[m - 1]
        BY <2>2, <2>4, <4>1
      <4>3. g[m] = IF m = 0 THEN <<>> ELSE NormalizeStep(g[m - 1], segs[m])
        BY <2>3, <4>1
      <4>4. QED BY <4>1, <4>2, <4>3
    <3>3. QED BY <3>1, <3>2
  <2>6. Part(f, n)
    BY <2>4, <2>5
  <2>7. QED BY <2>2, <2>6
<1>2. \E f : Part(f, Len(segs))
  BY <1>0, <1>1
<1>3. PICK f : f = CHOOSE g : Part(g, Len(segs))
  OBVIOUS
<1>4. Part(f, Len(segs))
  BY <1>2, <1>3
<1>5. Path(abs, segs).segs = segs
  BY DEF Path
<1>6. normalize_path(Path(abs, segs)) = f[Len(segs)]
  BY <1>3, <1>5 DEF normalize_path
<1> HIDE DEF T
<1>7. f[0] = <<>> /\ \A n \in 1 .. Len(segs) : f[n] = NormalizeStep(f[n - 1], segs[n])
  BY <1>0, <1>4
<1>8. QED BY <1>6, <1>7

(* A sequence that is not empty is one with an element appended. *)
LEMMA Appended ==
    ASSUME NEW S, NEW t \in Seq(S), t # <<>>
    PROVE  /\ Len(t) \in Nat \ {0} /\ Front(t) \in Seq(S) /\ Last(t) \in S
           /\ Len(Front(t)) = Len(t) - 1
           /\ t = Append(Front(t), Last(t))
           /\ \A i \in 1 .. Len(t) - 1 : Front(t)[i] = t[i]
<1>1. Len(t) \in Nat \ {0} /\ Last(t) \in S /\ Last(t) = t[Len(t)]
  BY EmptySeq, LenProperties DEF Last
<1>2. PICK a : a = SubSeq(t, 1, Len(t) - 1)
  OBVIOUS
<1>3. /\ a \in Seq(S) /\ Len(a) = Len(t) - 1
      /\ \A i \in 1 .. Len(t) - 1 : a[i] = t[i]
  <2>1. \A i \in 1 .. Len(t) - 1 : t[i] \in S
    BY <1>1
  <2>2. PICK n \in Nat : n = Len(t) - 1
    BY <1>1
  <2>3. /\ a \in Seq(S) /\ Len(a) = (IF 1 <= n THEN n - 1 + 1 ELSE 0)
        /\ \A i \in 1 .. n - 1 + 1 : a[i] = t[1 + i - 1]
    BY <1>2, <2>1, <2>2, SubSeqProperties
  <2>4. Len(a) = n
    BY <2>3
  <2>5. ASSUME NEW i \in 1 .. n PROVE a[i] = t[i]
    <3>1. i \in 1 .. n - 1 + 1 /\ 1 + i - 1 = i
      OBVIOUS
    <3>2. QED BY <2>3, <3>1
  <2>6. QED BY <2>2, <2>3, <2>4, <2>5
<1>4. t = Append(a, Last(t))
  <2>1. /\ Append(a, Last(t)) \in Seq(S) /\ Len(Append(a, Last(t))) = Len(t)
        /\ \A i \in 1 .. Len(t) - 1 : Append(a, Last(t))[i] = t[i]
        /\ Append(a, Last(t))[Len(t)] = t[Len(t)]
    BY <1>1, <1>3, AppendProperties
  <2>2. \A i \in 1 .. Len(t) : Append(a, Last(t))[i] = t[i]
    BY <1>1, <2>1
  <2>3. QED BY <1>1, <2>1, <2>2
<1>5. QED BY <1>1, <1>2, <1>3, <1>4 DEF Front

(* What is true of the empty sequence and false of others turns false with *)
(* one element.                                                            *)
LEMMA Shortest ==
    ASSUME NEW S, NEW T, T \subseteq Seq(S), T # {}, <<>> \notin T
    PROVE  \E a \in Seq(S), s \in S : Append(a, s) \in T /\ a \notin T
<1>1. PICK l \in {Len(t) : t \in T} : \A k \in {Len(t) : t \in T} : l <= k
  <2>1. {Len(t) : t \in T} \subseteq Nat
    BY LenProperties
  <2>2. QED BY <2>1, Least
<1>2. PICK t \in T : Len(t) = l
  OBVIOUS
<1>3. t \in Seq(S) /\ t # <<>>
  OBVIOUS
<1>4. Front(t) \notin T
  <2>1. Len(Front(t)) < l
    BY <1>2, <1>3, Appended
  <2>2. Len(Front(t)) \in Nat
    BY <1>3, Appended, LenProperties
  <2>3. l \in Nat
    BY <1>2, <1>3, LenProperties
  <2>4. \A k \in T : l <= Len(k)
    BY <1>1
  <2>5. QED BY <2>1, <2>2, <2>3, <2>4
<1>5. Front(t) \in Seq(S) /\ Last(t) \in S /\ Append(Front(t), Last(t)) = t
  BY <1>3, Appended
<1>6. Append(Front(t), Last(t)) \in T
  BY <1>5
<1>7. QED BY <1>4, <1>5, <1>6

(* normalize_path of no segment, and of one segment more. *)
LEMMA NormalEmpty ==
    ASSUME NEW abs
    PROVE  normalize_path(Path(abs, <<>>)) = <<>>
<1>1. <<>> \in Seq({}) /\ Len(<<>>) = 0
  BY EmptySeq
<1>2. PICK f : f[0] = <<>> /\ normalize_path(Path(abs, <<>>)) = f[Len(<<>>)]
  BY <1>1, Walks
<1>3. QED BY <1>1, <1>2

(* The walk takes one step more. *)
LEMMA NormalAppend ==
    ASSUME NEW S, NEW a \in Seq(S), NEW s \in S, NEW abs, NEW abs2
    PROVE  normalize_path(Path(abs, Append(a, s))) = NormalizeStep(normalize_path(Path(abs2, a)), s)
<1>1. PICK f : /\ f[0] = <<>>
               /\ \A n \in 1 .. Len(Append(a, s)) : f[n] = NormalizeStep(f[n - 1], Append(a, s)[n])
               /\ normalize_path(Path(abs, Append(a, s))) = f[Len(Append(a, s))]
  <2>1. Append(a, s) \in Seq(S)
    OBVIOUS
  <2>2. QED BY <2>1, Walks
<1>2. PICK g : /\ g[0] = <<>>
               /\ \A n \in 1 .. Len(a) : g[n] = NormalizeStep(g[n - 1], a[n])
               /\ normalize_path(Path(abs2, a)) = g[Len(a)]
  BY Walks
<1>3. /\ Len(a) \in Nat /\ Len(Append(a, s)) = Len(a) + 1 /\ Append(a, s)[Len(a) + 1] = s
      /\ \A n \in 1 .. Len(a) : Append(a, s)[n] = a[n]
  BY AppendProperties, LenProperties
<1> DEFINE T == {n \in 0 .. Len(a) : f[n] # g[n]}
<1>4. T = {}
  <2> SUFFICES ASSUME T # {} PROVE FALSE
    OBVIOUS
  <2>1. PICK n \in T : n - 1 \in Nat /\ n - 1 \notin T
    <3>1. T \subseteq Nat /\ 0 \notin T
      BY <1>1, <1>2, <1>3
    <3> HIDE DEF T
    <3>2. QED BY <3>1, NotInduction
  <2>2. f[n - 1] = g[n - 1] /\ n \in 1 .. Len(a)
    BY <1>3, <2>1
  <2>3. f[n] = NormalizeStep(f[n - 1], a[n]) /\ g[n] = NormalizeStep(g[n - 1], a[n])
    BY <1>1, <1>2, <1>3, <2>2
  <2>4. QED BY <2>1, <2>2, <2>3
<1>5. f[Len(a)] = g[Len(a)]
  BY <1>3, <1>4
<1>6. f[Len(a) + 1] = NormalizeStep(f[Len(a)], s)
  <2>1. Len(a) + 1 \in 1 .. Len(Append(a, s)) /\ Len(a) + 1 - 1 = Len(a)
    BY <1>3
  <2>2. QED BY <1>1, <1>3, <2>1
<1>7. QED BY <1>1, <1>2, <1>3, <1>5, <1>6

(* Its result has no dots left, and no name that was not there. *)
LEMMA NormalClean ==
    ASSUME NEW S, NEW segs \in Seq(S), NEW abs
    PROVE  normalize_path(Path(abs, segs)) \in Seq(S \ Dots)
<1> DEFINE T == {t \in Seq(S) : normalize_path(Path(abs, t)) \notin Seq(S \ Dots)}
<1> SUFFICES ASSUME T # {} PROVE FALSE
  OBVIOUS
<1>1. <<>> \notin T
  BY NormalEmpty, EmptySeq
<1>2. PICK a \in Seq(S), s \in S : Append(a, s) \in T /\ a \notin T
  <2>1. T \subseteq Seq(S)
    OBVIOUS
  <2> HIDE DEF T
  <2>2. QED BY <1>1, <2>1, Shortest
<1>3. PICK q : q = normalize_path(Path(abs, a))
  OBVIOUS
<1>4. q \in Seq(S \ Dots)
  BY <1>2, <1>3
<1>5. NormalizeStep(q, s) \in Seq(S \ Dots)
  <2>1. CASE s \in Dots
    <3>1. q # <<>> => Front(q) \in Seq(S \ Dots)
      BY <1>4, Appended
    <3>2. QED BY <1>4, <2>1, <3>1 DEF NormalizeStep, Dots
  <2>2. CASE s \notin Dots
    BY <1>4, <2>2, AppendProperties DEF NormalizeStep, Dots
  <2>3. QED BY <2>1, <2>2
<1>6. normalize_path(Path(abs, Append(a, s))) = NormalizeStep(q, s)
  BY <1>3, NormalAppend
<1>7. QED BY <1>2, <1>5, <1>6

(* What has no dots is normalised. *)
LEMMA NormalSame ==
    ASSUME NEW S, S \cap Dots = {}, NEW segs \in Seq(S), NEW abs
    PROVE  normalize_path(Path(abs, segs)) = segs
<1> DEFINE T == {t \in Seq(S) : normalize_path(Path(abs, t)) # t}
<1> SUFFICES ASSUME T # {} PROVE FALSE
  OBVIOUS
<1>1. <<>> \notin T
  BY NormalEmpty, EmptySeq
<1>2. PICK a \in Seq(S), s \in S : Append(a, s) \in T /\ a \notin T
  <2>1. T \subseteq Seq(S)
    OBVIOUS
  <2> HIDE DEF T
  <2>2. QED BY <1>1, <2>1, Shortest
<1>3. normalize_path(Path(abs, a)) = a
  BY <1>2
<1>4. normalize_path(Path(abs, Append(a, s))) = NormalizeStep(a, s)
  BY <1>3, NormalAppend
<1>5. NormalizeStep(a, s) = Append(a, s)
  BY DEF NormalizeStep, Dots
<1>6. QED BY <1>2, <1>4, <1>5

-----------------------------------------------------------------------------
(* The kernel goes from segment to segment as well, by the links it meets. *)
LEMMA LinkWalks ==
    ASSUME NEW S, NEW segs \in Seq(S), NEW ls, NEW c
    PROVE  \E f : /\ f[0] = c
                  /\ \A n \in 1 .. Len(segs) :
                        f[n] = Follow(ls, NormalizeStep(f[n - 1], segs[n]))
                  /\ Walk(ls, c, segs) = f[Len(segs)]
<1> DEFINE Part(f, n) == f = [m \in 0 .. n |->
                               IF m = 0 THEN c
                               ELSE Follow(ls, NormalizeStep(f[m - 1], segs[m]))]
           T == {n \in Nat : ~ \E f : Part(f, n)}
<1>0. Len(segs) \in Nat
  BY LenProperties
<1>1. T = {}
  <2> SUFFICES ASSUME T # {} PROVE FALSE
    OBVIOUS
  <2>1. 0 \notin T
    <3>1. PICK f : f = [m \in 0 .. 0 |-> c]
      OBVIOUS
    <3>2. Part(f, 0)
      BY <3>1
    <3>3. QED BY <3>2
  <2>2. PICK n \in T : n - 1 \in Nat /\ n - 1 \notin T
    BY <2>1, NotInduction
  <2>3. PICK g : Part(g, n - 1)
    BY <2>2
  <2>4. PICK f : f = [m \in 0 .. n |->
                        IF m = n THEN Follow(ls, NormalizeStep(g[n - 1], segs[n])) ELSE g[m]]
    OBVIOUS
  <2>5. ASSUME NEW m \in 0 .. n
        PROVE  f[m] = IF m = 0 THEN c ELSE Follow(ls, NormalizeStep(f[m - 1], segs[m]))
    <3>1. CASE m = n
      BY <2>2, <2>4, <3>1
    <3>2. CASE m # n
      <4>1. m \in 0 .. n - 1 /\ f[m] = g[m]
        BY <2>2, <2>4, <3>2
      <4>2. m # 0 => f[m - 1] = g[m - 1]
        BY <2>2, <2>4, <4>1
      <4>3. g[m] = IF m = 0 THEN c ELSE Follow(ls, NormalizeStep(g[m - 1], segs[m]))
        BY <2>3, <4>1
      <4>4. QED BY <4>1, <4>2, <4>3
    <3>3. QED BY <3>1, <3>2
  <2>6. Part(f, n)
    BY <2>4, <2>5
  <2>7. QED BY <2>2, <2>6
<1>2. \E f : Part(f, Len(segs))
  BY <1>0, <1>1
<1>3. PICK f : f = CHOOSE g : Part(g, Len(segs))
  OBVIOUS
<1>4. Part(f, Len(segs))
  BY <1>2, <1>3
<1>5. Walk(ls, c, segs) = f[Len(segs)]
  BY <1>3 DEF Walk
<1> HIDE DEF T
<1>6. /\ f[0] = c
      /\ \A n \in 1 .. Len(segs) : f[n] = Follow(ls, NormalizeStep(f[n - 1], segs[n]))
  BY <1>0, <1>4
<1>7. QED BY <1>5, <1>6

(* The kernel's walk of no segment, and of one segment more. *)
LEMMA WalkEmpty ==
    ASSUME NEW ls, NEW c
    PROVE  Walk(ls, c, <<>>) = c
<1>1. PICK e \in Seq({}) : e = <<>> /\ Len(e) = 0
  BY EmptySeq
<1>2. PICK f : f[0] = c /\ Walk(ls, c, e) = f[Len(e)]
  BY LinkWalks
<1>3. QED BY <1>1, <1>2

(* It takes one step more. *)
LEMMA WalkAppend ==
    ASSUME NEW S, NEW a \in Seq(S), NEW s \in S, NEW ls, NEW c
    PROVE  Walk(ls, c, Append(a, s)) = Follow(ls, NormalizeStep(Walk(ls, c, a), s))
<1>1. PICK f : /\ f[0] = c
               /\ \A n \in 1 .. Len(Append(a, s)) :
                     f[n] = Follow(ls, NormalizeStep(f[n - 1], Append(a, s)[n]))
               /\ Walk(ls, c, Append(a, s)) = f[Len(Append(a, s))]
  <2>1. PICK t \in Seq(S) : t = Append(a, s)
    BY AppendProperties
  <2>2. \E f : /\ f[0] = c
               /\ \A n \in 1 .. Len(t) : f[n] = Follow(ls, NormalizeStep(f[n - 1], t[n]))
               /\ Walk(ls, c, t) = f[Len(t)]
    BY LinkWalks
  <2>3. QED BY <2>1, <2>2
<1>2. PICK g : /\ g[0] = c
               /\ \A n \in 1 .. Len(a) : g[n] = Follow(ls, NormalizeStep(g[n - 1], a[n]))
               /\ Walk(ls, c, a) = g[Len(a)]
  BY LinkWalks
<1>3. /\ Len(a) \in Nat /\ Len(Append(a, s)) = Len(a) + 1 /\ Append(a, s)[Len(a) + 1] = s
      /\ \A n \in 1 .. Len(a) : Append(a, s)[n] = a[n]
  BY AppendProperties, LenProperties
<1> DEFINE T == {n \in 0 .. Len(a) : f[n] # g[n]}
<1>4. T = {}
  <2> SUFFICES ASSUME T # {} PROVE FALSE
    OBVIOUS
  <2>1. PICK n \in T : n - 1 \in Nat /\ n - 1 \notin T
    <3>1. T \subseteq Nat /\ 0 \notin T
      BY <1>1, <1>2, <1>3
    <3> HIDE DEF T
    <3>2. QED BY <3>1, NotInduction
  <2>2. f[n - 1] = g[n - 1] /\ n \in 1 .. Len(a)
    BY <1>3, <2>1
  <2>3. /\ f[n] = Follow(ls, NormalizeStep(f[n - 1], a[n]))
        /\ g[n] = Follow(ls, NormalizeStep(g[n - 1], a[n]))
    BY <1>1, <1>2, <1>3, <2>2
  <2>4. QED BY <2>1, <2>2, <2>3
<1>5. f[Len(a)] = g[Len(a)]
  BY <1>3, <1>4
<1>6. f[Len(a) + 1] = Follow(ls, NormalizeStep(f[Len(a)], s))
  <2>1. Len(a) + 1 \in 1 .. Len(Append(a, s)) /\ Len(a) + 1 - 1 = Len(a)
    BY <1>3
  <2>2. QED BY <1>1, <1>3, <2>1
<1>7. QED BY <1>1, <1>2, <1>3, <1>5, <1>6

-----------------------------------------------------------------------------
(* The rootfs is a directory as the kernel names it, and not on the shared *)
(* storage.                                                                *)
Strs  == STRING \cup {"sdcard", "Download"}   \* the provers do not know these for strings
Clean == Strs \ Dots
Placed ==
    /\ Rootfs.abs /\ Rootfs.segs \in Seq(Clean)
    /\ Rootfs.segs # <<>> => Rootfs.segs[1] \notin {"sdcard", "storage"}

PathIn(G) == [abs : BOOLEAN, segs : Seq(G)]

(* No name outside G is ever used. *)
Supplied(G) ==
    /\ G \subseteq Strs /\ {"sdcard", "Download"} \subseteq G /\ Rootfs.segs \in Seq(G)
    /\ \A c \in Calls : PathsOf[c] \subseteq PathIn(G)

(* The names that do not only begin with that of the rootfs. *)
Names == {x \in Strs : Rootfs.segs = <<>> \/ <<x, Last(Rootfs.segs)>> \notin Extends}

(* What resolve does with a path once it is normalised. *)
Host(n) ==
    IF BeginsWith(n, Download) \/ BeginsWith(n, StorageDownload) THEN Path(TRUE, Download)
    ELSE IF Rootfs.abs /\ BeginsWith(n, Rootfs.segs) THEN Path(TRUE, n)
    ELSE Path(Rootfs.abs, Rootfs.segs \o n)

(* Resolving p, from wherever, does not change it any more. *)
Resolved(p) == /\ p.abs /\ p = Path(TRUE, p.segs) /\ p.segs \in Seq(Clean)
               /\ \A d : resolve(d, p) = p

(* Paths as records. *)
LEMMA PathParts ==
    ASSUME NEW a, NEW q
    PROVE  Path(a, q).abs = a /\ Path(a, q).segs = q
BY DEF Path

(* Paths over a set of names. *)
LEMMA PathRecord ==
    ASSUME NEW G
    PROVE  /\ \A a \in BOOLEAN, q \in Seq(G) : Path(a, q) \in PathIn(G)
           /\ \A p \in PathIn(G) : p = Path(p.abs, p.segs) /\ p.abs \in BOOLEAN /\ p.segs \in Seq(G)
           /\ EmptyPath \in PathIn(G) /\ EmptyPath.abs = FALSE /\ EmptyPath.segs = <<>>
           /\ \A a, q : Path(a, q).abs = a /\ Path(a, q).segs = q
<1>1. <<>> \in Seq(G)
  BY EmptySeq
<1>2. QED BY <1>1 DEF Path, PathIn, EmptyPath

(* The rootfs and the shared folder are names of directories. *)
LEMMA Places ==
    /\ Rootfs \in PathIn(Strs) /\ Rootfs = Path(Rootfs.abs, Rootfs.segs)
    /\ Download \in Seq({"sdcard", "Download"}) /\ Download \in Seq(Clean)
    /\ Len(Download) = 2 /\ Len(StorageDownload) = 4
    /\ Supplied(Strs)
<1>0. \A p \in Strings : p \in PathIn(Strs)
  <2> SUFFICES ASSUME NEW p \in Strings PROVE p \in PathIn(Strs)
    OBVIOUS
  <2>1. p.segs \in Seq(STRING) /\ STRING \subseteq Strs
    BY DEF Strings, Strs
  <2>2. p.segs \in Seq(Strs)
    BY <2>1, SeqMonotonic
  <2>3. QED BY <2>2 DEF Strings, PathIn
<1>1. Rootfs \in PathIn(Strs) /\ Rootfs = Path(Rootfs.abs, Rootfs.segs)
  BY <1>0, RootfsAssumption DEF Strings, Path
<1>2. /\ Download \in Seq({"sdcard", "Download"}) /\ Download \in Seq(Clean)
      /\ Len(Download) = 2 /\ Len(StorageDownload) = 4
  <2>1. ASSUME NEW S, NEW x \in S, NEW y \in S PROVE <<x, y>> \in Seq(S) /\ Len(<<x, y>>) = 2
    OBVIOUS
  <2>2. "sdcard" \in Clean /\ "Download" \in Clean
    BY DEF Clean, Dots, Strs
  <2>3. Download \in Seq({"sdcard", "Download"}) /\ Len(Download) = 2
    BY <2>1 DEF Download
  <2>4. Download \in Seq(Clean)
    BY <2>1, <2>2 DEF Download
  <2>5. Len(StorageDownload) = 4
    BY DEF StorageDownload
  <2>6. QED BY <2>3, <2>4, <2>5
<1>3. Supplied(Strs)
  <2>1. {"sdcard", "Download"} \subseteq Strs
    BY DEF Strs
  <2>2. Rootfs.segs \in Seq(Strs)
    BY <1>1, PathRecord
  <2>3. QED BY <1>0, <2>1, <2>2, PathAssumption DEF Supplied
<1>4. QED BY <1>1, <1>2, <1>3

(* Normalising a path. *)
LEMMA NormalType ==
    ASSUME NEW G, NEW p \in PathIn(G)
    PROVE  normalize_path(p) \in Seq(G \ Dots)
<1>1. p = Path(p.abs, p.segs) /\ p.segs \in Seq(G)
  BY PathRecord
<1>2. normalize_path(Path(p.abs, p.segs)) \in Seq(G \ Dots)
  BY <1>1, NormalClean
<1>3. QED BY <1>1, <1>2

(* resolve makes the path absolute with the directory, normalises it, and  *)
(* finds its place on the host.                                            *)
LEMMA Resolves ==
    ASSUME NEW G, NEW d \in Seq(G), NEW p \in PathIn(G), p # EmptyPath
    PROVE  \E full \in Seq(G) :
              /\ full = IF p.abs THEN p.segs ELSE d \o p.segs
              /\ normalize_path(Path(TRUE, full)) \in Seq(G \ Dots)
              /\ resolve(d, p) = Host(normalize_path(Path(TRUE, full)))
<1>1. PICK full : full = IF p.abs THEN p.segs ELSE d \o p.segs
  OBVIOUS
<1>2. full \in Seq(G)
  BY <1>1, PathRecord, ConcatProperties
<1>3. normalize_path(Path(TRUE, full)) \in Seq(G \ Dots)
  BY <1>2, NormalClean
<1>4. resolve(d, p) = Host(normalize_path(Path(TRUE, full)))
  BY <1>1 DEF resolve, Host, InRootfs
<1>5. QED BY <1>1, <1>2, <1>3, <1>4

(* Its result has the names that are used. *)
LEMMA ResolveType ==
    ASSUME NEW G, Supplied(G), NEW d \in Seq(G), NEW p \in PathIn(G)
    PROVE  resolve(d, p) \in PathIn(G) /\ (Rootfs.abs => resolve(d, p).abs)
<1>1. Rootfs \in PathIn(G)
  <2>1. Rootfs.abs \in BOOLEAN
    BY Places, PathRecord
  <2>2. Path(Rootfs.abs, Rootfs.segs) \in PathIn(G)
    BY <2>1, PathRecord DEF Supplied
  <2>3. QED BY <2>2, Places
<1>2. CASE p = EmptyPath
  BY <1>1, <1>2 DEF resolve
<1>3. CASE p # EmptyPath
  <2>1. PICK n \in Seq(G \ Dots) : resolve(d, p) = Host(n)
    BY <1>3, Resolves
  <2>2. n \in Seq(G) /\ Download \in Seq(G)
    BY Places, SeqMonotonic DEF Supplied
  <2>3. Rootfs.segs \o n \in Seq(G) /\ Rootfs.abs \in BOOLEAN
    BY <1>1, <2>2, PathRecord, ConcatProperties
  <2>4. Host(n) \in PathIn(G) /\ (Rootfs.abs => Host(n).abs)
    BY <2>2, <2>3, PathRecord DEF Host
  <2>5. QED BY <2>1, <2>4
<1>4. QED BY <1>2, <1>3

(* What stands before a name is where the name begins. *)
LEMMA PrefixBegins ==
    ASSUME NEW S, NEW r \in Seq(S), NEW n \in Seq(S)
    PROVE  /\ r \o n \in Seq(S) /\ BeginsWith(r \o n, r) /\ IsPrefix(r, r \o n)
           /\ r # <<>> => (r \o n)[1] = r[1]
<1>1. /\ r \o n \in Seq(S) /\ Len(r) \in Nat /\ Len(n) \in Nat /\ Len(r \o n) = Len(r) + Len(n)
      /\ \A i \in 1 .. Len(r) : (r \o n)[i] = r[i]
  BY ConcatProperties, LenProperties
<1>2. PICK m : m = r \o n
  OBVIOUS
<1>3. \A l \in 0 .. Len(r) : SubSeq(m, 1, l) = SubSeq(r, 1, l)
  <2> TAKE l \in 0 .. Len(r)
  <2>1. \A i \in 1 .. l : m[i] = r[i]
    BY <1>1, <1>2
  <2>2. QED BY <1>1, <1>2, <2>1
<1>4. IsPrefix(r, m)
  <2>1. Len(r) \in 0 .. Len(r) /\ Len(r) <= Len(m)
    BY <1>1, <1>2
  <2>2. QED BY <1>3, <2>1 DEF IsPrefix
<1>5. r # <<>> => Len(r) >= 1
  BY <1>1, EmptySeq
<1>6. BeginsWith(m, r)
  <2> SUFFICES ASSUME r # <<>> PROVE BeginsWith(m, r)
    BY DEF BeginsWith
  <2>1. Len(r) - 1 \in 0 .. Len(r) /\ Len(r) \in 1 .. Len(r) /\ Len(m) >= Len(r)
    BY <1>1, <1>2, <1>5
  <2>2. SubSeq(m, 1, Len(r) - 1) = Front(r) /\ m[Len(r)] = Last(r)
    BY <1>1, <1>2, <1>3, <2>1 DEF Front, Last
  <2>3. QED BY <2>1, <2>2 DEF BeginsWith
<1>7. r # <<>> => m[1] = r[1]
  BY <1>1, <1>2, <1>5
<1>8. QED BY <1>1, <1>2, <1>4, <1>6, <1>7

(* A name on the shared storage begins with its first directory. *)
LEMMA SharedFirst ==
    ASSUME NEW S, NEW m \in Seq(S), BeginsWith(m, Download) \/ BeginsWith(m, StorageDownload)
    PROVE  m[1] \in {"sdcard", "storage"}
<1>1. CASE BeginsWith(m, Download)
  <2>1. Download # <<>> /\ Front(Download)[1] = "sdcard"
    BY DEF Download, Front
  <2>2. Len(m) >= 2 /\ SubSeq(m, 1, 1) = Front(Download)
    BY <1>1, <2>1, Places DEF BeginsWith
  <2>3. SubSeq(m, 1, 1)[1] = m[1]
    BY <2>2, LenProperties
  <2>4. QED BY <2>1, <2>2, <2>3
<1>2. CASE BeginsWith(m, StorageDownload)
  <2>1. StorageDownload # <<>> /\ Front(StorageDownload)[1] = "storage"
    BY DEF StorageDownload, Front
  <2>2. Len(m) >= 4 /\ SubSeq(m, 1, 3) = Front(StorageDownload)
    BY <1>2, <2>1, Places DEF BeginsWith
  <2>3. SubSeq(m, 1, 3)[1] = m[1]
    BY <2>2, LenProperties
  <2>4. QED BY <2>1, <2>2, <2>3
<1>3. QED BY <1>1, <1>2

(* Download is a name on the shared storage. *)
LEMMA DownloadShared == BeginsWith(Download, Download)
<1>1. SubSeq(Download, 1, Len(Download) - 1) = Front(Download)
  BY DEF Front
<1>2. Download[Len(Download)] = Last(Download)
  BY DEF Last
<1>3. QED BY <1>1, <1>2, Places DEF BeginsWith

-----------------------------------------------------------------------------
(* Where links lead.                                                       *)

(* A link's text, read from its directory or from the root, has no dots    *)
(* left in the end.                                                        *)
LEMMA LinkEndType ==
    ASSUME NEW ls, NEW h \in Seq(Clean), h # <<>>, ls[h] \in PathIn(Strs)
    PROVE  LinkEnd(ls, h) \in Seq(Clean)
<1>1. CASE ls[h].abs
  <2>1. LinkEnd(ls, h) = normalize_path(ls[h])
    BY <1>1 DEF LinkEnd
  <2>2. QED BY <2>1, NormalType DEF Clean
<1>2. CASE ~ ls[h].abs
  <2>1. PICK d : d = Front(h)
    OBVIOUS
  <2>2. d \in Seq(Clean)
    BY <2>1, Appended
  <2>3. d \in Seq(Strs)
    BY <2>2, SeqMonotonic DEF Clean
  <2>4. PICK t \in Seq(Strs) : t = ls[h].segs
    BY PathRecord
  <2>5. d \o t \in Seq(Strs)
    BY <2>3, ConcatProperties
  <2>6. LinkEnd(ls, h) = normalize_path(Path(TRUE, d \o t))
    BY <1>2, <2>1, <2>4 DEF LinkEnd
  <2>7. QED BY <2>5, <2>6, NormalClean DEF Clean
<1>3. QED BY <1>1, <1>2

(* The links of the rootfs. *)
LEMMA LinkEnds ==
    ASSUME NEW h \in DOMAIN Links
    PROVE  /\ h \in Seq(Clean) /\ h # <<>> /\ Links[h] \in PathIn(Strs)
           /\ LinkEnd(Links, h) \in Seq(Clean)
<1>1. h \in Seq(STRING \ {".", ".."}) /\ h # <<>> /\ Links[h] \in Strings
  BY LinkAssumption
<1>2. h \in Seq(Clean)
  <2>1. STRING \ {".", ".."} \subseteq Clean
    BY DEF Clean, Strs, Dots
  <2>2. QED BY <1>1, <2>1, SeqMonotonic
<1>3. Links[h] \in PathIn(Strs)
  <2>1. Links[h].segs \in Seq(STRING) /\ STRING \subseteq Strs
    BY <1>1 DEF Strings, Strs
  <2>2. Links[h].segs \in Seq(Strs)
    BY <2>1, SeqMonotonic
  <2>3. QED BY <1>1, <2>2 DEF Strings, PathIn
<1>4. QED BY <1>1, <1>2, <1>3, LinkEndType

(* One segment of the walk. *)
LEMMA StepType ==
    ASSUME NEW q \in Seq(Clean), NEW x \in Strs
    PROVE  NormalizeStep(q, x) \in Seq(Clean)
<1>1. CASE x \in Dots
  <2>1. q # <<>> => Front(q) \in Seq(Clean)
    BY Appended
  <2>2. QED BY <1>1, <2>1 DEF NormalizeStep, Dots
<1>2. CASE x \notin Dots
  BY <1>2, AppendProperties DEF NormalizeStep, Dots, Clean
<1>3. QED BY <1>1, <1>2

(* All of it. *)
LEMMA WalkType ==
    ASSUME NEW ls, \A h \in DOMAIN ls : LinkEnd(ls, h) \in Seq(Clean),
           NEW c \in Seq(Clean), NEW t \in Seq(Strs)
    PROVE  Walk(ls, c, t) \in Seq(Clean)
<1> DEFINE T == {q \in Seq(Strs) : Walk(ls, c, q) \notin Seq(Clean)}
<1> SUFFICES ASSUME T # {} PROVE FALSE
  OBVIOUS
<1>1. <<>> \notin T
  BY WalkEmpty
<1>2. PICK a \in Seq(Strs), x \in Strs : Append(a, x) \in T /\ a \notin T
  <2>1. T \subseteq Seq(Strs)
    OBVIOUS
  <2> HIDE DEF T
  <2>2. QED BY <1>1, <2>1, Shortest
<1>3. PICK w \in Seq(Clean) : w = Walk(ls, c, a)
  BY <1>2
<1>4. Walk(ls, c, Append(a, x)) = Follow(ls, NormalizeStep(w, x))
  BY <1>3, WalkAppend
<1>5. NormalizeStep(w, x) \in Seq(Clean)
  BY StepType
<1>6. Follow(ls, NormalizeStep(w, x)) \in Seq(Clean)
  BY <1>5 DEF Follow
<1>7. QED BY <1>2, <1>4, <1>6

(* Prefixes, of a sequence and of one that is longer. *)
LEMMA PrefixAppend ==
    ASSUME NEW S, NEW e \in Seq(S), NEW w \in Seq(S), NEW x \in S
    PROVE  /\ IsPrefix(e, e) /\ Append(w, x) \in Seq(S)
           /\ IsPrefix(e, w) => IsPrefix(e, Append(w, x))
<1>1. IsPrefix(e, e)
  BY LenProperties DEF IsPrefix
<1>2. PICK m \in Seq(S) : m = Append(w, x)
  BY AppendProperties
<1>3. /\ Len(e) \in Nat /\ Len(w) \in Nat /\ Len(m) = Len(w) + 1
      /\ \A i \in 1 .. Len(w) : m[i] = w[i]
  BY <1>2, AppendProperties, LenProperties
<1>4. ASSUME IsPrefix(e, w) PROVE IsPrefix(e, m)
  <2>1. Len(e) <= Len(w) /\ SubSeq(e, 1, Len(e)) = SubSeq(w, 1, Len(e))
    BY <1>4 DEF IsPrefix
  <2>2. SubSeq(m, 1, Len(e)) = SubSeq(w, 1, Len(e))
    <3>1. \A i \in 1 .. Len(e) : m[i] = w[i]
      BY <1>3, <2>1
    <3>2. QED BY <1>3, <2>1, <3>1
  <2>3. QED BY <1>3, <2>1, <2>2 DEF IsPrefix
<1>5. QED BY <1>1, <1>2, <1>4

(* A name without dots leads to itself, or goes through a link and leads   *)
(* below what a link leads to.                                             *)
Through(ls, q) == \E l \in DOMAIN ls : IsPrefix(l, q)
Below(ls, q)   == \E l \in DOMAIN ls : IsPrefix(LinkEnd(ls, l), q)
LEMMA WalkThrough ==
    ASSUME NEW ls,
           \A h \in DOMAIN ls : h \in Seq(Clean) /\ LinkEnd(ls, h) \in Seq(Clean),
           NEW q \in Seq(Clean)
    PROVE  Walk(ls, <<>>, q) = q \/ (Through(ls, q) /\ Below(ls, Walk(ls, <<>>, q)))
<1> DEFINE Good(t) == Walk(ls, <<>>, t) = t \/ (Through(ls, t) /\ Below(ls, Walk(ls, <<>>, t)))
           T == {t \in Seq(Clean) : ~ Good(t)}
<1> SUFFICES ASSUME T # {} PROVE FALSE
  OBVIOUS
<1>1. <<>> \notin T
  BY WalkEmpty
<1>2. PICK a \in Seq(Clean), x \in Clean : Append(a, x) \in T /\ a \notin T
  <2>1. T \subseteq Seq(Clean)
    OBVIOUS
  <2> HIDE DEF T
  <2>2. QED BY <1>1, <2>1, Shortest
<1>3. PICK w \in Seq(Clean) : w = Walk(ls, <<>>, a)
  <2>1. <<>> \in Seq(Clean) /\ a \in Seq(Strs)
    BY EmptySeq, SeqMonotonic DEF Clean
  <2>2. QED BY <2>1, WalkType
<1>4. PICK m \in Seq(Clean) : m = Append(w, x)
  BY AppendProperties
<1>5. Walk(ls, <<>>, Append(a, x)) = Follow(ls, m)
  <2>1. NormalizeStep(w, x) = m
    BY <1>4 DEF NormalizeStep, Clean, Dots
  <2>2. QED BY <1>3, <2>1, WalkAppend
<1>6. w = a \/ (Through(ls, a) /\ Below(ls, w))
  BY <1>2, <1>3
<1>7. Through(ls, a) => Through(ls, Append(a, x))
  BY PrefixAppend DEF Through
<1>8. Below(ls, w) => Below(ls, m)
  BY <1>4, PrefixAppend DEF Below
<1>9. CASE m \in DOMAIN ls
  <2>1. Follow(ls, m) = LinkEnd(ls, m) /\ LinkEnd(ls, m) \in Seq(Clean)
    BY <1>9 DEF Follow
  <2>2. Below(ls, Follow(ls, m))
    BY <1>9, <2>1, PrefixAppend DEF Below
  <2>3. w = a => Through(ls, Append(a, x))
    BY <1>4, <1>9, PrefixAppend DEF Through
  <2>4. QED BY <1>2, <1>5, <1>6, <1>7, <2>2, <2>3
<1>10. CASE m \notin DOMAIN ls
  <2>1. Follow(ls, m) = m
    BY <1>10 DEF Follow
  <2>2. QED BY <1>2, <1>4, <1>5, <1>6, <1>7, <1>8, <2>1
<1>11. QED BY <1>9, <1>10

-----------------------------------------------------------------------------
(* The host's name of a path is its own host's name. *)
LEMMA HostFix ==
    ASSUME Placed, NEW n \in Seq(Clean)
    PROVE  /\ Host(n).abs = TRUE /\ Host(n).segs \in Seq(Clean) /\ Host(n) = Path(TRUE, Host(n).segs)
           /\ Host(Host(n).segs) = Host(n)
<1>0. Rootfs.abs = TRUE
  BY Places, PathRecord DEF Placed
<1>1. CASE BeginsWith(n, Download) \/ BeginsWith(n, StorageDownload)
  <2>1. Host(n) = Path(TRUE, Download)
    BY <1>1 DEF Host
  <2>2. Host(Download) = Path(TRUE, Download)
    BY DownloadShared DEF Host
  <2>3. Path(TRUE, Download).abs = TRUE /\ Path(TRUE, Download).segs = Download
    BY PathParts
  <2>4. QED BY <2>1, <2>2, <2>3, Places
<1>2. CASE ~ (BeginsWith(n, Download) \/ BeginsWith(n, StorageDownload)) /\ BeginsWith(n, Rootfs.segs)
  <2>1. Host(n) = Path(TRUE, n)
    BY <1>0, <1>2 DEF Host
  <2>2. QED BY <2>1, PathRecord
<1>3. CASE ~ (BeginsWith(n, Download) \/ BeginsWith(n, StorageDownload)) /\ ~ BeginsWith(n, Rootfs.segs)
  <2>1. Host(n) = Path(TRUE, Rootfs.segs \o n)
    BY <1>0, <1>3 DEF Host
  <2>2. PICK m : m = Rootfs.segs \o n
    OBVIOUS
  <2>3. Rootfs.segs # <<>>
    BY <1>3 DEF BeginsWith
  <2>4. m \in Seq(Clean) /\ BeginsWith(m, Rootfs.segs) /\ m[1] \notin {"sdcard", "storage"}
    BY <2>2, <2>3, PrefixBegins DEF Placed
  <2>5. Host(m) = Path(TRUE, m)
    BY <1>0, <2>4, SharedFirst DEF Host
  <2>6. Path(TRUE, m).abs = TRUE /\ Path(TRUE, m).segs = m
    BY PathParts
  <2>7. QED BY <2>1, <2>2, <2>4, <2>5, <2>6
<1>4. QED BY <1>1, <1>2, <1>3

(* So what has been resolved once is resolved. *)
LEMMA ResolvedOnce ==
    ASSUME Placed, NEW d \in Seq(Strs), NEW p \in PathIn(Strs), p # EmptyPath
    PROVE  Resolved(resolve(d, p))
<1>1. PICK n \in Seq(Clean) : resolve(d, p) = Host(n)
  BY Resolves DEF Clean
<1>2. PICK r : r = Host(n)
  OBVIOUS
<1>3. r.abs = TRUE /\ r.segs \in Seq(Clean) /\ r = Path(TRUE, r.segs) /\ Host(r.segs) = r
  BY <1>1, <1>2, HostFix
<1>4. normalize_path(Path(TRUE, r.segs)) = r.segs
  <2>1. Clean \cap Dots = {}
    BY DEF Clean
  <2>2. QED BY <1>3, <2>1, NormalSame
<1>5. ASSUME NEW e PROVE resolve(e, r) = r
  <2>1. r # EmptyPath
    BY <1>3, PathRecord
  <2>2. resolve(e, r) = Host(normalize_path(Path(TRUE, r.segs)))
    BY <1>3, <2>1 DEF resolve, Host, InRootfs
  <2>3. QED BY <1>3, <1>4, <2>2
<1>6. QED BY <1>1, <1>2, <1>3, <1>5 DEF Resolved

(* It is inside the rootfs or the shared folder, unless a name only begins *)
(* with that of the rootfs.                                                *)
LEMMA ResolvedInside ==
    ASSUME Placed, Supplied(Names), NEW d \in Seq(Names), NEW p \in PathIn(Names), p # EmptyPath
    PROVE  Inside(resolve(d, p).segs)
<1>0. Rootfs.abs = TRUE
  BY Places, PathRecord DEF Placed
<1>1. PICK n \in Seq(Names \ Dots) : resolve(d, p) = Host(n)
  BY Resolves
<1>2. n \in Seq(Names) /\ Len(n) \in Nat
  BY SeqMonotonic, LenProperties
<1>3. Rootfs.segs \in Seq(Names) /\ Len(Rootfs.segs) \in Nat
  BY LenProperties DEF Supplied
<1>4. IsPrefix(Download, Download)
  BY Places DEF IsPrefix
<1>5. ASSUME BeginsWith(n, Rootfs.segs) PROVE IsPrefix(Rootfs.segs, n)
  <2>1. CASE Rootfs.segs = <<>>
    BY <1>2, <2>1, EmptySeq DEF IsPrefix
  <2>2. CASE Rootfs.segs # <<>>
    <3>1. /\ Len(n) >= Len(Rootfs.segs) /\ SubSeq(n, 1, Len(Rootfs.segs) - 1) = Front(Rootfs.segs)
          /\ \/ n[Len(Rootfs.segs)] = Last(Rootfs.segs)
             \/ <<n[Len(Rootfs.segs)], Last(Rootfs.segs)>> \in Extends
      BY <1>5, <2>2 DEF BeginsWith
    <3>2. Len(Rootfs.segs) \in 1 .. Len(n)
      BY <1>2, <1>3, <2>2, <3>1, EmptySeq
    <3>3. n[Len(Rootfs.segs)] \in Names
      BY <1>2, <3>2, ElementOfSeq
    <3>4. n[Len(Rootfs.segs)] = Last(Rootfs.segs)
      BY <2>2, <3>1, <3>3 DEF Names
    <3>5. \A i \in 1 .. Len(Rootfs.segs) - 1 : n[i] = Rootfs.segs[i]
      <4> TAKE i \in 1 .. Len(Rootfs.segs) - 1
      <4>1. SubSeq(n, 1, Len(Rootfs.segs) - 1)[i] = n[i]
        BY <1>2, <1>3, <3>2
      <4>2. Front(Rootfs.segs)[i] = Rootfs.segs[i]
        BY <1>3, <2>2, Appended
      <4>3. QED BY <3>1, <4>1, <4>2
    <3>6. \A i \in 1 .. Len(Rootfs.segs) : n[i] = Rootfs.segs[i]
      BY <1>3, <3>2, <3>4, <3>5 DEF Last
    <3>7. SubSeq(Rootfs.segs, 1, Len(Rootfs.segs)) = SubSeq(n, 1, Len(Rootfs.segs))
      BY <1>2, <1>3, <3>2, <3>6
    <3>8. QED BY <3>1, <3>7 DEF IsPrefix
  <2>3. QED BY <2>1, <2>2
<1>6. IsPrefix(Rootfs.segs, Rootfs.segs \o n)
  BY <1>2, <1>3, PrefixBegins
<1>7. \/ Host(n) = Path(TRUE, Download)
      \/ Host(n) = Path(TRUE, n) /\ BeginsWith(n, Rootfs.segs)
      \/ Host(n) = Path(TRUE, Rootfs.segs \o n)
  BY <1>0 DEF Host
<1>8. \A q : Path(TRUE, q).segs = q
  BY PathParts
<1>9. Host(n).segs \in {Download, Rootfs.segs \o n} \/ (Host(n).segs = n /\ BeginsWith(n, Rootfs.segs))
  BY <1>7, <1>8
<1>10. QED BY <1>1, <1>4, <1>5, <1>6, <1>9 DEF Inside

-----------------------------------------------------------------------------
(* The invariant.  Paths have the names of G, and directories no dots. *)
Pathnames(G) == /\ buf \in PathIn(G) /\ asked \in PathIn(G)
                /\ process_cwd \in Seq(G \ Dots) /\ kcwd \in Seq(Clean)

Numbers ==
    /\ phase \in {"user", "entry", "kernel", "exit"}
    /\ request \in Calls \cup {"none", "other"} /\ answer.call \in Calls \cup {"none", "other"}
    /\ nr \in Calls \cup {NoCall} /\ scno \in Calls \cup {NoCall}
    /\ first \in Options \cup {"buf", "other"}

(* The call under way is the one the guest made, unless it is cancelled,   *)
(* and the first argument is a path only where the call has one.           *)
BufCalls == {"chdir", "execve", "getcwd"}
Asked    == /\ nr = scno /\ (request = scno \/ (request = "other" /\ scno = "prctl"))
            /\ asked \in PathsOf[scno]
Under ==
    /\ phase = "entry" => /\ Asked /\ (first = "buf" <=> nr \in BufCalls)
                          /\ first \in RootOptions => request = scno
    /\ phase \in {"kernel", "exit"} =>
          \/ Asked /\ nr \notin {"mount", "identity"}
          \/ nr = NoCall /\ request \in {"getcwd", "mount", "identity", "prctl"}
                /\ scno \in {NoCall, request}
    /\ phase = "kernel" /\ nr = "prctl" => first \notin RootOptions
    /\ phase = "kernel" /\ first = "buf" => request \in BufCalls
    /\ phase = "exit" /\ first = "buf" => Arch = "x86_64" /\ request \in BufCalls
    /\ phase = "exit" /\ nr = "prctl" /\ Arch = "x86_64" => first \notin RootOptions
    /\ phase = "exit" => answer.call = request /\ answer.path = asked

Base(G) == Pathnames(G) /\ Numbers /\ Under

(* A path the dispatcher has gone over is resolved. *)
Gone == phase \in {"kernel", "exit"}
Settled ==
    /\ asked.abs => buf.abs
    /\ Gone /\ nr \in AtCalls /\ buf.abs => Resolved(buf)
    /\ Gone /\ nr \in {"execve", "chdir"} => buf = EmptyPath \/ Resolved(buf)

(* And it is inside. *)
Kept ==
    /\ Gone /\ nr \in AtCalls /\ buf.abs => Inside(buf.segs)
    /\ Gone /\ nr \in {"execve", "chdir"} => buf = EmptyPath \/ Inside(buf.segs)

(* The guest changes its directory by absolute paths only.  The table then *)
(* denotes the path that is in the buffer, and the kernel goes there.      *)
ChdirAbsolute == "chdir" \in Calls => \A p \in PathsOf["chdir"] : p.abs
There(d) == resolve(process_cwd, Path(TRUE, process_cwd)) = d
Moved ==
    /\ Gone /\ nr = "chdir" => There(buf)
    /\ phase = "exit" /\ nr = "chdir" /\ answer.value = Ok => buf.abs /\ HostPath(buf) = kcwd

-----------------------------------------------------------------------------
(* The calls without a handler, and those whose handlers do nothing. *)
Rest == Unrewritten \cup {NoCall, "other", "ioctl", "close"}

(* What dispatch does, by the number it sees. *)
LEMMA Handlers ==
    ASSUME dispatch
    PROVE  /\ nr \in AtCalls => /\ UNCHANGED <<nr, scno, first, result, process_cwd>>
                                /\ buf' = IF buf.abs THEN resolve(process_cwd, buf) ELSE buf
           /\ nr \in {"execve", "execveat"} =>
                 /\ UNCHANGED <<nr, scno, first, result, process_cwd>>
                 /\ buf' = IF FirstString # EmptyPath THEN resolve(process_cwd, FirstString) ELSE buf
           /\ nr = "chdir" =>
                 /\ UNCHANGED <<nr, scno, first, result>>
                 /\ process_cwd' = IF FirstString # EmptyPath THEN normalize_path(FirstString)
                                   ELSE process_cwd
                 /\ buf' = IF FirstString # EmptyPath THEN resolve(process_cwd', FirstString) ELSE buf
           /\ nr = "getcwd" =>
                 /\ UNCHANGED process_cwd
                 /\ \/ first = "buf" /\ buf' = Path(TRUE, process_cwd) /\ cancel_syscall(Ok)
                    \/ UNCHANGED <<nr, scno, first, result, buf>>
           /\ nr \in {"mount", "identity"} => UNCHANGED <<buf, process_cwd>> /\ cancel_syscall(Ok)
           /\ nr = "prctl" =>
                 /\ UNCHANGED <<buf, process_cwd>>
                 /\ first \in RootOptions => cancel_syscall(Ok)
                 /\ first \notin RootOptions => UNCHANGED <<nr, scno, first, result>>
           /\ nr \in Rest =>
                 UNCHANGED <<nr, scno, first, result, buf, process_cwd>>
           /\ nr \in AtCalls \cup Rest
                    \cup {"execve", "execveat", "chdir", "getcwd", "mount", "identity", "prctl"}
<1> USE DEF AtCalls, NoCall, Rest, Unrewritten, regs, Rewrite
<1>1. CASE handle_openat
  BY <1>1 DEF handle_openat, RewriteAbsolute
<1>2. CASE handle_at
  BY <1>2 DEF handle_at, RewriteAbsolute
<1>3. CASE handle_socket_connect
  BY <1>3 DEF handle_socket_connect, RewriteAbsolute
<1>4. CASE handle_descriptor
  BY <1>4 DEF handle_descriptor
<1>5. CASE handle_execve
  BY <1>5 DEF handle_execve
<1>6. CASE handle_chdir
  BY <1>6 DEF handle_chdir
<1>7. CASE handle_getcwd
  BY <1>7 DEF handle_getcwd
<1>8. CASE handle_mount
  BY <1>8 DEF handle_mount
<1>9. CASE handle_fake_identity
  BY <1>9 DEF handle_fake_identity
<1>10. CASE handle_prctl
  BY <1>10 DEF handle_prctl
<1>11. CASE unhandled
  BY <1>11 DEF unhandled
<1>12. QED
  BY <1>1, <1>2, <1>3, <1>4, <1>5, <1>6, <1>7, <1>8, <1>9, <1>10, <1>11 DEF dispatch

(* The paths stay paths. *)
LEMMA DispatchPaths ==
    ASSUME NEW G, Supplied(G), Pathnames(G), dispatch
    PROVE  /\ buf' \in PathIn(G) /\ process_cwd' \in Seq(G \ Dots)
           /\ Rootfs.abs /\ buf.abs => buf'.abs
<1>1. process_cwd \in Seq(G) /\ process_cwd \in Seq(G \ Dots) /\ buf \in PathIn(G)
  BY SeqMonotonic DEF Pathnames
<1>2. FirstString \in PathIn(G)
  BY <1>1, PathRecord DEF FirstString
<1>3. CASE nr \in AtCalls
  BY <1>1, <1>3, Handlers, ResolveType
<1>4. CASE nr \in {"execve", "execveat"}
  BY <1>1, <1>2, <1>4, Handlers, ResolveType
<1>5. CASE nr = "chdir"
  <2>1. CASE FirstString # EmptyPath
    <3>1. process_cwd' \in Seq(G \ Dots) /\ buf' = resolve(process_cwd', FirstString)
      BY <1>2, <1>5, <2>1, Handlers, NormalType
    <3>2. PICK d : d = process_cwd'
      OBVIOUS
    <3>3. d \in Seq(G)
      BY <3>1, <3>2, SeqMonotonic
    <3>4. resolve(d, FirstString) \in PathIn(G) /\ (Rootfs.abs => resolve(d, FirstString).abs)
      BY <1>2, <3>3, ResolveType
    <3>5. QED BY <3>1, <3>2, <3>4
  <2>2. CASE FirstString = EmptyPath
    BY <1>1, <1>5, <2>2, Handlers
  <2>3. QED BY <2>1, <2>2
<1>6. CASE nr = "getcwd"
  <2>1. Path(TRUE, process_cwd) \in PathIn(G) /\ Path(TRUE, process_cwd).abs
    BY <1>1, PathRecord, PathParts
  <2>2. QED BY <1>1, <1>6, <2>1, Handlers
<1>7. CASE nr \in Rest \cup {"mount", "identity", "prctl"}
  BY <1>1, <1>7, Handlers
<1>8. QED BY <1>3, <1>4, <1>5, <1>6, <1>7, Handlers

(* The guest makes a call. *)
LEMMA Issues ==
    ASSUME NEW G, Supplied(G), Base(G), Issue
    PROVE  Base(G)' /\ phase' = "entry" /\ ((asked.abs => buf.abs) => (asked'.abs => buf'.abs))
<1>1. PICK c \in Calls :
          /\ nr' = c /\ scno' = c
          /\ first' \in IF c = "prctl" THEN Options
                        ELSE IF c \in {"chdir", "execve", "getcwd"} THEN {"buf"} ELSE {"other"}
          /\ request' = IF first' \in Options \ RootOptions THEN "other" ELSE c
          /\ \/ asked' \in PathsOf[c] /\ buf' = asked'
             \/ asked \in PathsOf[c] /\ asked' = asked /\ buf' = buf
  BY DEF Issue
<1>2. phase' = "entry" /\ UNCHANGED <<process_cwd, kcwd, answer>>
  BY DEF Issue
<1>3. Options = {"4", "38", "1"} /\ RootOptions = {"4", "38"}
  BY DEF Options, RootOptions
<1>4. Pathnames(G)'
  <2>1. asked' \in PathIn(G) /\ buf' \in PathIn(G)
    BY <1>1 DEF Supplied, Base, Pathnames
  <2>2. QED BY <1>2, <2>1 DEF Base, Pathnames
<1>5. Numbers'
  BY <1>1, <1>2, <1>3 DEF Base, Numbers
<1>6. Asked' /\ (first' = "buf" <=> nr' \in BufCalls) /\ (first' \in RootOptions => request' = scno')
  BY <1>1, <1>3 DEF Asked, BufCalls
<1>7. Under'
  BY <1>2, <1>6 DEF Under
<1>8. QED BY <1>1, <1>2, <1>4, <1>5, <1>7 DEF Base

(* A call is cancelled at its entry, or goes on with its number. *)
LEMMA Entries ==
    ASSUME NEW G, Supplied(G), Base(G), EntryStop
    PROVE  Base(G)' /\ phase' = "kernel"
<1>1. /\ phase = "entry" /\ phase' = "kernel" /\ dispatch
      /\ UNCHANGED <<request, asked, kcwd, answer>>
  BY DEF EntryStop, asking
<1>2. /\ Asked /\ (first = "buf" <=> nr \in BufCalls)
      /\ first \in RootOptions => request = scno
  BY <1>1 DEF Base, Under
<1>3. Pathnames(G)'
  BY <1>1, DispatchPaths DEF Base, Pathnames
<1>4. \/ /\ UNCHANGED <<nr, scno, first, result>> /\ nr \notin {"mount", "identity"}
         /\ nr = "prctl" => first \notin RootOptions
      \/ cancel_syscall(Ok) /\ nr \in {"getcwd", "mount", "identity", "prctl"}
            /\ (nr = "prctl" => first \in RootOptions)
  <2>1. CASE nr \in AtCalls \cup Rest \cup {"execve", "execveat", "chdir"}
    BY <1>1, <2>1, Handlers DEF AtCalls, NoCall, Rest, Unrewritten
  <2>2. CASE nr \in {"getcwd", "mount", "identity", "prctl"}
    BY <1>1, <2>2, Handlers
  <2>3. QED BY <1>1, <2>1, <2>2, Handlers
<1>5. CASE /\ UNCHANGED <<nr, scno, first, result>> /\ nr \notin {"mount", "identity"}
           /\ nr = "prctl" => first \notin RootOptions
  <2>1. Numbers'
    BY <1>1, <1>5 DEF Base, Numbers
  <2>2. Asked'
    BY <1>1, <1>2, <1>5 DEF Asked
  <2>3. first' = "buf" => request' \in BufCalls
    BY <1>1, <1>2, <1>5 DEF Asked, BufCalls
  <2>4. Under'
    BY <1>1, <1>5, <2>2, <2>3 DEF Under
  <2>5. QED BY <1>1, <1>3, <2>1, <2>4 DEF Base
<1>6. CASE cancel_syscall(Ok) /\ nr \in {"getcwd", "mount", "identity", "prctl"}
               /\ (nr = "prctl" => first \in RootOptions)
  <2>1. nr' = NoCall /\ scno' \in {scno, NoCall} /\ first' \in {first, "other"}
    BY <1>6 DEF cancel_syscall
  <2>2. request = scno /\ scno = nr
    BY <1>2, <1>6 DEF Asked
  <2>3. Numbers'
    BY <1>1, <2>1 DEF Base, Numbers
  <2>4. first' = "buf" => request' \in BufCalls
    BY <1>1, <1>2, <2>1, <2>2
  <2>5. Under'
    BY <1>1, <1>6, <2>1, <2>2, <2>4 DEF Under, NoCall
  <2>6. QED BY <1>1, <1>3, <2>3, <2>5 DEF Base
<1>7. QED BY <1>4, <1>5, <1>6

(* What a path leads to is without dots. *)
LEMMA HostPathType ==
    ASSUME NEW G, Supplied(G), Pathnames(G)
    PROVE  HostPath(buf) \in Seq(Clean)
<1>1. buf.segs \in Seq(Strs) /\ kcwd \in Seq(Clean)
  <2>1. buf.segs \in Seq(G) /\ kcwd \in Seq(Clean)
    BY PathRecord DEF Pathnames
  <2>2. G \subseteq Strs
    BY DEF Supplied
  <2>3. QED BY <2>1, <2>2, SeqMonotonic
<1>2. PICK c \in Seq(Clean) : c = IF buf.abs THEN <<>> ELSE kcwd
  BY <1>1, EmptySeq
<1>3. \A h \in DOMAIN Links : LinkEnd(Links, h) \in Seq(Clean)
  BY LinkEnds
<1>4. Walk(Links, c, buf.segs) \in Seq(Clean)
  BY <1>1, <1>3, WalkType
<1>5. QED BY <1>2, <1>4 DEF HostPath

(* The kernel runs the call and leaves the first argument, or overwrites it. *)
LEMMA Executes ==
    ASSUME NEW G, Supplied(G), Base(G), Execute
    PROVE  /\ Base(G)' /\ phase' = "exit"
           /\ kcwd' = kcwd \/ (scno = "chdir" /\ result' = Ok /\ kcwd' = HostPath(buf))
<1>1. /\ phase = "kernel" /\ phase' = "exit" /\ KernelCall
      /\ UNCHANGED <<request, asked, nr, scno, buf, process_cwd>>
      /\ answer'.call = request /\ answer'.path = asked
  BY DEF Execute, asking
<1>2. /\ first' \in {first, "4", "other"}
      /\ Arch = "x86_64" /\ scno # "execve" => first' = first
      /\ Arch # "x86_64" => first' \in {"4", "other"}
  BY DEF Execute
<1>3. kcwd' = kcwd \/ (scno = "chdir" /\ result' = Ok /\ kcwd' = HostPath(buf))
  BY <1>1 DEF KernelCall, Outcome
<1>4. Pathnames(G)'
  <2>1. kcwd' \in Seq(Clean)
    BY <1>3, HostPathType DEF Base, Pathnames
  <2>2. QED BY <1>1, <2>1 DEF Base, Pathnames
<1>5. Numbers'
  <2>1. first' \in Options \cup {"buf", "other"}
    BY <1>2 DEF Base, Numbers, Options, RootOptions
  <2>2. QED BY <1>1, <2>1 DEF Base, Numbers
<1>6. \/ Asked /\ nr \notin {"mount", "identity"}
      \/ nr = NoCall /\ request \in {"getcwd", "mount", "identity", "prctl"}
            /\ scno \in {NoCall, request}
  BY <1>1 DEF Base, Under
<1>7. (Asked <=> Asked')
  BY <1>1 DEF Asked
<1>8. first' = "buf" => Arch = "x86_64" /\ request \in BufCalls
  <2> SUFFICES ASSUME first' = "buf" PROVE Arch = "x86_64" /\ request \in BufCalls
    OBVIOUS
  <2>1. Arch = "x86_64" /\ first = "buf"
    BY <1>2
  <2>2. request \in BufCalls
    BY <1>1, <2>1 DEF Base, Under
  <2>3. QED BY <2>1, <2>2
<1>9. nr' = "prctl" /\ Arch = "x86_64" => first' \notin RootOptions
  <2> SUFFICES ASSUME nr = "prctl", Arch = "x86_64" PROVE first' \notin RootOptions
    BY <1>1
  <2>1. scno = "prctl"
    BY <1>6 DEF Asked, NoCall
  <2>2. QED BY <1>1, <1>2, <2>1 DEF Base, Under
<1>10. Under'
  BY <1>1, <1>6, <1>7, <1>8, <1>9 DEF Under
<1>11. QED BY <1>1, <1>3, <1>4, <1>5, <1>10 DEF Base

(* The second dispatch. *)
LEMMA Exits ==
    ASSUME NEW G, Supplied(G), Base(G), ExitStop
    PROVE  Base(G)' /\ phase' = "user"
<1>1. /\ phase = "exit" /\ phase' = "user" /\ dispatch
      /\ UNCHANGED <<request, asked, kcwd>> /\ answer'.call = answer.call
  BY DEF ExitStop, asking
<1>2. Pathnames(G)'
  BY <1>1, DispatchPaths DEF Base, Pathnames
<1>3. \/ UNCHANGED <<nr, scno, first, result>>
      \/ cancel_syscall(Ok)
  BY <1>1, Handlers
<1>4. nr' \in {nr, NoCall} /\ scno' \in {scno, NoCall} /\ first' \in {first, "other"}
  BY <1>3 DEF cancel_syscall
<1>5. Numbers'
  BY <1>1, <1>4 DEF Base, Numbers
<1>6. Under'
  BY <1>1 DEF Under
<1>7. QED BY <1>1, <1>2, <1>5, <1>6 DEF Base

(* The task starts in the engine's directory, with nothing of its own. *)
LEMMA Starts ==
    ASSUME NEW G, Supplied(G), Init
    PROVE  Base(G)
<1>1. /\ phase = "user" /\ request = "none" /\ asked = EmptyPath /\ nr = NoCall /\ scno = NoCall
      /\ first = "other" /\ buf = EmptyPath /\ process_cwd = <<>> /\ kcwd = HostCwd
      /\ answer.call = "none"
  BY DEF Init
<1>2. HostCwd \in Seq(Clean)
  <2>1. STRING \ {".", ".."} \subseteq Clean
    BY DEF Clean, Strs, Dots
  <2>2. QED BY <2>1, CwdAssumption, SeqMonotonic
<1>3. Pathnames(G)
  BY <1>1, <1>2, PathRecord, EmptySeq DEF Pathnames
<1>4. Numbers /\ Under
  BY <1>1 DEF Numbers, Under
<1>5. QED BY <1>3, <1>4 DEF Base

(* Whatever the guest calls, in whatever order. *)
LEMMA BaseStep ==
    ASSUME NEW G, Supplied(G), Base(G), [Next]_vars
    PROVE  Base(G)'
<1>1. CASE Issue
  BY <1>1, Issues
<1>2. CASE EntryStop
  BY <1>2, Entries
<1>3. CASE Execute
  BY <1>3, Executes
<1>4. CASE ExitStop
  BY <1>4, Exits
<1>5. CASE UNCHANGED vars
  <2>1. UNCHANGED <<phase, request, asked, nr, scno, first, buf, process_cwd, kcwd, answer>>
    BY <1>5 DEF vars, asking, regs
  <2>2. Pathnames(G)'
    BY <2>1 DEF Base, Pathnames
  <2>3. Numbers'
    BY <2>1 DEF Base, Numbers
  <2>4. Under'
    BY <2>1 DEF Base, Under, Asked
  <2>5. QED BY <2>2, <2>3, <2>4 DEF Base
<1>6. QED BY <1>1, <1>2, <1>3, <1>4, <1>5 DEF Next

(* The types of SyscallDispatch; neither directory ever has a "." or "..", *)
(* although handle_chdir takes what the guest wrote.                       *)
THEOREM DispatchTypes == Spec => []TypeOK
<1>1. Supplied(Strs)
  BY Places
<1>2. Base(Strs) => TypeOK
  <2> SUFFICES ASSUME Base(Strs) PROVE TypeOK
    OBVIOUS
  <2>1. \A q \in Seq(Clean) : {".", ".."} \cap ToSet(q) = {}
    <3> SUFFICES ASSUME NEW q \in Seq(Clean), NEW i \in DOMAIN q PROVE q[i] \notin {".", ".."}
      BY DEF ToSet
    <3>1. q[i] \in Clean
      BY ElementOfSeq, LenProperties
    <3>2. QED BY <3>1 DEF Clean, Dots
  <2>2. process_cwd \in Seq(Clean) /\ kcwd \in Seq(Clean)
    BY DEF Base, Pathnames, Clean
  <2>3. asked.abs \in BOOLEAN /\ buf.abs \in BOOLEAN
    BY PathRecord DEF Base, Pathnames
  <2>4. {".", ".."} \cap (ToSet(process_cwd) \cup ToSet(kcwd)) = {}
    BY <2>1, <2>2
  <2>5. QED BY <2>3, <2>4 DEF TypeOK, Base, Numbers
<1>3. Init => Base(Strs)
  BY <1>1, Starts
<1>4. Base(Strs) /\ [Next]_vars => Base(Strs)'
  BY <1>1, BaseStep
<1>5. QED BY <1>2, <1>3, <1>4, PTL DEF Spec

-----------------------------------------------------------------------------
(* While the kernel has the call, a path of it is what the guest asked for. *)
LEMMA PathCalls ==
    ASSUME Numbers, Under, Gone
    PROVE  /\ request \in AtCalls \cup {"execve", "chdir"} => Asked /\ nr = request /\ scno = request
           /\ nr \in AtCalls \cup {"execve", "chdir"} => Asked /\ nr = request /\ scno = request
           /\ scno \in AtCalls \cup {"execve", "chdir"} => Asked /\ nr = request /\ scno = request
<1>1. \/ Asked
      \/ nr = NoCall /\ request \in {"getcwd", "mount", "identity", "prctl"}
            /\ scno \in {NoCall, request}
  BY DEF Under, Gone
<1>2. QED BY <1>1 DEF Asked, AtCalls, NoCall

(* Where a resolved path leads, and where no path leads. *)
LEMMA Leads ==
    ASSUME NEW G, Supplied(G), Pathnames(G)
    PROVE  /\ Resolved(buf) => /\ HostPath(buf) = Walk(Links, <<>>, buf.segs)
                               /\ normalize_path(buf) = buf.segs
                               /\ Inside(buf.segs) => Inside(HostPath(buf))
           /\ buf = EmptyPath => HostPath(buf) = kcwd
<1>1. Clean \cap Dots = {}
  BY DEF Clean
<1>2. \A q \in Seq(Clean) : normalize_path(Path(TRUE, q)) = q
  BY <1>1, NormalSame
<1>3. Resolved(buf) => /\ HostPath(buf) = Walk(Links, <<>>, buf.segs)
                       /\ normalize_path(buf) = buf.segs
  BY <1>2 DEF Resolved, HostPath
<1>4. ASSUME Resolved(buf), Inside(buf.segs) PROVE Inside(HostPath(buf))
  <2>1. PICK q \in Seq(Clean) : q = buf.segs
    BY <1>4 DEF Resolved
  <2>2. \A h \in DOMAIN Links : h \in Seq(Clean) /\ LinkEnd(Links, h) \in Seq(Clean)
    BY LinkEnds
  <2>3. Walk(Links, <<>>, q) = q \/ Below(Links, Walk(Links, <<>>, q))
    BY <2>2, WalkThrough
  <2>4. QED BY <1>3, <1>4, <2>1, <2>3 DEF Below, Inside
<1>5. ASSUME buf = EmptyPath PROVE HostPath(buf) = kcwd
  <2>1. buf.abs = FALSE /\ buf.segs = <<>>
    BY <1>5, PathRecord
  <2>2. QED BY <2>1, WalkEmpty DEF HostPath
<1>6. QED BY <1>3, <1>4, <1>5

(* The entry resolves the path of a call that has one, from wherever.  It  *)
(* leaves the relative paths of the *at calls, and no path.                *)
LEMMA EntryPaths ==
    ASSUME NEW G, Supplied(G), Base(G), EntryStop,
           nr' \in AtCalls \cup {"execve", "chdir"}
    PROVE  /\ nr' = nr
           /\ \/ buf # EmptyPath /\ \E d \in Seq(G) : buf' = resolve(d, buf)
              \/ buf' = buf /\ (IF nr \in AtCalls THEN ~ buf.abs ELSE buf = EmptyPath)
<1>1. phase = "entry" /\ dispatch
  BY DEF EntryStop
<1>2. G \ Dots \subseteq G
  OBVIOUS
<1>3. process_cwd \in Seq(G) /\ process_cwd' \in Seq(G) /\ buf \in PathIn(G)
  BY <1>1, <1>2, DispatchPaths, SeqMonotonic DEF Base, Pathnames
<1>4. nr' = nr
  <2>1. nr \in {"mount", "identity", "prctl", "getcwd"} => nr' \in {nr, NoCall}
    BY <1>1, Handlers DEF cancel_syscall
  <2>2. nr \notin {"mount", "identity", "prctl", "getcwd"} => nr' = nr
    BY <1>1, Handlers
  <2>3. QED BY <2>1, <2>2 DEF AtCalls, NoCall
<1>5. CASE nr \in AtCalls
  <2>1. buf' = IF buf.abs THEN resolve(process_cwd, buf) ELSE buf
    BY <1>1, <1>5, Handlers
  <2>2. buf.abs => buf # EmptyPath
    BY PathRecord
  <2>3. QED BY <1>3, <1>4, <1>5, <2>1, <2>2
<1>6. CASE nr \in {"execve", "chdir"}
  <2>1. FirstString = buf
    BY <1>1, <1>6 DEF FirstString, Base, Under, BufCalls
  <2>2. nr \notin AtCalls
    BY <1>6 DEF AtCalls
  <2>3. CASE buf = EmptyPath
    BY <1>1, <1>4, <1>6, <2>1, <2>2, <2>3, Handlers
  <2>4. CASE buf # EmptyPath
    <3>1. nr = "execve" => buf' = resolve(process_cwd, buf)
      BY <1>1, <2>1, <2>4, Handlers
    <3>2. nr = "chdir" => buf' = resolve(process_cwd', buf)
      BY <1>1, <2>1, <2>4, Handlers
    <3>3. QED BY <1>3, <1>4, <1>6, <2>4, <3>1, <3>2
  <2>5. QED BY <2>3, <2>4
<1>7. QED BY <1>4, <1>5, <1>6

(* What goes to the kernel is resolved, and what is resolved stays. *)
LEMMA SettledStep ==
    ASSUME Placed, Base(Strs), Settled, [Next]_vars
    PROVE  Settled'
<1>0. Supplied(Strs) /\ Strs \ Dots \subseteq Strs
  BY Places
<1>1. CASE Issue
  <2>1. phase' = "entry" /\ (asked'.abs => buf'.abs)
    BY <1>0, <1>1, Issues DEF Settled
  <2>2. QED BY <2>1 DEF Settled, Gone
<1>2. CASE EntryStop
  <2>1. dispatch /\ UNCHANGED asked
    BY <1>2 DEF EntryStop, asking
  <2>2. buf \in PathIn(Strs)
    BY DEF Base, Pathnames
  <2>3. asked'.abs => buf'.abs
    BY <1>0, <2>1, DispatchPaths DEF Base, Settled, Placed
  <2>4. ASSUME nr' \in AtCalls \cup {"execve", "chdir"}
        PROVE  \/ Resolved(buf')
               \/ nr' \in AtCalls /\ ~ buf'.abs
               \/ nr' \notin AtCalls /\ buf' = EmptyPath
    <3>1. \A d \in Seq(Strs) : buf # EmptyPath => Resolved(resolve(d, buf))
      BY <2>2, ResolvedOnce
    <3>2. QED BY <1>0, <1>2, <2>4, <3>1, EntryPaths
  <2>5. QED BY <2>3, <2>4 DEF Settled, Resolved, AtCalls
<1>3. CASE Execute
  <2>1. UNCHANGED <<asked, buf, nr>> /\ Gone
    BY <1>3 DEF Execute, asking, Gone
  <2>2. QED BY <2>1 DEF Settled, Resolved
<1>4. CASE ExitStop
  <2>1. phase' = "user" /\ dispatch /\ UNCHANGED asked
    BY <1>4 DEF ExitStop, asking
  <2>2. asked'.abs => buf'.abs
    BY <1>0, <2>1, DispatchPaths DEF Base, Settled, Placed
  <2>3. QED BY <2>1, <2>2 DEF Settled, Gone
<1>5. CASE UNCHANGED vars
  <2>1. UNCHANGED <<phase, asked, buf, nr>>
    BY <1>5 DEF vars, asking, regs
  <2>2. QED BY <2>1 DEF Settled, Gone, Resolved
<1>6. QED BY <1>1, <1>2, <1>3, <1>4, <1>5 DEF Next

(* What goes to the kernel is inside. *)
LEMMA KeptStep ==
    ASSUME Placed, Supplied(Names), Base(Names), Kept, [Next]_vars
    PROVE  Kept'
<1>1. CASE Issue
  <2>1. phase' = "entry"
    BY <1>1 DEF Issue
  <2>2. QED BY <2>1 DEF Kept, Gone
<1>2. CASE EntryStop
  <2>1. ASSUME nr' \in AtCalls \cup {"execve", "chdir"}
        PROVE  \/ Inside(buf'.segs)
               \/ nr' \in AtCalls /\ ~ buf'.abs
               \/ nr' \notin AtCalls /\ buf' = EmptyPath
    <3>1. buf \in PathIn(Names)
      BY DEF Base, Pathnames
    <3>2. \A d \in Seq(Names) : buf # EmptyPath => Inside(resolve(d, buf).segs)
      BY <3>1, ResolvedInside
    <3>3. QED BY <1>2, <2>1, <3>2, EntryPaths
  <2>2. QED BY <2>1 DEF Kept, Inside, AtCalls
<1>3. CASE Execute
  <2>1. UNCHANGED <<buf, nr>> /\ Gone
    BY <1>3 DEF Execute, Gone
  <2>2. QED BY <2>1 DEF Kept, Inside
<1>4. CASE ExitStop
  <2>1. phase' = "user"
    BY <1>4 DEF ExitStop
  <2>2. QED BY <2>1 DEF Kept, Gone
<1>5. CASE UNCHANGED vars
  <2>1. UNCHANGED <<phase, buf, nr>>
    BY <1>5 DEF vars, regs
  <2>2. QED BY <2>1 DEF Kept, Gone, Inside
<1>6. QED BY <1>1, <1>2, <1>3, <1>4, <1>5 DEF Next

(* So the kernel goes nowhere else, and finds nothing elsewhere. *)
LEMMA ConfinedStep ==
    ASSUME Placed, Supplied(Names), Base(Names), Settled, Kept, Confined, [Next]_vars
    PROVE  Confined'
<1>0. Numbers /\ Under /\ Pathnames(Names)
  BY DEF Base
<1>1. CASE Issue
  <2>1. UNCHANGED <<kcwd, answer>>
    BY <1>1 DEF Issue
  <2>2. QED BY <2>1 DEF Confined, Inside
<1>2. CASE EntryStop
  <2>1. UNCHANGED <<kcwd, answer>>
    BY <1>2 DEF EntryStop
  <2>2. QED BY <2>1 DEF Confined, Inside
<1>3. CASE Execute
  <2>1. /\ phase = "kernel" /\ KernelCall /\ Gone
        /\ answer'.call = request /\ answer'.path = asked
        /\ request # "getcwd" => answer'.value = result'
    BY <1>3 DEF Execute, Gone
  <2>2. kcwd' = HostCwd \/ Inside(kcwd')
    <3>1. CASE kcwd' = kcwd
      BY <3>1 DEF Confined, Inside
    <3>2. CASE scno = "chdir" /\ kcwd' = HostPath(buf)
      <4>1. nr = "chdir"
        BY <1>0, <2>1, <3>2, PathCalls
      <4>2. buf = EmptyPath \/ (Resolved(buf) /\ Inside(buf.segs))
        BY <2>1, <4>1 DEF Settled, Kept
      <4>3. kcwd' = kcwd \/ Inside(kcwd')
        BY <1>0, <3>2, <4>2, Leads
      <4>4. QED BY <4>3 DEF Confined, Inside
    <3>3. QED BY <1>3, <3>1, <3>2, Executes
  <2>3. ASSUME request \in AtCalls \cup {"execve"}, asked.abs
        PROVE  answer'.value = Error \/ Inside(answer'.value)
    <3>1. nr = request /\ scno = request
      BY <1>0, <2>1, <2>3, PathCalls
    <3>2. answer'.value \in {HostPath(buf), Error}
      BY <2>1, <2>3, <3>1 DEF KernelCall, Outcome, AtCalls, NoCall
    <3>3. buf.abs /\ buf # EmptyPath
      BY <2>3, PathRecord DEF Settled
    <3>4. Resolved(buf) /\ Inside(buf.segs)
      BY <2>1, <2>3, <3>1, <3>3 DEF Settled, Kept
    <3>5. Inside(HostPath(buf))
      BY <1>0, <3>4, Leads
    <3>6. QED BY <3>2, <3>5
  <2>4. QED BY <2>1, <2>2, <2>3 DEF Confined, Inside
<1>4. CASE ExitStop
  <2>1. /\ phase = "exit" /\ dispatch /\ UNCHANGED kcwd /\ Gone
        /\ answer' = [answer EXCEPT !.value = IF @ = result THEN result' ELSE @]
    BY <1>4 DEF ExitStop, Gone
  <2>2. answer'.call = answer.call /\ answer'.path = answer.path /\ answer.call = request
    BY <1>0, <2>1 DEF Under
  <2>3. ASSUME answer.call \in AtCalls \cup {"execve"}
        PROVE  answer'.value = answer.value
    <3>1. nr = request
      BY <1>0, <2>1, <2>2, <2>3, PathCalls
    <3>2. result' = result
      BY <2>1, <2>2, <2>3, <3>1, Handlers
    <3>3. QED BY <2>1, <3>2
  <2>4. QED BY <2>1, <2>2, <2>3 DEF Confined, Inside
<1>5. CASE UNCHANGED vars
  <2>1. UNCHANGED <<kcwd, answer>>
    BY <1>5 DEF vars
  <2>2. QED BY <2>1 DEF Confined, Inside
<1>6. QED BY <1>1, <1>2, <1>3, <1>4, <1>5 DEF Next

(* No absolute path of a call with a handler takes a lookup, and no path a *)
(* chdir, out of the rootfs, the shared folder and what the links of the   *)
(* rootfs lead to, whatever these are: for a rootfs that is named as the   *)
(* kernel names it, and a guest without names that only begin with the     *)
(* name of the rootfs (PathResolver compares characters).                  *)
THEOREM PathsConfined ==
    ASSUME Placed, Supplied(Names)
    PROVE  Spec => []Confined
<1> DEFINE IInv == Base(Strs) /\ Base(Names) /\ Settled /\ Kept /\ Confined
<1>1. Supplied(Strs)
  BY Places
<1>2. Init => IInv
  <2> SUFFICES ASSUME Init PROVE IInv
    OBVIOUS
  <2>1. Base(Strs) /\ Base(Names)
    BY <1>1, Starts
  <2>2. /\ phase = "user" /\ asked = EmptyPath /\ buf = EmptyPath /\ kcwd = HostCwd
        /\ answer.call = "none"
    BY DEF Init
  <2>3. Settled /\ Kept /\ Confined
    BY <2>2, PathRecord DEF Settled, Kept, Confined, Gone, AtCalls
  <2>4. QED BY <2>1, <2>3
<1>3. IInv /\ [Next]_vars => IInv'
  BY <1>1, BaseStep, SettledStep, KeptStep, ConfinedStep
<1>4. IInv => Confined
  OBVIOUS
<1>5. QED BY <1>2, <1>3, <1>4, PTL DEF Spec

-----------------------------------------------------------------------------
(* The table's directory denotes the path that goes to the kernel, and the *)
(* dispatch at the exit, which sets the table from it again, does no harm. *)
LEMMA MovedStep ==
    ASSUME Placed, ChdirAbsolute, Base(Strs), Settled, Moved, ChdirAgrees, [Next]_vars
    PROVE  Moved' /\ ChdirAgrees'
<1>0. Numbers /\ Under /\ Pathnames(Strs) /\ Supplied(Strs)
  BY Places DEF Base
<1>1. CASE Issue
  <2>1. phase' = "entry"
    BY <1>1 DEF Issue
  <2>2. QED BY <2>1 DEF Moved, ChdirAgrees, Gone
<1>2. CASE EntryStop
  <2>1. phase = "entry" /\ phase' = "kernel" /\ dispatch
    BY <1>2 DEF EntryStop
  <2>2. ASSUME nr' = "chdir"
        PROVE  resolve(process_cwd', Path(TRUE, process_cwd')) = buf'
    <3>1. nr = "chdir"
      BY <1>0, <1>2, <2>2, EntryPaths DEF Base
    <3>2. buf.abs /\ buf # EmptyPath /\ first = "buf"
      BY <1>0, <2>1, <3>1, PathRecord DEF Under, Asked, BufCalls, ChdirAbsolute, Settled, Numbers, NoCall
    <3>3. FirstString = buf
      BY <3>2 DEF FirstString
    <3>4. PICK n : n = normalize_path(buf)
      OBVIOUS
    <3>5. n \in Seq(Clean)
      BY <1>0, <3>4, NormalType DEF Pathnames, Clean
    <3>6. process_cwd' = n /\ buf' = resolve(n, buf)
      BY <2>1, <3>1, <3>2, <3>3, <3>4, Handlers
    <3>7. buf = Path(TRUE, buf.segs)
      BY <1>0, <3>2, PathRecord DEF Pathnames
    <3>8. resolve(n, buf) = Host(n)
      BY <3>2, <3>4, <3>7 DEF resolve, Host, InRootfs
    <3>9. resolve(n, Path(TRUE, n)) = Host(n)
      <4>1. Path(TRUE, n) # EmptyPath /\ Path(TRUE, n).abs = TRUE /\ Path(TRUE, n).segs = n
        BY PathParts, PathRecord
      <4>2. Clean \cap Dots = {}
        BY DEF Clean
      <4>3. normalize_path(Path(TRUE, n)) = n
        BY <3>5, <4>2, NormalSame
      <4>4. QED BY <4>1, <4>3 DEF resolve, Host, InRootfs
    <3>10. QED BY <3>6, <3>8, <3>9
  <2>3. QED BY <2>1, <2>2 DEF Moved, There, ChdirAgrees
<1>3. CASE Execute
  <2>1. /\ phase = "kernel" /\ phase' = "exit" /\ KernelCall /\ Gone
        /\ UNCHANGED <<buf, nr, process_cwd>> /\ answer'.call = request
        /\ request # "getcwd" => answer'.value = result'
    BY <1>3 DEF Execute, Gone
  <2>2. nr = "chdir" => There(buf)
    BY <2>1 DEF Moved
  <2>3. ASSUME nr = "chdir", answer'.value = Ok PROVE buf.abs /\ HostPath(buf)' = kcwd'
    <3>1. scno = "chdir" /\ request = "chdir" /\ Asked
      BY <1>0, <2>1, <2>3, PathCalls
    <3>2. kcwd' = HostPath(buf)
      <4>1. result' = Ok
        BY <2>1, <2>3, <3>1
      <4>2. Outcome(Ok, HostPath(buf)) \/ Outcome(Error, kcwd)
        BY <2>1, <3>1 DEF KernelCall, AtCalls, Unrewritten, NoCall
      <4>3. QED BY <4>1, <4>2 DEF Outcome, Ok, Error
    <3>3. buf.abs /\ buf # EmptyPath
      BY <3>1, PathRecord DEF Asked, ChdirAbsolute, Settled, Numbers, NoCall, Base
    <3>4. HostPath(buf)' = HostPath(buf)
      BY <2>1, <3>3 DEF HostPath
    <3>5. QED BY <3>2, <3>3, <3>4
  <2>4. QED BY <2>1, <2>2, <2>3 DEF Moved, There, ChdirAgrees
<1>4. CASE ExitStop
  <2>1. /\ phase = "exit" /\ phase' = "user" /\ dispatch /\ UNCHANGED kcwd /\ Gone
        /\ answer' = [answer EXCEPT !.value = IF @ = result THEN result' ELSE @]
    BY <1>4 DEF ExitStop, Gone
  <2>2. answer'.call = answer.call /\ answer.call = request
    BY <1>0, <2>1 DEF Under
  <2>3. ASSUME answer'.call = "chdir", answer'.value = Ok
        PROVE  HostPath(resolve(process_cwd, Path(TRUE, process_cwd)))' = kcwd'
    <3>1. nr = "chdir" /\ request = "chdir"
      BY <1>0, <2>1, <2>2, <2>3, PathCalls
    <3>2. result' = result
      BY <2>1, <3>1, Handlers
    <3>3. answer.value = Ok
      BY <2>1, <2>3, <3>2
    <3>4. HostPath(buf) = kcwd /\ There(buf)
      BY <2>1, <3>1, <3>3 DEF Moved
    <3>8. ASSUME resolve(process_cwd', Path(TRUE, process_cwd')) = buf
          PROVE  HostPath(resolve(process_cwd, Path(TRUE, process_cwd)))' = kcwd'
      BY <2>1, <3>4, <3>8 DEF HostPath
    <3>5. CASE FirstString = EmptyPath
      <4>1. process_cwd' = process_cwd
        BY <2>1, <3>1, <3>5, Handlers
      <4>2. QED BY <3>4, <3>8, <4>1 DEF There
    <3>6. CASE FirstString # EmptyPath
      <4>1. FirstString = buf /\ buf # EmptyPath
        BY <3>6 DEF FirstString
      <4>2. Resolved(buf)
        BY <2>1, <3>1, <4>1 DEF Settled
      <4>3. process_cwd' = buf.segs
        BY <1>0, <2>1, <3>1, <4>1, <4>2, Handlers, Leads
      <4>4. \A d : resolve(d, Path(TRUE, buf.segs)) = buf
        BY <4>2 DEF Resolved
      <4>5. QED BY <3>8, <4>3, <4>4
    <3>7. QED BY <3>5, <3>6
  <2>4. QED BY <2>1, <2>3 DEF Moved, ChdirAgrees, Gone
<1>5. CASE UNCHANGED vars
  <2>1. UNCHANGED <<phase, nr, buf, process_cwd, kcwd, answer>>
    BY <1>5 DEF vars, regs
  <2>2. QED BY <2>1 DEF Moved, There, ChdirAgrees, Gone, HostPath
<1>6. QED BY <1>1, <1>2, <1>3, <1>4, <1>5 DEF Next

(* After a chdir that succeeded the table's directory is the kernel's, for *)
(* a guest that gives chdir absolute paths: handle_chdir normalises a      *)
(* relative one as if it were absolute.                                    *)
THEOREM DirectoryAgrees ==
    ASSUME Placed, ChdirAbsolute
    PROVE  Spec => []ChdirAgrees
<1> DEFINE IInv == Base(Strs) /\ Settled /\ Moved /\ ChdirAgrees
<1>1. Supplied(Strs)
  BY Places
<1>2. Init => IInv
  <2> SUFFICES ASSUME Init PROVE IInv
    OBVIOUS
  <2>1. Base(Strs)
    BY <1>1, Starts
  <2>2. /\ phase = "user" /\ asked = EmptyPath /\ buf = EmptyPath /\ answer.call = "none"
    BY DEF Init
  <2>3. Settled /\ Moved /\ ChdirAgrees
    BY <2>2, PathRecord DEF Settled, Moved, ChdirAgrees, Gone
  <2>4. QED BY <2>1, <2>3
<1>3. IInv /\ [Next]_vars => IInv'
  BY <1>1, BaseStep, SettledStep, MovedStep
<1>4. IInv => ChdirAgrees
  OBVIOUS
<1>5. QED BY <1>2, <1>3, <1>4, PTL DEF Spec

-----------------------------------------------------------------------------
(* The calls whose handler would run a second time with what it had at the *)
(* entry: a getcwd left to the kernel keeps its buffer's address on        *)
(* x86_64; on aarch64 the result of a prctl may look like an option.       *)
Harmless == IF Arch = "x86_64" THEN "getcwd" \notin Calls ELSE "prctl" \notin Calls

(* What the dispatch at the exit finds, it leaves. *)
LEMMA ExitLeaves ==
    ASSUME Harmless, Base(Strs), Settled, ExitStop
    PROVE  UNCHANGED <<buf, result>>
<1>0. Numbers /\ Under /\ Pathnames(Strs)
  BY DEF Base
<1>1. phase = "exit" /\ dispatch /\ Gone
  BY DEF ExitStop, Gone
<1>2. first = "buf" => Arch = "x86_64" /\ request \in {"chdir", "getcwd", "execve"}
  BY <1>0, <1>1 DEF Under, BufCalls
<1>3. CASE nr \in AtCalls
  <2>1. buf' = (IF buf.abs THEN resolve(process_cwd, buf) ELSE buf) /\ result' = result
    BY <1>1, <1>3, Handlers
  <2>2. buf.abs => resolve(process_cwd, buf) = buf
    BY <1>1, <1>3 DEF Settled, Resolved
  <2>3. QED BY <2>1, <2>2
<1>4. CASE nr \in {"execve", "execveat"}
  <2>1. CASE FirstString = EmptyPath
    BY <1>1, <1>4, <2>1, Handlers
  <2>2. CASE FirstString # EmptyPath
    <3>1. FirstString = buf /\ first = "buf"
      BY <2>2 DEF FirstString
    <3>2. nr = "execve"
      BY <1>0, <1>1, <1>2, <1>4, <3>1 DEF Under, Asked, NoCall
    <3>3. \A d : resolve(d, buf) = buf
      BY <1>1, <2>2, <3>1, <3>2 DEF Settled, Resolved
    <3>4. QED BY <1>1, <1>4, <2>2, <3>1, <3>3, Handlers
  <2>3. QED BY <2>1, <2>2
<1>5. CASE nr = "chdir"
  <2>1. CASE FirstString = EmptyPath
    BY <1>1, <1>5, <2>1, Handlers
  <2>2. CASE FirstString # EmptyPath
    <3>1. FirstString = buf /\ buf # EmptyPath
      BY <2>2 DEF FirstString
    <3>2. \A d : resolve(d, buf) = buf
      BY <1>1, <1>5, <3>1 DEF Settled, Resolved
    <3>3. QED BY <1>1, <1>5, <3>1, <3>2, Handlers
  <2>3. QED BY <2>1, <2>2
<1>6. CASE nr = "getcwd"
  <2>1. Arch # "x86_64"
    BY <1>0, <1>6 DEF Harmless, Numbers, NoCall
  <2>2. QED BY <1>1, <1>2, <1>6, <2>1, Handlers
<1>7. CASE nr \in {"mount", "identity"}
  BY <1>0, <1>1, <1>7 DEF Under, NoCall
<1>8. CASE nr = "prctl"
  <2>1. Arch = "x86_64"
    BY <1>0, <1>8 DEF Harmless, Numbers, NoCall
  <2>2. first \notin RootOptions
    BY <1>0, <1>1, <1>8, <2>1 DEF Under
  <2>3. QED BY <1>1, <1>8, <2>2, Handlers
<1>9. CASE nr \in Rest
  BY <1>1, <1>9, Handlers
<1>10. QED BY <1>1, <1>3, <1>4, <1>5, <1>6, <1>7, <1>8, <1>9, Handlers

(* The dispatch at the exit leaves the guest's memory and result as the    *)
(* kernel left them: a path is resolved to what resolves to itself, so the *)
(* handlers of an entry do nothing the second time.                        *)
THEOREM ExitsAreHarmless ==
    ASSUME Placed, Harmless
    PROVE  Spec => ExitHarmless
<1> DEFINE IInv == Base(Strs) /\ Settled
<1>1. Supplied(Strs)
  BY Places
<1>2. Init => IInv
  <2> SUFFICES ASSUME Init PROVE IInv
    OBVIOUS
  <2>1. Base(Strs)
    BY <1>1, Starts
  <2>2. phase = "user" /\ asked = EmptyPath /\ buf = EmptyPath
    BY DEF Init
  <2>3. Settled
    BY <2>2 DEF Settled, Gone
  <2>4. QED BY <2>1, <2>3
<1>3. IInv /\ [Next]_vars => IInv'
  BY <1>1, BaseStep, SettledStep
<1>4. IInv /\ [Next]_vars => [phase = "exit" => UNCHANGED <<buf, result>>]_vars
  <2> SUFFICES ASSUME IInv, Next, phase = "exit" PROVE UNCHANGED <<buf, result>>
    OBVIOUS
  <2>1. ExitStop
    BY DEF Next, Issue, EntryStop, Execute
  <2>2. QED BY <2>1, ExitLeaves
<1>5. QED BY <1>2, <1>3, <1>4, PTL DEF Spec, ExitHarmless

-----------------------------------------------------------------------------
(* The refinement.  VirtualKernel has its own copies of the operators of    *)
(* GuestPaths, and takes a name where resolve takes it.                     *)
LEMMA SameOperators ==
    /\ \A p : View!normalize_path(p) = normalize_path(p)
    /\ \A a, q : View!Path(a, q) = Path(a, q)
    /\ View!EmptyPath = EmptyPath /\ View!Download = Download
    /\ View!StorageDownload = StorageDownload
    /\ \A ls, c, t : View!Walk(ls, c, t) = Walk(ls, c, t)
<1>1. ASSUME NEW p PROVE View!normalize_path(p) = normalize_path(p)
  BY DEF View!normalize_path, normalize_path, View!NormalizeStep, NormalizeStep,
          View!Front, Front
<1>2. ASSUME NEW a, NEW q PROVE View!Path(a, q) = Path(a, q)
  BY DEF View!Path, Path
<1>3. ASSUME NEW ls, NEW h PROVE View!Follow(ls, h) = Follow(ls, h)
  <2>1. View!LinkEnd(ls, h) = LinkEnd(ls, h)
    BY <1>1, <1>2 DEF View!LinkEnd, LinkEnd, View!Front, Front
  <2>2. QED BY <2>1 DEF View!Follow, Follow
<1>4. ASSUME NEW q, NEW x PROVE View!NormalizeStep(q, x) = NormalizeStep(q, x)
  BY DEF View!NormalizeStep, NormalizeStep, View!Front, Front
<1>5. ASSUME NEW ls, NEW c, NEW t PROVE View!Walk(ls, c, t) = Walk(ls, c, t)
  BY <1>3, <1>4 DEF View!Walk, Walk
<1>6. QED BY <1>1, <1>2, <1>5 DEF View!EmptyPath, EmptyPath, View!Path, Path, View!Download,
                    Download, View!StorageDownload, StorageDownload

(* The shared folder's names, and names below neither it nor, once more,    *)
(* the rootfs.                                                              *)
Shared == {Download, StorageDownload}
InRoot(n) == ~ BeginsWith(n, Download) /\ ~ BeginsWith(n, StorageDownload) /\ ~ BeginsWith(n, Rootfs.segs)

(* The virtual kernel and the resolver have one name for each of these.     *)
LEMMA HostNames ==
    ASSUME Placed, NEW n \in Seq(Clean), Rootfs.segs # <<>>
    PROVE /\ InRoot(n) => View!HostOf(n) = Rootfs.segs \o n
          /\ InRoot(n) \/ n \in Shared => Host(n) = Path(TRUE, View!HostOf(n))
          /\ n \in Shared => View!HostOf(n) = Download
<1>0. Rootfs.abs = TRUE
  BY Places, PathRecord DEF Placed
<1>1. Download # <<>> /\ StorageDownload # <<>> /\ Download # StorageDownload
  BY Places DEF Download, StorageDownload
<1>2. ASSUME NEW d \in Shared, IsPrefix(d, n) PROVE BeginsWith(n, d)
  <2>1. Len(d) \in Nat /\ Len(d) >= 1 /\ d # <<>>
    BY <1>1, Places DEF Shared
  <2>2. Len(d) <= Len(n) /\ SubSeq(d, 1, Len(d)) = SubSeq(n, 1, Len(d))
    BY <1>2 DEF IsPrefix
  <2>3. \A i \in 1 .. Len(d) : d[i] = n[i]
    <3>1. Len(n) \in Nat
      BY LenProperties
    <3>2. \A i \in 1 .. Len(d) : SubSeq(d, 1, Len(d))[i] = d[i] /\ SubSeq(n, 1, Len(d))[i] = n[i]
      BY <2>1, <2>2, <3>1
    <3>3. QED BY <2>2, <3>2
  <2>4. QED BY <2>1, <2>2, <2>3 DEF BeginsWith, Front, Last
<1>3. IsPrefix(Download, Download) /\ IsPrefix(StorageDownload, StorageDownload)
  BY Places DEF IsPrefix
<1>4. ~ IsPrefix(Download, StorageDownload)
  <2>1. SubSeq(Download, 1, 2)[1] = "sdcard" /\ SubSeq(StorageDownload, 1, 2)[1] = "storage"
    BY DEF Download, StorageDownload
  <2>2. QED BY <2>1, Places DEF IsPrefix
<1>5. View!HostOf(n) = IF IsPrefix(Download, n) THEN n
                       ELSE IF IsPrefix(StorageDownload, n)
                       THEN Download \o SubSeq(n, Len(StorageDownload) + 1, Len(n))
                       ELSE Rootfs.segs \o n
  BY DEF View!HostOf, View!IsPrefix, IsPrefix, View!Download, Download,
         View!StorageDownload, StorageDownload
<1>6. CASE InRoot(n) /\ n \notin Shared
  <2>1. View!HostOf(n) = Rootfs.segs \o n
    <3>1. ~ IsPrefix(Download, n)
      BY <1>2, <1>6 DEF Shared, InRoot
    <3>2. ~ IsPrefix(StorageDownload, n)
      BY <1>2, <1>6 DEF Shared, InRoot
    <3>3. QED BY <1>5, <3>1, <3>2
  <2>2. Host(n) = Path(TRUE, Rootfs.segs \o n)
    BY <1>0, <1>6 DEF Host, InRoot
  <2>3. QED BY <1>6, <2>1, <2>2
<1>7. CASE n \in Shared
  <2>1. View!HostOf(n) = Download
    <3>1. CASE n = Download
      BY <1>3, <1>5, <3>1
    <3>2. CASE n = StorageDownload
      <4>1. View!HostOf(n) = Download \o SubSeq(n, Len(StorageDownload) + 1, Len(n))
        BY <1>3, <1>4, <1>5, <3>2
      <4>2. SubSeq(n, Len(StorageDownload) + 1, Len(n)) = <<>>
        <5>1. Len(StorageDownload) + 1 = 5 /\ Len(n) = 4
          BY <3>2, Places
        <5>2. SubSeq(n, 5, 4) = <<>>
          BY SubSeqEmpty
        <5>3. QED BY <5>1, <5>2
      <4>3. QED BY <4>1, <4>2, Places, ConcatEmptySeq
    <3>3. QED BY <1>7, <3>1, <3>2 DEF Shared
  <2>2. BeginsWith(n, n)
    <3>1. n # <<>> /\ Len(n) \in Nat
      BY <1>1, <1>7, LenProperties DEF Shared
    <3>2. QED BY <3>1 DEF BeginsWith, Front, Last
  <2>3. Host(n) = Path(TRUE, Download)
    BY <1>7, <2>2 DEF Host, Shared
  <2>4. ~ InRoot(n)
    BY <1>7, <2>2 DEF InRoot, Shared
  <2>5. QED BY <2>1, <2>3, <2>4
<1>8. CASE ~ InRoot(n) /\ n \notin Shared
  BY <1>8
<1>9. QED BY <1>6, <1>7, <1>8

-----------------------------------------------------------------------------
(* Its ".." never go above where it starts. *)
Climbs(s) == s = ".."
Descends(t) ==
    \A k \in 1 .. Len(t) :
        Climbs(t[k]) => normalize_path(Path(TRUE, SubSeq(t, 1, k - 1))) # <<>>

(* Appending to the second of two sequences. *)
LEMMA AppendSecond ==
    ASSUME NEW S, NEW c \in Seq(S), NEW n \in Seq(S), NEW s \in S
    PROVE  /\ Append(n, s) \in Seq(S) /\ c \o n \in Seq(S)
           /\ c \o Append(n, s) = Append(c \o n, s)
<1>0. <<s>> \in Seq(S)
  OBVIOUS
<1>1. PICK e \in Seq(S) : e = <<s>>
  BY <1>0
<1>2. c \o n \in Seq(S) /\ Append(n, s) \in Seq(S)
  BY ConcatProperties, AppendProperties
<1>3. Append(n, s) = n \o e /\ Append(c \o n, s) = (c \o n) \o e
  BY <1>1, <1>2, AppendIsConcat
<1>4. (c \o n) \o e = c \o (n \o e)
  BY ConcatAssociative
<1>5. QED BY <1>2, <1>3, <1>4

(* What Front leaves of it. *)
LEMMA FrontAppend ==
    ASSUME NEW S, NEW n \in Seq(S), NEW s \in S
    PROVE  Append(n, s) # <<>> /\ Front(Append(n, s)) = n
<1>1. PICK m \in Seq(S) : m = Append(n, s) /\ m # <<>>
  BY AppendProperties
<1>2. /\ Front(m) \in Seq(S) /\ Len(Front(m)) = Len(m) - 1
      /\ \A i \in 1 .. Len(m) - 1 : Front(m)[i] = m[i]
  BY <1>1, Appended
<1>3. Len(m) = Len(n) + 1 /\ Len(n) \in Nat /\ \A i \in 1 .. Len(n) : m[i] = n[i]
  BY <1>1, AppendProperties, LenProperties
<1>4. Front(m) = n
  BY <1>2, <1>3, SeqEqual
<1>5. QED BY <1>1, <1>4

(* A step of the walk that stays in the second of two sequences. *)
Joined(c, n) == c \o n
LEMMA StepSecond ==
    ASSUME NEW S, NEW c \in Seq(S), NEW n \in Seq(S), NEW s \in S, Climbs(s) => n # <<>>
    PROVE  NormalizeStep(Joined(c, n), s) = Joined(c, NormalizeStep(n, s))
<1> USE DEF Joined
<1>1. CASE s = "."
  BY <1>1 DEF NormalizeStep
<1>2. CASE s = ".."
  <2>1. PICK f \in Seq(S), l \in S : f = Front(n) /\ n = Append(f, l) /\ n # <<>>
    BY <1>2, Appended DEF Climbs
  <2>2. c \o n = Append(c \o f, l) /\ c \o f \in Seq(S)
    <3>1. c \o Append(f, l) = Append(c \o f, l) /\ c \o f \in Seq(S)
      BY AppendSecond
    <3>2. QED BY <2>1, <3>1
  <2>3. c \o n # <<>> /\ Front(c \o n) = c \o f
    BY <2>2, FrontAppend
  <2>4. NormalizeStep(n, s) = f
    BY <1>2, <2>1 DEF NormalizeStep
  <2>5. PICK m : m = c \o n
    OBVIOUS
  <2>6. NormalizeStep(m, s) = c \o f
    BY <1>2, <2>3, <2>5 DEF NormalizeStep
  <2>7. QED BY <2>4, <2>5, <2>6
<1>3. CASE s \notin {".", ".."}
  <2>1. PICK m : m = Append(n, s)
    OBVIOUS
  <2>2. c \o m = Append(c \o n, s)
    BY <2>1, AppendSecond
  <2>3. NormalizeStep(n, s) = m /\ NormalizeStep(c \o n, s) = Append(c \o n, s)
    BY <1>3, <2>1 DEF NormalizeStep
  <2>4. QED BY <2>2, <2>3
<1>4. QED BY <1>1, <1>2, <1>3

(* A path that descends is normalised where it is; shown for the shortest   *)
(* one that is not.                                                         *)
Composes(c, t) == normalize_path(Path(TRUE, c \o t)) = c \o normalize_path(Path(TRUE, t))
LEMMA NormalConcat ==
    ASSUME NEW S, NEW c \in Seq(S), S \cap Dots = {}, NEW U, S \subseteq U,
           NEW t \in Seq(U), Descends(t)
    PROVE  Composes(c, t)
<1> USE DEF Composes
<1> DEFINE N(q) == normalize_path(Path(TRUE, q))
           T == {q \in Seq(U) : Descends(q) /\ N(c \o q) # c \o N(q)}
<1>0. c \in Seq(U)
  BY SeqMonotonic
<1> SUFFICES ASSUME T # {} PROVE FALSE
  OBVIOUS
<1>1. <<>> \notin T
  <2>1. N(c) = c /\ N(<<>>) = <<>> /\ c \o <<>> = c
    BY NormalSame, NormalEmpty, ConcatEmptySeq
  <2>2. QED BY <2>1
<1>2. PICK a \in Seq(U), s \in U : Append(a, s) \in T /\ a \notin T
  <2>1. T \subseteq Seq(U)
    OBVIOUS
  <2> HIDE DEF T
  <2>2. QED BY <1>1, <2>1, Shortest
<1>3. PICK b \in Seq(U) : b = Append(a, s)
  BY AppendProperties
<1>4. /\ Len(a) \in Nat /\ Len(b) = Len(a) + 1 /\ b[Len(a) + 1] = s
      /\ \A i \in 1 .. Len(a) : b[i] = a[i]
  BY <1>3, AppendProperties, LenProperties
<1>5. \A m \in 0 .. Len(a) : SubSeq(b, 1, m) = SubSeq(a, 1, m)
  <2> TAKE m \in 0 .. Len(a)
  <2>1. \A i \in 1 .. m : b[i] = a[i]
    BY <1>4
  <2>2. QED BY <1>4, <2>1
<1>6. Descends(a)
  <2> SUFFICES ASSUME NEW k \in 1 .. Len(a), Climbs(a[k])
               PROVE  N(SubSeq(a, 1, k - 1)) # <<>>
    BY DEF Descends
  <2>1. k \in 1 .. Len(b) /\ Climbs(b[k]) /\ SubSeq(b, 1, k - 1) = SubSeq(a, 1, k - 1)
    BY <1>4, <1>5
  <2>2. QED BY <1>2, <1>3, <2>1 DEF Descends
<1>7. N(c \o a) = c \o N(a)
  BY <1>2, <1>6
<1>8. Climbs(s) => N(a) # <<>>
  <2> SUFFICES ASSUME Climbs(s) PROVE N(a) # <<>>
    OBVIOUS
  <2>1. PICK k \in 1 .. Len(b) : k - 1 = Len(a) /\ b[k] = s
    <3>1. Len(a) + 1 \in 1 .. Len(b) /\ Len(a) + 1 - 1 = Len(a)
      BY <1>4
    <3>2. QED BY <1>4, <3>1
  <2>2. SubSeq(b, 1, Len(a)) = a
    BY <1>4, <1>5, SubSeqFull
  <2>3. N(SubSeq(b, 1, k - 1)) # <<>>
    BY <1>2, <1>3, <2>1 DEF Descends
  <2>4. QED BY <2>1, <2>2, <2>3
<1>9. N(c \o b) = NormalizeStep(c \o N(a), s)
  <2>1. c \o b = Append(c \o a, s)
    BY <1>0, <1>3, AppendSecond
  <2>2. c \o a \in Seq(U)
    BY <1>0, ConcatProperties
  <2>3. N(Append(c \o a, s)) = NormalizeStep(N(c \o a), s)
    BY <2>2, NormalAppend
  <2>4. QED BY <1>7, <2>1, <2>3
<1>10. N(b) = NormalizeStep(N(a), s)
  BY <1>3, NormalAppend
<1>11. PICK n \in Seq(U) : n = N(a)
  <2>1. N(a) \in Seq(U \ Dots)
    BY NormalClean
  <2>2. QED BY <2>1, SeqMonotonic
<1>12. NormalizeStep(c \o n, s) = c \o NormalizeStep(n, s)
  <2>1. Climbs(s) => n # <<>>
    BY <1>8, <1>11
  <2> HIDE DEF T
  <2>2. NormalizeStep(Joined(c, n), s) = Joined(c, NormalizeStep(n, s))
    BY <1>0, <2>1, StepSecond
  <2>3. QED BY <2>2 DEF Joined
<1>13. QED BY <1>2, <1>3, <1>9, <1>10, <1>11, <1>12

-----------------------------------------------------------------------------
(* Where the guest can be: its root, and what it gives to chdir. *)
Homes == {<<>>} \cup {normalize_path(p) : p \in UNION {PathsOf[c] : c \in Calls \cap {"chdir"}}}

(* Where the guest's own kernel goes from x.  The segments t are straight   *)
(* if it goes there from m too, the name without dots that the resolver     *)
(* makes of them before any link is followed.                               *)
Goes(x, t) == Walk(GuestLinks, x, t)
Straight(x, t, m) == InRoot(m) /\ InRoot(Goes(x, t)) /\ Goes(x, t) = Goes(<<>>, m)

(* The links of the rootfs lead the host's kernel to where they lead one    *)
(* whose root the rootfs is: a text that is absolute does not.              *)
Kind == /\ \A h \in DOMAIN Links : \E g \in DOMAIN GuestLinks : g # <<>> /\ h = Rootfs.segs \o g
        /\ \A g \in DOMAIN GuestLinks :
              LinkEnd(Links, Rootfs.segs \o g) = Rootfs.segs \o LinkEnd(GuestLinks, g)

(* The guests the engine keeps its promise to; the README tells what        *)
(* becomes of the others.  No path is below the shared folder, spelled with *)
(* the rootfs in front or taken elsewhere by a link before a "..", and      *)
(* those of chdir are directories without a link on the way; only execve    *)
(* has relative paths, which do not go up from where they start; no call    *)
(* without a handler has a path, and none is cancelled on aarch64; the      *)
(* engine runs outside the rootfs.                                          *)
Promised ==
    /\ Kind
    /\ Calls \subseteq AtCalls \cup {"execve", "chdir", "mount", "identity", "prctl", "other"}
    /\ Arch = "x86_64" \/ Calls \cap {"mount", "identity", "prctl"} = {}
    /\ ~ IsPrefix(Rootfs.segs, HostCwd)
    /\ \A c \in Calls : \A p \in PathsOf[c] :
        /\ c \in AtCalls \cup {"chdir"} => p.abs
        /\ c = "chdir" => /\ Straight(<<>>, p.segs, normalize_path(p))
                          /\ Goes(<<>>, p.segs) = normalize_path(p)
                          /\ Rootfs.segs \o normalize_path(p) \in Dirs
        /\ c \in AtCalls \cup {"execve"} /\ p.abs =>
              \/ Straight(<<>>, p.segs, normalize_path(p))
              \/ normalize_path(p) \in Shared /\ Goes(<<>>, p.segs) = normalize_path(p)
        /\ c = "execve" /\ ~ p.abs =>
              /\ p # EmptyPath /\ Descends(p.segs)
              /\ \A x \in Homes : Straight(x, p.segs, x \o normalize_path(p))

(* The host's name of an absolute path. *)
HostName(p) == View!HostOf(normalize_path(p))

(* The rootfs is not the host's root, and the engine is not in it. *)
LEMMA Outside ==
    ASSUME Placed, Promised
    PROVE  /\ Rootfs.segs # <<>> /\ Rootfs.segs \in Seq(Clean)
           /\ \A x \in Seq(Clean) : Rootfs.segs \o x # HostCwd /\ Rootfs.segs \o x \in Seq(Clean)
<1>1. HostCwd \in Seq(Clean)
  <2>1. STRING \ {".", ".."} \subseteq Clean
    BY DEF Clean, Strs, Dots
  <2>2. QED BY <2>1, CwdAssumption, SeqMonotonic
<1>2. ASSUME NEW x \in Seq(Clean) PROVE IsPrefix(Rootfs.segs, Rootfs.segs \o x) /\ Rootfs.segs \o x \in Seq(Clean)
  BY PrefixBegins DEF Placed
<1>3. Rootfs.segs # <<>>
  <2>1. <<>> \o HostCwd = HostCwd
    BY <1>1, ConcatEmptySeq
  <2>2. QED BY <1>1, <1>2, <2>1 DEF Promised
<1>4. QED BY <1>2, <1>3 DEF Promised, Placed

(* The guest is in directories the kernel has names for. *)
LEMMA HomesType ==
    ASSUME Placed, Promised
    PROVE  /\ Homes \subseteq Seq(Clean) /\ <<>> \in Homes
           /\ \A c \in Calls : \A p \in PathsOf[c] :
                 p \in PathIn(Strs) /\ normalize_path(p) \in Seq(Clean)
           /\ "chdir" \in Calls => \A p \in PathsOf["chdir"] : normalize_path(p) \in Homes
<1>1. ASSUME NEW c \in Calls, NEW p \in PathsOf[c]
      PROVE  p \in PathIn(Strs) /\ normalize_path(p) \in Seq(Clean)
  <2>1. p \in PathIn(Strs)
    BY Places DEF Supplied
  <2>2. QED BY <2>1, NormalType DEF Clean
<1>2. QED BY <1>1, EmptySeq DEF Homes

(* A sequence without its first k elements. *)
LEMMA Dropped ==
    ASSUME NEW S, NEW m \in Seq(S), NEW k \in 0 .. Len(m), NEW q, q = SubSeq(m, k + 1, Len(m))
    PROVE  q \in Seq(S) /\ Len(q) = Len(m) - k /\ \A i \in 1 .. Len(q) : q[i] = m[k + i]
<1>1. q \in Seq(S) /\ Len(q) = Len(m) - k
  OBVIOUS
<1>2. \A i \in 1 .. Len(q) : q[i] = m[k + i]
  OBVIOUS
<1>3. QED BY <1>1, <1>2

(* What comes after the first of two sequences. *)
LEMMA Remainder ==
    ASSUME NEW S, NEW r \in Seq(S), NEW x \in Seq(S), NEW m, m = r \o x
    PROVE  SubSeq(m, Len(r) + 1, Len(m)) = x
<1>1. m \in Seq(S) /\ Len(m) = Len(r) + Len(x) /\ Len(r) \in Nat /\ Len(x) \in Nat
  BY ConcatProperties, LenProperties
<1>2. PICK k \in 0 .. Len(m) : k = Len(r)
  BY <1>1
<1>3. \A i \in 1 .. Len(x) : m[k + i] = x[i]
  <2> TAKE i \in 1 .. Len(x)
  <2>1. k + i \in 1 .. k + Len(x) /\ ~ (k + i <= k) /\ k + i - k = i
    BY <1>1, <1>2
  <2>2. QED BY <1>1, <1>2, <2>1, ConcatProperties
<1>4. PICK q : q = SubSeq(m, k + 1, Len(m))
  OBVIOUS
<1>5. q \in Seq(S) /\ Len(q) = Len(m) - k /\ \A i \in 1 .. Len(q) : q[i] = m[k + i]
  BY <1>1, <1>2, <1>4, Dropped
<1>6. Len(q) = Len(x)
  BY <1>1, <1>2, <1>5
<1>7. \A i \in 1 .. Len(x) : q[i] = x[i]
  BY <1>3, <1>5, <1>6
<1>8. q = x
  BY <1>5, <1>6, <1>7, SeqEqual
<1>9. QED BY <1>2, <1>4, <1>8

(* GuestNameOf takes the rootfs off again. *)
LEMMA GuestNames ==
    ASSUME Placed, Promised, NEW x \in Seq(Clean)
    PROVE  View!GuestNameOf(Rootfs.segs \o x) = x
<1>1. PICK m \in Seq(Clean) : m = Rootfs.segs \o x
  BY Outside
<1>2. Rootfs.segs \in Seq(Clean) /\ IsPrefix(Rootfs.segs, m)
  BY <1>1, PrefixBegins DEF Placed
<1>3. SubSeq(m, Len(Rootfs.segs) + 1, Len(m)) = x
  BY <1>1, <1>2, Remainder
<1>4. QED BY <1>1, <1>2, <1>3 DEF View!GuestNameOf, View!IsPrefix, IsPrefix

-----------------------------------------------------------------------------
(* The guest's links are those of the rootfs. *)
LEMMA GuestLinkEnds ==
    ASSUME Placed, Promised
    PROVE  /\ \A g \in DOMAIN GuestLinks : g \in Seq(Clean) /\ LinkEnd(GuestLinks, g) \in Seq(Clean)
           /\ \A c \in Seq(Clean) : c \in DOMAIN GuestLinks <=> Rootfs.segs \o c \in DOMAIN Links
<1>0. Rootfs.segs \in Seq(Clean)
  BY DEF Placed
<1>1. PICK Cut : Cut = [h \in DOMAIN Links |-> SubSeq(h, Len(Rootfs.segs) + 1, Len(h))]
  OBVIOUS
<1>2. \A g : g \in DOMAIN GuestLinks <=> \E h \in DOMAIN Links : g = Cut[h]
  BY <1>1 DEF GuestLinks
<1>3. ASSUME NEW h \in DOMAIN Links
      PROVE  Cut[h] \in Seq(Clean)
  <2>1. h \in Seq(Clean) /\ Len(h) \in Nat /\ Len(Rootfs.segs) \in Nat
    BY <1>0, LinkEnds, LenProperties
  <2>2. \A i \in Len(Rootfs.segs) + 1 .. Len(h) : h[i] \in Clean
    BY <2>1, ElementOfSeq
  <2>3. QED BY <1>1, <2>1, <2>2, SubSeqProperties
<1>4. ASSUME NEW h \in DOMAIN Links
      PROVE  h = Rootfs.segs \o Cut[h] /\ Cut[h] # <<>>
  <2>1. PICK g \in DOMAIN GuestLinks : g # <<>> /\ h = Rootfs.segs \o g
    BY DEF Promised, Kind
  <2>2. g \in Seq(Clean)
    BY <1>2, <1>3
  <2>3. SubSeq(h, Len(Rootfs.segs) + 1, Len(h)) = g
    BY <1>0, <2>1, <2>2, Remainder
  <2>4. QED BY <1>1, <2>1, <2>3
<1>5. ASSUME NEW g \in DOMAIN GuestLinks
      PROVE  g \in Seq(Clean) /\ Rootfs.segs \o g \in DOMAIN Links /\ LinkEnd(GuestLinks, g) \in Seq(Clean)
  <2>1. PICK h \in DOMAIN Links : g = Cut[h]
    BY <1>2
  <2>2. g \in Seq(Clean) /\ g # <<>> /\ h = Rootfs.segs \o g
    BY <1>3, <1>4, <2>1
  <2>3. GuestLinks[g] = Links[Rootfs.segs \o g]
    BY DEF GuestLinks
  <2>4. GuestLinks[g] \in PathIn(Strs)
    BY <2>2, <2>3, LinkEnds
  <2>5. LinkEnd(GuestLinks, g) \in Seq(Clean)
    BY <2>2, <2>4, LinkEndType
  <2>6. QED BY <2>2, <2>5
<1>6. ASSUME NEW c \in Seq(Clean), Rootfs.segs \o c \in DOMAIN Links PROVE c \in DOMAIN GuestLinks
  <2>1. PICK h \in DOMAIN Links : h = Rootfs.segs \o c
    BY <1>6
  <2>2. SubSeq(h, Len(Rootfs.segs) + 1, Len(h)) = c
    BY <1>0, <2>1, Remainder
  <2>3. QED BY <1>1, <1>2, <2>2
<1>7. QED BY <1>5, <1>6

(* A step by the links, inside the rootfs. *)
LEMMA FollowInside ==
    ASSUME Placed, Promised, NEW c \in Seq(Clean)
    PROVE  /\ Follow(GuestLinks, c) \in Seq(Clean)
           /\ Follow(Links, Rootfs.segs \o c) = Rootfs.segs \o Follow(GuestLinks, c)
<1>1. CASE c \in DOMAIN GuestLinks
  <2>1. Rootfs.segs \o c \in DOMAIN Links
    BY <1>1, GuestLinkEnds
  <2>2. LinkEnd(Links, Rootfs.segs \o c) = Rootfs.segs \o LinkEnd(GuestLinks, c)
    BY <1>1 DEF Promised, Kind
  <2>3. QED BY <1>1, <2>1, <2>2, GuestLinkEnds DEF Follow
<1>2. CASE c \notin DOMAIN GuestLinks
  <2>1. Rootfs.segs \o c \notin DOMAIN Links
    BY <1>2, GuestLinkEnds
  <2>2. QED BY <1>2, <2>1 DEF Follow
<1>3. QED BY <1>1, <1>2

(* No link is on the way to the rootfs or to the shared folder. *)
LEMMA NoLinkBefore ==
    ASSUME Placed, Promised
    PROVE  Walk(Links, <<>>, Rootfs.segs) = Rootfs.segs /\ Walk(Links, <<>>, Download) = Download
<1>0. /\ Rootfs.segs \in Seq(Clean) /\ Rootfs.segs # <<>> /\ Download \in Seq(Clean)
      /\ Rootfs.segs[1] \notin {"sdcard", "storage"} /\ Download[1] = "sdcard"
      /\ Len(Rootfs.segs) \in Nat /\ Len(Rootfs.segs) >= 1
  <2>1. Rootfs.segs \in Seq(Clean) /\ Rootfs.segs # <<>>
    BY Outside
  <2>2. Download[1] = "sdcard"
    BY DEF Download
  <2>3. Len(Rootfs.segs) \in Nat /\ Len(Rootfs.segs) >= 1
    BY <2>1, EmptySeq, LenProperties
  <2>4. QED BY <2>1, <2>2, <2>3, Places DEF Placed
<1>1. ASSUME NEW l \in DOMAIN Links
      PROVE  Len(l) > Len(Rootfs.segs) /\ l[1] = Rootfs.segs[1] /\ l \in Seq(Clean) /\ Len(l) \in Nat
  <2>1. PICK g \in DOMAIN GuestLinks : g # <<>> /\ l = Rootfs.segs \o g
    BY DEF Promised, Kind
  <2>2. g \in Seq(Clean) /\ Len(g) \in Nat /\ Len(g) >= 1
    BY <2>1, GuestLinkEnds, EmptySeq, LenProperties
  <2>3. Len(l) = Len(Rootfs.segs) + Len(g) /\ l[1] = Rootfs.segs[1]
    BY <1>0, <2>1, <2>2, ConcatProperties
  <2>4. QED BY <1>0, <2>2, <2>3, LinkEnds
<1>2. ~ Through(Links, Rootfs.segs)
  BY <1>0, <1>1 DEF Through, IsPrefix
<1>3. ~ Through(Links, Download)
  <2> SUFFICES ASSUME NEW l \in DOMAIN Links, IsPrefix(l, Download) PROVE FALSE
    BY DEF Through
  <2>1. Len(l) >= 1 /\ Len(l) <= Len(Download) /\ Len(Download) \in Nat
    BY <1>0, <1>1, LenProperties DEF IsPrefix
  <2>2. SubSeq(l, 1, Len(l)) = SubSeq(Download, 1, Len(l))
    BY DEF IsPrefix
  <2>3. SubSeq(l, 1, Len(l))[1] = l[1] /\ SubSeq(Download, 1, Len(l))[1] = Download[1]
    BY <1>0, <1>1, <2>1
  <2>4. QED BY <1>0, <1>1, <2>2, <2>3
<1>4. QED BY <1>0, <1>2, <1>3, LinkEnds, WalkThrough

(* Inside the rootfs the host's kernel goes where the guest's own would. *)
LEMMA WalkInside ==
    ASSUME Placed, Promised, NEW m \in Seq(Clean)
    PROVE  /\ Goes(<<>>, m) \in Seq(Clean)
           /\ Walk(Links, <<>>, Rootfs.segs \o m) = Rootfs.segs \o Goes(<<>>, m)
<1>0. <<>> \in Seq(Clean) /\ Seq(Clean) \subseteq Seq(Strs)
  BY EmptySeq, SeqMonotonic DEF Clean
<1>1. \A q \in Seq(Clean) : Goes(<<>>, q) \in Seq(Clean)
  BY <1>0, GuestLinkEnds, WalkType DEF Goes
<1>2. PICK r \in Seq(Clean) : r = Rootfs.segs
  BY Outside
<1> DEFINE T == {q \in Seq(Clean) : Walk(Links, <<>>, Joined(r, q)) # Joined(r, Goes(<<>>, q))}
<1>3. T = {}
  <2> SUFFICES ASSUME T # {} PROVE FALSE
    OBVIOUS
  <2>1. <<>> \notin T
    <3>1. Goes(<<>>, <<>>) = <<>>
      BY WalkEmpty DEF Goes
    <3>2. Joined(r, <<>>) = r
      BY ConcatEmptySeq DEF Joined
    <3>3. QED BY <1>2, <3>1, <3>2, NoLinkBefore
  <2>2. PICK a \in Seq(Clean), x \in Clean : Append(a, x) \in T /\ a \notin T
    <3>1. T \subseteq Seq(Clean)
      OBVIOUS
    <3> HIDE DEF T
    <3>2. QED BY <2>1, <3>1, Shortest
  <2>3. PICK w \in Seq(Clean) : w = Goes(<<>>, a)
    BY <1>1
  <2>4. PICK b \in Seq(Clean) : b = Joined(r, a)
    BY ConcatProperties DEF Joined
  <2>5. Joined(r, Append(a, x)) = Append(b, x)
    BY <2>4, AppendSecond DEF Joined
  <2>6. Walk(Links, <<>>, b) = Joined(r, w)
    BY <2>2, <2>3, <2>4
  <2>7. \A q \in Seq(Clean) : NormalizeStep(q, x) = Append(q, x)
    BY DEF NormalizeStep, Clean, Dots
  <2>8. PICK v \in Seq(Clean) : v = Append(w, x)
    BY AppendProperties
  <2>9. Goes(<<>>, Append(a, x)) = Follow(GuestLinks, v)
    <3>1. Walk(GuestLinks, <<>>, Append(a, x)) = Follow(GuestLinks, NormalizeStep(w, x))
      BY <2>3, WalkAppend DEF Goes
    <3>2. QED BY <2>7, <2>8, <3>1 DEF Goes
  <2>10. Walk(Links, <<>>, Append(b, x)) = Follow(Links, Joined(r, v))
    <3>1. Walk(Links, <<>>, Append(b, x)) = Follow(Links, NormalizeStep(Joined(r, w), x))
      BY <2>6, WalkAppend
    <3>2. Joined(r, w) \in Seq(Clean) /\ Append(Joined(r, w), x) = Joined(r, v)
      <4>1. /\ Joined(r, w) \in Seq(Clean)
            /\ Joined(r, Append(w, x)) = Append(Joined(r, w), x)
        BY AppendSecond DEF Joined
      <4>2. QED BY <2>8, <4>1
    <3>3. NormalizeStep(Joined(r, w), x) = Append(Joined(r, w), x)
      BY <2>7, <3>2
    <3>4. NormalizeStep(Joined(r, w), x) = Joined(r, v)
      BY <3>2, <3>3
    <3>5. QED BY <3>1, <3>4
  <2>11. Follow(Links, Joined(r, v)) = Joined(r, Follow(GuestLinks, v))
    BY <1>2, FollowInside DEF Joined
  <2>12. QED BY <2>2, <2>5, <2>9, <2>10, <2>11
<1>4. QED BY <1>1, <1>2, <1>3 DEF Joined

(* So what is straight leads both to the same file. *)
LEMMA Reached ==
    ASSUME Placed, Promised, NEW x \in Seq(Clean), NEW t, NEW m \in Seq(Clean), Straight(x, t, m)
    PROVE  /\ View!HostOf(m) = Rootfs.segs \o m /\ Host(m) = Path(TRUE, Rootfs.segs \o m)
           /\ Walk(Links, <<>>, Rootfs.segs \o m) = View!HostOf(Goes(x, t))
           /\ Goes(x, t) \in Seq(Clean) /\ View!HostOf(Goes(x, t)) = Rootfs.segs \o Goes(x, t)
<1>1. PICK g \in Seq(Clean) : g = Goes(x, t) /\ g = Goes(<<>>, m)
  BY WalkInside DEF Straight
<1>2. View!HostOf(g) = Rootfs.segs \o g
  BY <1>1, HostNames, Outside DEF Straight
<1>3. View!HostOf(m) = Rootfs.segs \o m /\ Host(m) = Path(TRUE, View!HostOf(m))
  BY HostNames, Outside DEF Straight
<1>4. Walk(Links, <<>>, Rootfs.segs \o m) = Rootfs.segs \o g
  BY <1>1, WalkInside
<1>5. QED BY <1>1, <1>2, <1>3, <1>4

(* An absolute path gets the name the virtual kernel has for it, were there *)
(* no links, and what it has been resolved to keeps it.                     *)
LEMMA AbsoluteServed ==
    ASSUME Placed, Promised, NEW p \in PathIn(Strs), p.abs,
           InRoot(normalize_path(p)) \/ normalize_path(p) \in Shared
    PROVE  /\ HostName(p) \in Seq(Clean) /\ normalize_path(Path(TRUE, HostName(p))) = HostName(p)
           /\ InRoot(normalize_path(p)) => HostName(p) = Rootfs.segs \o normalize_path(p)
           /\ \A d : resolve(d, p) = Path(TRUE, HostName(p))
           /\ \A d : resolve(d, Path(TRUE, HostName(p))) = Path(TRUE, HostName(p))
<1>1. p # EmptyPath /\ p = Path(TRUE, p.segs)
  BY PathRecord
<1>2. PICK n \in Seq(Clean) : n = normalize_path(p)
  BY NormalType DEF Clean
<1>3. Host(n) = Path(TRUE, HostName(p)) /\ (InRoot(n) => HostName(p) = Rootfs.segs \o n)
  BY <1>2, HostNames, Outside DEF HostName
<1>4. ASSUME NEW d PROVE resolve(d, p) = Path(TRUE, HostName(p))
  <2>1. resolve(d, p) = Host(n)
    BY <1>1, <1>2 DEF resolve, Host, InRootfs
  <2>2. QED BY <1>3, <2>1
<1>5. Resolved(Path(TRUE, HostName(p)))
  <2>1. <<>> \in Seq(Strs)
    BY EmptySeq
  <2>2. Resolved(resolve(<<>>, p))
    BY <1>1, <2>1, ResolvedOnce
  <2>3. QED BY <1>4, <2>2
<1>6. HostName(p) \in Seq(Clean)
  BY <1>5, PathParts DEF Resolved
<1>7. normalize_path(Path(TRUE, HostName(p))) = HostName(p)
  <2>1. Clean \cap Dots = {}
    BY DEF Clean
  <2>2. QED BY <1>6, <2>1, NormalSame
<1>8. QED BY <1>2, <1>3, <1>4, <1>5, <1>6, <1>7 DEF Resolved

(* The guest is in x: so the kernel has it, and so the table, which after   *)
(* the exit of a chdir may have the host's name.                            *)
Kernel(x) == kcwd = Rootfs.segs \o x \/ (kcwd = HostCwd /\ x = <<>>)
Table(x)  == process_cwd \in {x, Rootfs.segs \o x}

(* The virtual kernel's directory, as the host names it; what a path is     *)
(* there by its text alone.                                                 *)
Where == IF kcwd = HostCwd THEN Rootfs.segs ELSE kcwd
Lexical(p) == View!HostOf(normalize_path(
                  IF p.abs THEN p ELSE Path(TRUE, View!GuestNameOf(Where) \o p.segs)))

(* What the virtual kernel makes of a path, by its text and by the links.   *)
LEMMA Denoted ==
    ASSUME Placed, Promised, NEW x \in Seq(Clean), Kernel(x), NEW p
    PROVE  /\ p.abs => /\ Lexical(p) = HostName(p)
                       /\ View!Denotes(p) = View!HostOf(Goes(<<>>, p.segs))
           /\ ~ p.abs => /\ Lexical(p) = View!HostOf(normalize_path(Path(TRUE, x \o p.segs)))
                         /\ View!Denotes(p) = View!HostOf(Goes(x, p.segs))
<1>1. Where = Rootfs.segs \o x
  <2>1. CASE kcwd = HostCwd
    <3>1. x = <<>>
      BY <2>1, Outside DEF Kernel
    <3>2. Rootfs.segs \o <<>> = Rootfs.segs
      BY Outside, ConcatEmptySeq
    <3>3. QED BY <2>1, <3>1, <3>2 DEF Where
  <2>2. CASE kcwd # HostCwd
    BY <2>2 DEF Kernel, Where
  <2>3. QED BY <2>1, <2>2
<1>2. View!GuestNameOf(Where) = x
  BY <1>1, GuestNames
<1>3. Lexical(p) = View!HostOf(normalize_path(IF p.abs THEN p ELSE Path(TRUE, x \o p.segs)))
  BY <1>2 DEF Lexical
<1>4. View!Denotes(p) = View!HostOf(Goes(IF p.abs THEN <<>> ELSE x, p.segs))
  BY <1>2, SameOperators DEF View!Denotes, Where, Goes
<1>5. QED BY <1>3, <1>4 DEF HostName

(* Only the segments are normalised. *)
LEMMA NormalSegments ==
    ASSUME NEW p \in PathIn(Strs)
    PROVE  normalize_path(Path(TRUE, p.segs)) = normalize_path(p)
<1>0. p = Path(p.abs, p.segs) /\ p.segs \in Seq(Strs)
  BY PathRecord
<1>1. PICK q \in Seq(Strs), a \in {p.abs} : p = Path(a, q) /\ p.segs = q
  BY <1>0
<1>2. CASE q = <<>>
  BY <1>1, <1>2, NormalEmpty
<1>3. CASE q # <<>>
  <2>1. PICK f \in Seq(Strs), l \in Strs : q = Append(f, l)
    BY <1>3, Appended
  <2>2. /\ normalize_path(Path(TRUE, q)) = NormalizeStep(normalize_path(Path(TRUE, f)), l)
        /\ normalize_path(Path(a, q)) = NormalizeStep(normalize_path(Path(TRUE, f)), l)
    BY <2>1, NormalAppend
  <2>3. QED BY <1>1, <2>2
<1>4. QED BY <1>2, <1>3

(* The name of a relative path that descends is one below the directory.   *)
LEMMA RelativeName ==
    ASSUME Placed, Promised, NEW x \in Seq(Clean), Kernel(x),
           NEW p \in PathIn(Strs), ~ p.abs, Descends(p.segs), InRoot(x \o normalize_path(p))
    PROVE  /\ \A c \in Seq(Clean) :
                 normalize_path(Path(TRUE, c \o p.segs)) = c \o normalize_path(p)
           /\ Lexical(p) = Rootfs.segs \o (x \o normalize_path(p))
           /\ Host(x \o normalize_path(p)) = Path(TRUE, Lexical(p))
<1>0. Clean \cap Dots = {} /\ Clean \subseteq Strs /\ p.segs \in Seq(Strs)
  BY PathRecord DEF Clean
<1>1. PICK n \in Seq(Clean) : n = normalize_path(p)
  BY NormalType DEF Clean
<1>2. n = normalize_path(Path(TRUE, p.segs))
  BY <1>1, NormalSegments
<1>3. \A c \in Seq(Clean) : normalize_path(Path(TRUE, c \o p.segs)) = c \o n
  <2>1. PICK t \in Seq(Strs) : t = p.segs
    BY <1>0
  <2>2. Descends(t)
    BY <2>1
  <2>3. \A c \in Seq(Clean) : Composes(c, t)
    BY <1>0, <2>1, <2>2, NormalConcat
  <2>4. QED BY <1>2, <2>1, <2>3 DEF Composes
<1>4. PICK m \in Seq(Clean) : m = x \o n
  BY ConcatProperties
<1>5. InRoot(m)
  BY <1>1, <1>4
<1>6. View!HostOf(m) = Rootfs.segs \o m /\ Host(m) = Path(TRUE, View!HostOf(m))
  BY <1>5, HostNames, Outside
<1>7. Lexical(p) = View!HostOf(m)
  BY <1>3, <1>4, Denoted
<1>8. QED BY <1>1, <1>3, <1>4, <1>6, <1>7

(* It is what the path resolves to, from either name the table may have.    *)
LEMMA RelativeServed ==
    ASSUME Placed, Promised, NEW x \in Seq(Clean), Kernel(x), Table(x),
           NEW p \in PathIn(Strs), p # EmptyPath, ~ p.abs, Descends(p.segs),
           InRoot(x \o normalize_path(p))
    PROVE  resolve(process_cwd, p) = Path(TRUE, Lexical(p)) /\ Lexical(p) \in Seq(Clean)
<1>0. Rootfs.segs \in Seq(Clean)
  BY Outside
<1>1. PICK n \in Seq(Clean) : n = normalize_path(p)
  BY NormalType DEF Clean
<1>3. \A c \in Seq(Clean) : normalize_path(Path(TRUE, c \o p.segs)) = c \o n
  BY <1>1, RelativeName
<1>4. PICK m \in Seq(Clean) : m = x \o n
  BY ConcatProperties
<1>6. Host(m) = Path(TRUE, Rootfs.segs \o m)
  BY <1>1, <1>4, RelativeName
<1>7. Lexical(p) = Rootfs.segs \o m
  BY <1>1, <1>4, RelativeName
<1>8. resolve(process_cwd, p) = Host(normalize_path(Path(TRUE, process_cwd \o p.segs)))
  BY DEF resolve, Host, InRootfs
<1>9. Host(Rootfs.segs \o m) = Path(TRUE, Rootfs.segs \o m)
  <2>1. Host(Host(m).segs) = Host(m)
    BY HostFix
  <2>2. Host(m).segs = Rootfs.segs \o m
    BY <1>6, PathParts
  <2>3. QED BY <1>6, <2>1, <2>2
<1>10. resolve(process_cwd, p) = Path(TRUE, Rootfs.segs \o m)
  <2>1. CASE process_cwd = x
    BY <1>3, <1>4, <1>6, <1>8, <2>1
  <2>2. CASE process_cwd = Rootfs.segs \o x
    <3>1. Rootfs.segs \o x \in Seq(Clean)
      BY Outside
    <3>2. normalize_path(Path(TRUE, process_cwd \o p.segs)) = (Rootfs.segs \o x) \o n
      BY <1>3, <2>2, <3>1
    <3>3. (Rootfs.segs \o x) \o n = Rootfs.segs \o m
      <4>1. PICK r \in Seq(Clean) : r = Rootfs.segs
        BY <1>0
      <4>2. (r \o x) \o n = r \o (x \o n)
        BY ConcatAssociative
      <4>3. QED BY <1>4, <4>1, <4>2
    <3>4. QED BY <1>8, <1>9, <3>2, <3>3
  <2>3. QED BY <2>1, <2>2 DEF Table
<1>11. Rootfs.segs \o m \in Seq(Clean)
  BY Outside
<1>12. QED BY <1>7, <1>10, <1>11

-----------------------------------------------------------------------------
Lands   == AtCalls \cup {"chdir"}
Takes   == AtCalls \cup {"execve", "chdir"}
Written == Path(TRUE, HostName(asked))
Meant   == Lexical(asked)

(* The table and the kernel have the task in the same directory, but while *)
(* the kernel has the chdir that is to take it to another.                 *)
Located ==
    /\ \E x \in Homes : Kernel(x)
    /\ ~ (phase = "kernel" /\ nr = "chdir") => \E x \in Homes : Kernel(x) /\ Table(x)
    /\ phase = "kernel" /\ nr = "chdir" => Table(normalize_path(asked))
    /\ phase = "exit" /\ nr = "chdir" => Kernel(normalize_path(asked))

(* What is in the buffer, for what the guest wrote there. *)
Spelled ==
    /\ asked \in {EmptyPath} \cup UNION {PathsOf[c] : c \in Calls}
    /\ phase = "user" /\ request \in Lands => asked.abs /\ buf = Written
    /\ phase = "entry" /\ nr \in Takes => buf = asked \/ (asked.abs /\ buf = Written)
    /\ phase = "kernel" /\ nr \in Takes =>
          Meant \in Seq(Clean) /\ buf = Path(TRUE, Meant)
    /\ phase = "exit" /\ nr \in Lands => asked.abs /\ buf = Written

(* A call is cancelled for good, and only one that a root process may make. *)
Granted ==
    /\ phase = "entry" => nr \in Calls
    /\ phase = "entry" /\ nr = "prctl" => first \in Options /\ (first \in RootOptions \/ request = "other")
    /\ phase = "kernel" /\ nr = "prctl" => first # "other" /\ request = "other"
    /\ phase = "kernel" /\ nr = NoCall => scno = NoCall /\ result = Ok

Shaped == answer = [call |-> answer.call, path |-> answer.path, value |-> answer.value]

Serving == Located /\ Spelled /\ Granted /\ Shaped

(* What a promise says of one path. *)
LEMMA PromisedPath ==
    ASSUME Placed, Promised, NEW c \in Calls, NEW p \in PathsOf[c]
    PROVE  /\ p \in PathIn(Strs) /\ normalize_path(p) \in Seq(Clean)
           /\ c \in Lands => p.abs
           /\ c \in Takes /\ p.abs =>
                 \/ /\ Straight(<<>>, p.segs, normalize_path(p)) /\ InRoot(normalize_path(p))
                 \/ normalize_path(p) \in Shared /\ Goes(<<>>, p.segs) = normalize_path(p)
           /\ c = "chdir" => /\ InRoot(normalize_path(p)) /\ Rootfs.segs \o normalize_path(p) \in Dirs
                             /\ normalize_path(p) \in Homes
                             /\ Straight(<<>>, p.segs, normalize_path(p))
                             /\ Goes(<<>>, p.segs) = normalize_path(p)
           /\ c = "execve" /\ ~ p.abs => /\ p # EmptyPath /\ Descends(p.segs)
                                         /\ \A x \in Homes : /\ InRoot(x \o normalize_path(p))
                                                              /\ Straight(x, p.segs, x \o normalize_path(p))
<1>1. /\ p \in PathIn(Strs) /\ normalize_path(p) \in Seq(Clean)
      /\ "chdir" \in Calls => \A q \in PathsOf["chdir"] : normalize_path(q) \in Homes
  BY HomesType
<1>2. /\ c \in AtCalls \cup {"chdir"} => p.abs
      /\ c = "chdir" => /\ Straight(<<>>, p.segs, normalize_path(p))
                        /\ Goes(<<>>, p.segs) = normalize_path(p)
                        /\ Rootfs.segs \o normalize_path(p) \in Dirs
      /\ c \in AtCalls \cup {"execve"} /\ p.abs =>
            \/ Straight(<<>>, p.segs, normalize_path(p))
            \/ normalize_path(p) \in Shared /\ Goes(<<>>, p.segs) = normalize_path(p)
      /\ c = "execve" /\ ~ p.abs =>
            /\ p # EmptyPath /\ Descends(p.segs)
            /\ \A x \in Homes : Straight(x, p.segs, x \o normalize_path(p))
  BY DEF Promised
<1>3. \A x, t, m : Straight(x, t, m) => InRoot(m)
  BY DEF Straight
<1>4. QED BY <1>1, <1>2, <1>3 DEF Lands, Takes

(* The host's kernel arrives, by the links, where the virtual one does.     *)
LEMMA Arrives ==
    ASSUME Placed, Promised, NEW x \in Homes, Kernel(x),
           NEW c \in Calls, c \in Takes, NEW p \in PathsOf[c]
    PROVE  Walk(Links, <<>>, Lexical(p)) = View!Denotes(p)
<1>1. x \in Seq(Clean) /\ <<>> \in Seq(Clean) /\ p \in PathIn(Strs)
  BY HomesType, EmptySeq
<1>2. PICK n \in Seq(Clean) : n = normalize_path(p)
  BY PromisedPath
<1>3. CASE p.abs /\ Straight(<<>>, p.segs, n)
  <2>1. Walk(Links, <<>>, Rootfs.segs \o n) = View!HostOf(Goes(<<>>, p.segs))
        /\ View!HostOf(n) = Rootfs.segs \o n
    BY <1>1, <1>3, Reached
  <2>2. Lexical(p) = View!HostOf(n) /\ View!Denotes(p) = View!HostOf(Goes(<<>>, p.segs))
    BY <1>1, <1>2, <1>3, Denoted DEF HostName
  <2>3. QED BY <2>1, <2>2
<1>4. CASE p.abs /\ n \in Shared /\ Goes(<<>>, p.segs) = n
  <2>1. Lexical(p) = View!HostOf(n) /\ View!Denotes(p) = View!HostOf(n)
    BY <1>1, <1>2, <1>4, Denoted DEF HostName
  <2>2. View!HostOf(n) = Download
    BY <1>2, <1>4, HostNames, Outside
  <2>3. QED BY <2>1, <2>2, NoLinkBefore
<1>5. CASE ~ p.abs
  <2>1. c = "execve"
    BY <1>5, PromisedPath DEF Lands, Takes
  <2>2. /\ p # EmptyPath /\ Descends(p.segs) /\ InRoot(x \o n)
        /\ Straight(x, p.segs, x \o n)
    BY <1>2, <1>5, <2>1, PromisedPath
  <2>3. PICK m \in Seq(Clean) : m = x \o n
    BY <1>1, ConcatProperties
  <2>4. Lexical(p) = Rootfs.segs \o m
    BY <1>1, <1>2, <1>5, <2>2, <2>3, RelativeName
  <2>5. Walk(Links, <<>>, Rootfs.segs \o m) = View!HostOf(Goes(x, p.segs))
    BY <1>1, <2>2, <2>3, Reached
  <2>6. View!Denotes(p) = View!HostOf(Goes(x, p.segs))
    BY <1>1, <1>5, Denoted
  <2>7. QED BY <2>4, <2>5, <2>6
<1>6. QED BY <1>2, <1>3, <1>4, <1>5, PromisedPath

(* The guest calls from where it is, with a path it knows the buffer has. *)
LEMMA ServingIssue ==
    ASSUME Placed, Promised, Base(Strs), Serving, Issue
    PROVE  Serving' /\ UNCHANGED <<kcwd, answer>>
<1>1. PICK c \in Calls :
          /\ nr' = c
          /\ first' \in IF c = "prctl" THEN Options
                        ELSE IF c \in {"chdir", "execve", "getcwd"} THEN {"buf"} ELSE {"other"}
          /\ request' = IF first' \in Options \ RootOptions THEN "other" ELSE c
          /\ \/ asked' \in PathsOf[c] /\ buf' = asked'
             \/ /\ asked \in PathsOf[c] /\ request \in AtCalls \cup {"chdir"}
                /\ asked' = asked /\ buf' = buf
  BY DEF Issue
<1>2. phase = "user" /\ phase' = "entry" /\ UNCHANGED <<process_cwd, kcwd, answer>>
  BY DEF Issue
<1>3. Located'
  <2>1. \E x \in Homes : Kernel(x) /\ Table(x)
    BY <1>2 DEF Serving, Located
  <2>2. QED BY <1>2, <2>1 DEF Located, Kernel, Table
<1>4. Spelled'
  <2>1. asked' \in {EmptyPath} \cup UNION {PathsOf[d] : d \in Calls}
    BY <1>1
  <2>2. buf' = asked' \/ (asked'.abs /\ buf' = Path(TRUE, HostName(asked')))
    BY <1>1, <1>2 DEF Serving, Spelled, Lands, Written
  <2>3. QED BY <1>2, <2>1, <2>2 DEF Spelled, Written
<1>5. Granted'
  BY <1>1, <1>2 DEF Granted, Gone
<1>6. Shaped'
  BY <1>2 DEF Serving, Shaped
<1>7. QED BY <1>2, <1>3, <1>4, <1>5, <1>6 DEF Serving

(* At the entry the path is replaced by what it denotes. *)
LEMMA ServingEntry ==
    ASSUME Placed, Promised, Base(Strs), Serving, EntryStop
    PROVE  Serving' /\ UNCHANGED <<kcwd, answer>>
<1>0. Numbers /\ Under /\ Pathnames(Strs) /\ Located /\ Spelled /\ Granted /\ Shaped
  BY DEF Base, Serving
<1>1. /\ phase = "entry" /\ phase' = "kernel" /\ dispatch
      /\ UNCHANGED <<request, asked, kcwd, answer>>
  BY DEF EntryStop, asking
<1>2. /\ Asked /\ (first = "buf" <=> nr \in BufCalls)
      /\ first \in RootOptions => request = scno
  BY <1>0, <1>1 DEF Under
<1>3. nr \in Calls
  BY <1>0, <1>1 DEF Granted
<1>4. PICK x \in Homes : Kernel(x) /\ Table(x)
  BY <1>0, <1>1 DEF Located
<1>5. x \in Seq(Clean)
  BY HomesType
<1>6. Meant' = Meant
  BY <1>1 DEF Meant, Lexical, Where, View!GuestNameOf
<1>7. CASE nr \in Takes
  <2>1. nr \in Calls /\ asked \in PathsOf[nr] /\ asked \in PathIn(Strs)
    BY <1>2, <1>3, <1>7, HomesType DEF Asked, Takes, AtCalls, NoCall
  <2>2. nr' = nr /\ (nr # "chdir" => process_cwd' = process_cwd)
    BY <1>1, <1>7, Handlers DEF Takes
  <2>3. ASSUME asked.abs PROVE Located' /\ Spelled'
    <3>1. /\ HostName(asked) \in Seq(Clean) /\ normalize_path(Written) = HostName(asked)
          /\ InRoot(normalize_path(asked)) => HostName(asked) = Rootfs.segs \o normalize_path(asked)
          /\ \A d : resolve(d, asked) = Written /\ resolve(d, Written) = Written
      BY <1>7, <2>1, <2>3, PromisedPath, AbsoluteServed DEF Written
    <3>2. \A d : resolve(d, buf) = Written
      BY <1>0, <1>1, <1>7, <3>1 DEF Spelled
    <3>3. buf.abs /\ buf # EmptyPath
      <4>1. buf = asked \/ buf = Path(TRUE, HostName(asked))
        BY <1>0, <1>1, <1>7 DEF Spelled, Written
      <4>2. Path(TRUE, HostName(asked)).abs = TRUE /\ EmptyPath.abs = FALSE
        BY PathParts, PathRecord
      <4>3. QED BY <2>3, <4>1, <4>2
    <3>4. nr \in {"execve", "chdir"} => FirstString = buf
      BY <1>2 DEF FirstString, BufCalls
    <3>5. buf' = Written
      BY <1>1, <1>7, <3>2, <3>3, <3>4, Handlers DEF Takes
    <3>6. nr = "chdir" => process_cwd' \in {normalize_path(asked), HostName(asked)}
      BY <1>0, <1>1, <1>7, <3>1, <3>3, <3>4, Handlers DEF Spelled
    <3>7. nr = "chdir" => Table(normalize_path(asked))'
      BY <1>1, <2>1, <3>1, <3>6, PromisedPath DEF Table
    <3>8. Meant = HostName(asked)
      BY <1>4, <1>5, <2>3, Denoted DEF Meant
    <3>9. Located'
      BY <1>1, <1>4, <2>2, <3>7 DEF Located, Kernel, Table
    <3>10. Spelled'
      <4>1. Meant' \in Seq(Clean) /\ buf' = Path(TRUE, Meant')
        BY <1>6, <3>1, <3>5, <3>8 DEF Written
      <4>2. QED BY <1>0, <1>1, <4>1 DEF Spelled
    <3>11. QED BY <3>9, <3>10
  <2>4. ASSUME ~ asked.abs PROVE Located' /\ Spelled'
    <3>1. nr = "execve"
      BY <1>7, <2>1, <2>4, PromisedPath DEF Lands, Takes
    <3>2. /\ asked # EmptyPath /\ Descends(asked.segs) /\ InRoot(x \o normalize_path(asked))
      BY <2>1, <2>4, <3>1, PromisedPath
    <3>3. buf = asked /\ FirstString = buf
      BY <1>0, <1>1, <1>2, <1>7, <2>4, <3>1 DEF Spelled, FirstString, BufCalls
    <3>4. buf' = resolve(process_cwd, asked)
      BY <1>1, <3>1, <3>2, <3>3, Handlers
    <3>5. buf' = Path(TRUE, Meant) /\ Meant \in Seq(Clean)
      BY <1>4, <1>5, <2>1, <2>4, <3>2, <3>4, RelativeServed DEF Meant
    <3>6. Located'
      BY <1>1, <1>4, <2>2, <3>1 DEF Located, Kernel, Table
    <3>7. Spelled'
      <4>1. Meant' \in Seq(Clean) /\ buf' = Path(TRUE, Meant')
        BY <1>6, <3>5
      <4>2. QED BY <1>0, <1>1, <4>1 DEF Spelled
    <3>8. QED BY <3>6, <3>7
  <2>5. Granted'
    BY <1>1, <1>7, <2>2 DEF Granted, Gone, Takes, AtCalls, NoCall
  <2>6. QED BY <1>0, <1>1, <2>3, <2>4, <2>5 DEF Serving, Shaped
<1>8. CASE nr \notin Takes
  <2>1. nr \in {"mount", "identity", "prctl", "other", NoCall}
    BY <1>3, <1>8 DEF Promised, Takes
  <2>2. process_cwd' = process_cwd /\ nr' \in {nr, NoCall} /\ nr' \notin Takes
    BY <1>1, <1>8, <2>1, Handlers DEF cancel_syscall, Takes, AtCalls, NoCall
  <2>3. Located'
    BY <1>1, <1>4, <2>2 DEF Located, Kernel, Table, Takes
  <2>4. Spelled'
    BY <1>0, <1>1, <2>2 DEF Spelled
  <2>5. Granted'
    <3>1. CASE nr \in {"mount", "identity"} \/ (nr = "prctl" /\ first \in RootOptions)
      <4>1. cancel_syscall(Ok)
        BY <1>1, <3>1, Handlers
      <4>2. Arch = "x86_64"
        BY <1>3, <3>1 DEF Promised, NoCall
      <4>3. nr' = NoCall /\ scno' = NoCall /\ result' = Ok
        BY <4>1, <4>2 DEF cancel_syscall
      <4>4. QED BY <1>1, <4>3 DEF Granted, NoCall
    <3>2. CASE nr = "prctl" /\ first \notin RootOptions
      <4>1. UNCHANGED <<nr, first>> /\ request = "other" /\ first \in Options
        BY <1>0, <1>1, <3>2, Handlers DEF Granted
      <4>2. first # "other"
        BY <4>1 DEF Options, RootOptions
      <4>3. QED BY <1>1, <3>2, <4>1, <4>2 DEF Granted, NoCall
    <3>3. CASE nr = "other"
      BY <1>1, <3>3, Handlers DEF Granted, NoCall
    <3>4. nr # NoCall
      BY <1>3 DEF Promised, AtCalls, NoCall
    <3>5. QED BY <2>1, <3>1, <3>2, <3>3, <3>4
  <2>6. QED BY <1>0, <1>1, <2>3, <2>4, <2>5 DEF Serving, Shaped
<1>9. QED BY <1>1, <1>7, <1>8

(* The kernel does with the path what the virtual kernel does. *)
LEMMA ServingExecute ==
    ASSUME Placed, Promised, Base(Strs), Serving, Execute
    PROVE  Serving' /\ View!Next
<1>0. Numbers /\ Under /\ Pathnames(Strs) /\ Located /\ Spelled /\ Granted /\ Shaped /\ Supplied(Strs)
  BY Places DEF Base, Serving
<1>1. /\ phase = "kernel" /\ phase' = "exit" /\ Gone /\ KernelCall
      /\ UNCHANGED <<request, asked, nr, scno, buf, process_cwd>>
  BY DEF Execute, asking, Gone
<1>2. request # "getcwd"
  BY <1>0 DEF Numbers, Promised, AtCalls
<1>3. answer' = [call |-> request, path |-> asked, value |-> result']
  BY <1>2 DEF Execute
<1>4. Shaped'
  BY <1>3 DEF Shaped
<1>5. Granted'
  BY <1>1 DEF Granted
<1>6. asked \in {EmptyPath} \cup UNION {PathsOf[c] : c \in Calls}
  BY <1>0 DEF Spelled
<1>7. PICK x \in Homes : Kernel(x)
  BY <1>0 DEF Located
<1>8. x \in Seq(Clean)
  BY HomesType
<1>9. ASSUME kcwd' = kcwd, nr # "chdir" PROVE Located'
  <2>1. PICK y \in Homes : Kernel(y) /\ Table(y)
    BY <1>0, <1>9 DEF Located
  <2>2. QED BY <1>1, <1>9, <2>1 DEF Located, Kernel, Table
<1>10. ASSUME nr \notin Lands PROVE Spelled'
  BY <1>1, <1>6, <1>10 DEF Spelled
<1>11. CASE nr \in Takes
  <2>1. /\ request = nr /\ scno = nr /\ asked \in PathsOf[nr] /\ nr \in Calls
        /\ asked \in PathIn(Strs)
    <3>1. Asked /\ nr = request /\ scno = request
      BY <1>0, <1>1, <1>11, PathCalls DEF Takes
    <3>2. nr \in Calls
      BY <1>0, <1>11 DEF Numbers, Takes, AtCalls, NoCall
    <3>3. QED BY <3>1, <3>2, HomesType DEF Asked
  <2>2. Meant \in Seq(Clean) /\ buf = Path(TRUE, Meant)
    BY <1>0, <1>1, <1>11 DEF Spelled
  <2>3. HostPath(buf) = View!Denotes(asked)
    <3>1. HostPath(buf) = Walk(Links, <<>>, Meant)
      BY <2>2, PathParts DEF HostPath
    <3>2. Walk(Links, <<>>, Lexical(asked)) = View!Denotes(asked)
      BY <1>7, <1>11, <2>1, Arrives
    <3>3. QED BY <3>1, <3>2 DEF Meant
  <2>4. asked.abs => Meant = HostName(asked)
    BY <1>7, <1>8, Denoted DEF Meant
  <2>5. nr \in Lands => asked.abs /\ buf' = Path(TRUE, HostName(asked))
    BY <1>1, <2>1, <2>2, <2>4, PromisedPath
  <2>6. Spelled'
    BY <1>1, <1>6, <2>5 DEF Spelled, Written
  <2>7. CASE nr = "chdir"
    <3>0. PICK d : d = View!Denotes(asked)
      OBVIOUS
    <3>1. /\ d = Rootfs.segs \o normalize_path(asked) /\ d \in Dirs
          /\ normalize_path(asked) \in Homes /\ asked.abs
      <4>1. /\ asked.abs /\ normalize_path(asked) \in Homes /\ InRoot(normalize_path(asked))
            /\ Rootfs.segs \o normalize_path(asked) \in Dirs /\ normalize_path(asked) \in Seq(Clean)
            /\ Goes(<<>>, asked.segs) = normalize_path(asked)
        BY <2>1, <2>7, PromisedPath DEF Lands
      <4>2. View!HostOf(normalize_path(asked)) = Rootfs.segs \o normalize_path(asked)
        BY <4>1, HostNames, Outside
      <4>3. d = View!HostOf(normalize_path(asked))
        BY <1>7, <1>8, <3>0, <4>1, Denoted
      <4>4. QED BY <4>1, <4>2, <4>3
    <3>2. result' = Ok /\ kcwd' = d
      BY <1>1, <2>1, <2>3, <2>7, <3>0, <3>1 DEF KernelCall, Outcome, AtCalls, Unrewritten, NoCall
    <3>3. kcwd' # HostCwd
      <4>1. normalize_path(asked) \in Seq(Clean)
        BY <3>1, HomesType
      <4>2. QED BY <3>1, <3>2, <4>1, Outside
    <3>4. Kernel(normalize_path(asked))' /\ Table(normalize_path(asked))'
      BY <1>0, <1>1, <2>7, <3>1, <3>2 DEF Located, Kernel, Table
    <3>5. Located'
      BY <1>1, <3>1, <3>4 DEF Located
    <3>6. View!Chdir(asked)
      <4>1. Where' = d
        BY <3>2, <3>3 DEF Where
      <4>2. answer' = [call |-> "chdir", path |-> asked, value |-> Ok]
        BY <1>3, <2>1, <2>7, <3>2
      <4>3. QED BY <3>0, <3>1, <4>1, <4>2 DEF View!Chdir, View!Answer, View!Ok, Ok, Where
    <3>7. QED BY <1>0, <1>4, <1>5, <1>6, <2>6, <3>5, <3>6 DEF Serving, View!Next
  <2>8. CASE nr # "chdir"
    <3>1. nr \in AtCalls \cup {"execve"}
      BY <1>11, <2>8 DEF Takes
    <3>2. result' = View!Denotes(asked) \/ (nr = "execve" /\ result' = Error)
      BY <1>1, <2>1, <2>3, <3>1 DEF KernelCall, Outcome, AtCalls, NoCall
    <3>3. kcwd' = kcwd
      BY <1>1, <2>1, <3>1 DEF KernelCall, Outcome, AtCalls, NoCall
    <3>4. answer' = [call |-> nr, path |-> asked, value |-> result']
      BY <1>3, <2>1
    <3>5. View!LookUp(nr, asked)
      BY <3>2, <3>3, <3>4 DEF View!LookUp, View!Answer, View!Error, Error, Where
    <3>6. QED BY <1>4, <1>5, <1>6, <1>9, <2>6, <2>8, <3>1, <3>3, <3>5 DEF Serving, View!Next
  <2>9. QED BY <2>7, <2>8
<1>12. CASE nr \notin Takes
  <2>1. nr # "chdir" /\ nr \notin Lands /\ nr \notin AtCalls \cup {"execve"}
    BY <1>12 DEF Takes, Lands
  <2>2. \/ /\ request \in {"identity", "mount", "prctl"}
           /\ result' = Ok /\ kcwd' = kcwd
        \/ request = "other" /\ result' \in {Ok, Four} /\ kcwd' = kcwd
    <3>1. CASE nr = NoCall
      <4>1. scno = NoCall /\ result = Ok
        BY <1>0, <1>1, <3>1 DEF Granted
      <4>2. request \in {"identity", "mount", "prctl"}
        <5>1. NoCall \notin Calls
          BY DEF Promised, AtCalls, NoCall
        <5>2. QED BY <1>0, <1>1, <1>2, <3>1, <4>1, <5>1 DEF Under, Asked, Numbers, NoCall
      <4>3. QED BY <1>1, <4>1, <4>2 DEF KernelCall, Outcome, AtCalls, Unrewritten, NoCall
    <3>2. CASE nr # NoCall
      <4>1. Asked /\ nr \notin {"mount", "identity"}
        BY <1>0, <1>1, <3>2 DEF Under
      <4>2. nr = "prctl" \/ nr = "other"
        BY <1>0, <2>1, <3>2, <4>1 DEF Numbers, Promised
      <4>3. scno = nr /\ request = "other"
        BY <1>0, <1>1, <4>1, <4>2 DEF Asked, Granted
      <4>4. nr = "prctl" => first # "other"
        BY <1>0, <1>1 DEF Granted
      <4>5. QED BY <1>1, <4>2, <4>3, <4>4 DEF KernelCall, Outcome, AtCalls, Unrewritten, NoCall
    <3>3. QED BY <3>1, <3>2
  <2>3. View!Next
    <3>1. Where' = Where
      BY <2>2 DEF Where
    <3>2. CASE request \in {"identity", "mount", "prctl"} /\ result' = Ok
      <4>1. View!Grant(request, asked)
        BY <1>3, <3>1, <3>2 DEF View!Grant, View!Answer, View!Ok, Ok, Where
      <4>2. QED BY <1>6, <3>2, <4>1 DEF View!Next
    <3>3. CASE request = "other" /\ result' \in {Ok, Four}
      <4>1. View!HostAnswer(asked)
        BY <1>3, <3>1, <3>3 DEF View!HostAnswer, View!Answer, Where
      <4>2. QED BY <1>6, <4>1 DEF View!Next
    <3>4. QED BY <2>2, <3>2, <3>3
  <2>4. QED BY <1>4, <1>5, <1>9, <1>10, <2>1, <2>2, <2>3 DEF Serving
<1>13. QED BY <1>11, <1>12

(* The second dispatch may give the table the host's name of the directory. *)
LEMMA ServingExit ==
    ASSUME Placed, Promised, Base(Strs), Settled, Serving, ExitStop
    PROVE  Serving' /\ UNCHANGED <<kcwd, answer>>
<1>0. Numbers /\ Under /\ Pathnames(Strs) /\ Located /\ Spelled /\ Granted /\ Shaped /\ Supplied(Strs)
  BY Places DEF Base, Serving
<1>1. /\ phase = "exit" /\ phase' = "user" /\ dispatch /\ Gone
      /\ UNCHANGED <<request, asked, kcwd>>
      /\ answer' = [answer EXCEPT !.value = IF @ = result THEN result' ELSE @]
  BY DEF ExitStop, asking, Gone
<1>2. Harmless
  BY ArchAssumption DEF Harmless, Promised, AtCalls
<1>3. buf' = buf /\ result' = result
  BY <1>2, ExitLeaves
<1>4. answer' = answer
  <2>1. answer' = [answer EXCEPT !.value = answer.value]
    BY <1>1, <1>3
  <2>2. QED BY <1>0, <2>1 DEF Shaped
<1>5. Located'
  <2>1. PICK x \in Homes : Kernel(x) /\ Table(x)
    BY <1>0, <1>1 DEF Located
  <2>2. CASE process_cwd' = process_cwd
    BY <1>1, <2>1, <2>2 DEF Located, Kernel, Table
  <2>3. CASE process_cwd' # process_cwd
    <3>1. nr = "chdir" /\ FirstString # EmptyPath
      BY <1>1, <2>3, Handlers
    <3>2. FirstString = buf
      BY <3>1 DEF FirstString
    <3>3. asked.abs /\ buf = Written
      BY <1>0, <1>1, <3>1 DEF Spelled, Lands
    <3>4. Kernel(normalize_path(asked))
      BY <1>0, <1>1, <3>1 DEF Located
    <3>5. asked \in PathsOf["chdir"] /\ "chdir" \in Calls
      BY <1>0, <1>1, <3>1, PathCalls DEF Asked, Numbers, NoCall
    <3>6. /\ asked \in PathIn(Strs) /\ normalize_path(asked) \in Homes
          /\ InRoot(normalize_path(asked))
      BY <3>5, PromisedPath
    <3>7. normalize_path(Written) = Rootfs.segs \o normalize_path(asked)
      BY <3>3, <3>6, AbsoluteServed DEF Written
    <3>8. process_cwd' = Rootfs.segs \o normalize_path(asked)
      BY <1>1, <3>1, <3>2, <3>3, <3>7, Handlers
    <3>9. Kernel(normalize_path(asked))' /\ Table(normalize_path(asked))'
      BY <1>1, <3>4, <3>8 DEF Kernel, Table
    <3>10. QED BY <1>1, <3>6, <3>9 DEF Located
  <2>4. QED BY <2>2, <2>3
<1>6. Spelled'
  <2>1. request \in Lands => nr = request
    BY <1>0, <1>1, PathCalls DEF Lands
  <2>2. request \in Lands => asked'.abs /\ buf' = Path(TRUE, HostName(asked'))
    BY <1>0, <1>1, <1>3, <2>1 DEF Spelled, Written
  <2>3. asked' \in {EmptyPath} \cup UNION {PathsOf[c] : c \in Calls}
    BY <1>0, <1>1 DEF Spelled
  <2>4. QED BY <1>1, <2>2, <2>3 DEF Spelled, Written
<1>7. Granted' /\ Shaped'
  BY <1>0, <1>1, <1>4 DEF Granted, Shaped, Gone
<1>8. QED BY <1>1, <1>4, <1>5, <1>6, <1>7 DEF Serving

(* Every step is one of the virtual kernel, or none. *)
LEMMA ServingStep ==
    ASSUME Placed, Promised, Base(Strs), Settled, Serving, [Next]_vars
    PROVE  Serving' /\ [View!Next]_<<Where, answer>>
<1>1. ASSUME UNCHANGED <<kcwd, answer>> PROVE UNCHANGED <<Where, answer>>
  BY <1>1 DEF Where
<1>2. CASE Issue
  BY <1>1, <1>2, ServingIssue
<1>3. CASE EntryStop
  BY <1>1, <1>3, ServingEntry
<1>4. CASE Execute
  BY <1>4, ServingExecute
<1>5. CASE ExitStop
  BY <1>1, <1>5, ServingExit
<1>6. CASE UNCHANGED vars
  <2>1. /\ UNCHANGED <<phase, request, asked, nr, scno, first, buf, result>>
        /\ UNCHANGED <<process_cwd, kcwd, answer>>
    BY <1>6 DEF vars, asking, regs
  <2>2. Meant' = Meant
    BY <2>1 DEF Meant, Lexical, Where, View!GuestNameOf
  <2>3. Located'
    BY <2>1 DEF Serving, Located, Kernel, Table
  <2>4. Spelled'
    BY <2>1, <2>2 DEF Serving, Spelled, Written
  <2>5. Granted' /\ Shaped'
    BY <2>1 DEF Serving, Granted, Shaped, Gone
  <2>6. QED BY <1>1, <2>1, <2>3, <2>4, <2>5 DEF Serving
<1>7. QED BY <1>2, <1>3, <1>4, <1>5, <1>6 DEF Next

(* The guest is served as promised: every step of the rewriting at the     *)
(* entry, of the host's kernel and of the dispatch at the exit is a step   *)
(* of the virtual kernel, or leaves what the guest can see.                *)
THEOREM GuestServedAsPromised ==
    ASSUME Placed, Promised
    PROVE  Spec => ServedAsPromised
<1> DEFINE IInv == Base(Strs) /\ Settled /\ Serving
<1>1. Supplied(Strs)
  BY Places
<1>2. Init => IInv /\ View!Init
  <2> SUFFICES ASSUME Init PROVE IInv /\ View!Init
    OBVIOUS
  <2>1. Base(Strs)
    BY <1>1, Starts
  <2>2. /\ phase = "user" /\ request = "none" /\ asked = EmptyPath /\ buf = EmptyPath
        /\ process_cwd = <<>> /\ kcwd = HostCwd
        /\ answer = [call |-> "none", path |-> EmptyPath, value |-> Ok]
    BY DEF Init
  <2>3. Settled /\ Granted /\ Shaped
    BY <2>2, PathRecord DEF Settled, Granted, Shaped, Gone
  <2>4. <<>> \in Homes /\ Kernel(<<>>) /\ Table(<<>>)
    BY <2>2, HomesType DEF Kernel, Table
  <2>5. Located
    BY <2>2, <2>4 DEF Located
  <2>6. Spelled
    <3>1. EmptyPath \in {EmptyPath} \cup UNION {PathsOf[c] : c \in Calls}
      OBVIOUS
    <3>2. request \notin Lands
      BY <2>2 DEF Lands, AtCalls
    <3>3. QED BY <2>2, <3>1, <3>2 DEF Spelled
  <2>7. View!Init
    BY <2>2 DEF View!Init, View!EmptyPath, EmptyPath, View!Path, Path, View!Ok, Ok
  <2>8. QED BY <2>1, <2>3, <2>5, <2>6, <2>7 DEF Serving
<1>3. IInv /\ [Next]_vars => IInv' /\ [View!Next]_<<IF kcwd = HostCwd THEN Rootfs.segs ELSE kcwd, answer>>
  BY <1>1, BaseStep, SettledStep, ServingStep DEF Where
<1>4. QED BY <1>2, <1>3, PTL DEF Spec, ServedAsPromised, View!Spec
===============================================================================
