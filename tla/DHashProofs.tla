---------------------------- MODULE DHashProofs -----------------------------
(***************************************************************************)
(* DHash, for any number of threads, any blocks, any page hash and any     *)
(* red-zone size: type correctness and mutual exclusion; then what the     *)
(* lists of the hash table hold, and which mutexes the threads hold, as    *)
(* long as no allocation of a list node has failed.  The hypotheses of the *)
(* second part are those of MutexesExclude: they are what makes a list     *)
(* operation the atomic step DHash takes it for, and what keeps            *)
(* registerAddr's own unlocks from being refused.  At the end, of one      *)
(* thread, the paths after a failed allocation.                            *)
(***************************************************************************)
EXTENDS DHash, SequenceTheorems, FiniteSetTheorems, WellFoundedInduction, TLAPS

\* The list functions of the red-zone table, for every bucket, block and size --------------

\* A non-empty set of naturals has the minimum the list loops stop at: the
\* intervals 0..i are finite sets, and strict inclusion is well-founded.
LEMMA MinIsLeast ==
  ASSUME NEW I \in SUBSET Nat, I # {}
  PROVE  Min(I) \in I /\ \A j \in I : Min(I) <= j
<1> DEFINE T == {0 .. i : i \in I}
<1>1. T \subseteq FiniteSubsetsOf(Nat) /\ T # {}
  <2>1. \A i \in I : IsFiniteSet(0 .. i)
    BY FS_Interval
  <2>2. \A i \in I : 0 .. i \in FiniteSubsetsOf(Nat)
    <3>1. TAKE i \in I
    <3>2. 0 .. i \in SUBSET Nat
      BY <3>1
    <3>3. QED
      BY <2>1, <3>2, Zenon DEF FiniteSubsetsOf
  <2>3. QED
    BY <2>2
<1>2. PICK X \in T : \A Y \in T : ~(<<Y, X>> \in StrictSubsetOrdering(Nat))
  <2> HIDE DEF T
  <2>1. QED
    BY <1>1, FS_StrictSubsetOrderingWellFounded, WFMin
<1>3. PICK x \in I : X = 0 .. x
  BY <1>2
<1>4. \A y \in I : x <= y
  <2>1. SUFFICES ASSUME NEW y \in I, y < x PROVE FALSE
    OBVIOUS
  <2>2. 0 .. y \in T /\ 0 .. y \subseteq 0 .. x /\ 0 .. y # 0 .. x /\ 0 .. x \subseteq Nat
    BY <2>1
  <2>3. <<0 .. y, 0 .. x>> \in StrictSubsetOrdering(Nat)
    BY <2>2 DEF StrictSubsetOrdering
  <2>4. QED
    BY <1>2, <1>3, <2>2, <2>3
<1>5. QED
  BY <1>4 DEF Min

\* A loop over the list breaks at a position of the list, or nowhere.
LEMMA FirstOfType ==
  ASSUME NEW n \in Nat, NEW I \in SUBSET (1 .. n)
  PROVE  /\ FirstOf(I) \in 0 .. n
         /\ FirstOf(I) # 0 => FirstOf(I) \in I
<1>1. I \in SUBSET Nat
  OBVIOUS
<1>2. CASE I = {}
  BY <1>2 DEF FirstOf
<1>3. CASE I # {}
  <2>1. Min(I) \in I
    BY <1>1, <1>3, MinIsLeast
  <2>2. FirstOf(I) = Min(I)
    BY <1>3 DEF FirstOf
  <2>3. FirstOf(I) \in I
    BY <2>1, <2>2, Zenon
  <2>4. \A x \in I : x \in 1 .. n
    OBVIOUS
  <2>5. FirstOf(I) \in 1 .. n
    BY <2>3, <2>4, Zenon
  <2>6. 1 .. n \subseteq 0 .. n
    OBVIOUS
  <2>7. QED
    BY <2>3, <2>5, <2>6, Zenon
<1>4. QED
  BY <1>2, <1>3

\* Inserting an element keeps a list a list of the same elements.
LEMMA InsertAtType ==
  ASSUME NEW S, NEW s \in Seq(S), NEW i \in 1 .. Len(s), NEW e \in S
  PROVE  InsertAt(s, i, e) \in Seq(S)
<1>1. SubSeq(s, 1, i - 1) \in Seq(S) /\ SubSeq(s, i, Len(s)) \in Seq(S)
  BY SubSeqProperties, LenProperties, ElementOfSeq
<1>2. <<e>> \in Seq(S)
  OBVIOUS
<1>3. SubSeq(s, 1, i - 1) \o <<e>> \in Seq(S)
  BY <1>1, <1>2, ConcatProperties
<1>4. QED
  BY <1>1, <1>3, ConcatProperties DEF InsertAt

\* So does removing one.
LEMMA RemoveAtType ==
  ASSUME NEW S, NEW s \in Seq(S), NEW i \in 1 .. Len(s)
  PROVE  RemoveAt(s, i) \in Seq(S)
<1>1. SubSeq(s, 1, i - 1) \in Seq(S) /\ SubSeq(s, i + 1, Len(s)) \in Seq(S)
  BY SubSeqProperties, LenProperties, ElementOfSeq
<1>2. QED
  BY <1>1, ConcatProperties DEF RemoveAt

\* Every red zone starts in a page whose bucket exists.
LEMMA BucketInRange ==
  ASSUME NEW b \in Block
  PROVE  /\ getRZAddrBucket(b.L) \in 0 .. (HASHSZ - 1)
         /\ getRZAddrBucket(b.R) \in 0 .. (HASHSZ - 1)
<1>1. b.L \in Nat /\ b.R \in Nat /\ b.L + RZ < b.R /\ RZ \in Nat \ {0}
  BY BlockAssumption, SizeAssumption
<1>2. b.L \in b.L .. (b.R + RZ - 1) /\ b.R \in b.L .. (b.R + RZ - 1)
  BY <1>1
<1>3. QED
  BY <1>2, HashAssumption, Zenon DEF getRZAddrBucket

\* A bucket always has one of the two locks.
LEMMA LockExists == \A mem : lockOf(mem) \in Locks
BY DEF lockOf, getLock, Locks

\* A block is the record of its two addresses, and none of them is NULL.
LEMMA BlockIsRecord ==
  ASSUME NEW b \in Block
  PROVE  /\ [L |-> b.L, R |-> b.R] = b
         /\ b.L # NULL /\ b.R # NULL
         /\ b # NoEntry
<1>1. b \in [L : Nat \ {0}, R : Nat \ {0}]
  BY BlockAssumption
<1>2. QED
  BY <1>1 DEF NULL, NoEntry

\* addAddrToList leaves a bucket of blocks a bucket of blocks, whatever it
\* decides, and has one of its three outcomes.
LEMMA AddKeepsType ==
  ASSUME NEW bucket \in BucketType, NEW e \in Block
  PROVE  /\ addAddrToList(bucket, e).bucket \in BucketType
         /\ addAddrToList(bucket, e).res \in {"added", "denied", "segv"}
<1> DEFINE list == bucket.list
           I == {i \in 1 .. Len(list) : SameRedZone(list[i], e) \/ e.R < list[i].L}
           stop == FirstOf(I)
           With(l) == [res    |-> "added",
                       bucket |-> [counter |-> bucket.counter + 1, list |-> l]]
<1>1. list \in Seq(Block) /\ bucket.counter \in Nat /\ Len(list) \in Nat
  BY DEF BucketType
<1>2. stop \in 0 .. Len(list)
  BY <1>1, FirstOfType
<1>3. \A l \in Seq(Block) : With(l).bucket \in BucketType /\ With(l).res = "added"
  BY <1>1 DEF BucketType
<1>4. stop # 0 => InsertAt(list, stop, e) \in Seq(Block)
  BY <1>1, <1>2, InsertAtType
<1>5. Append(list, e) \in Seq(Block) /\ <<e>> \in Seq(Block)
  BY <1>1, AppendProperties
<1> DEFINE a == addAddrToList(bucket, e)
<1>6. \/ a = [res |-> "segv", bucket |-> bucket]
      \/ a = [res |-> "denied", bucket |-> bucket]
      \/ \E l \in {<<e>>, Append(list, e), list} : a = With(l)
      \/ stop # 0 /\ a = With(InsertAt(list, stop, e))
  BY DEF addAddrToList
<1> HIDE DEF stop, With, list, a
<1>7. CASE a.bucket = bucket /\ a.res \in {"denied", "segv"}
  BY <1>7 DEF a
<1>8. CASE \E l \in Seq(Block) : a = With(l)
  BY <1>3, <1>8 DEF a
<1>9. \A l \in {<<e>>, Append(list, e), list} : l \in Seq(Block)
  BY <1>1, <1>5
<1>10. (\E l \in Seq(Block) : a = With(l)) \/ (a.bucket = bucket /\ a.res \in {"denied", "segv"})
  <2>1. CASE a = [res |-> "segv", bucket |-> bucket]
    BY <2>1
  <2>2. CASE a = [res |-> "denied", bucket |-> bucket]
    BY <2>2
  <2>3. CASE \E l \in {<<e>>, Append(list, e), list} : a = With(l)
    BY <1>9, <2>3, Zenon
  <2>4. CASE stop # 0 /\ a = With(InsertAt(list, stop, e))
    BY <1>4, <2>4, Zenon
  <2>5. QED
    BY <1>6, <2>1, <2>2, <2>3, <2>4
<1>11. QED
  BY <1>7, <1>8, <1>10

\* removeAddrFromList leaves a bucket of blocks one, and returns NULL or an
\* entry that shares a red zone with the one it was asked to remove.
LEMMA RemoveKeepsType ==
  ASSUME NEW bucket \in BucketType, NEW e
  PROVE  /\ removeAddrFromList(bucket, e).bucket \in BucketType
         /\ \/ removeAddrFromList(bucket, e).found = NoEntry
            \/ /\ removeAddrFromList(bucket, e).found \in Block
               /\ SameRedZone(removeAddrFromList(bucket, e).found, e)
<1> DEFINE list == bucket.list
           I == {i \in 1 .. Len(list) : SameRedZone(list[i], e)}
           at == FirstOf(I)
<1>1. list \in Seq(Block) /\ bucket.counter \in Nat /\ Len(list) \in Nat
  BY DEF BucketType
<1>2. at \in 0 .. Len(list) /\ (at # 0 => at \in I)
  BY <1>1, FirstOfType
<1>3. at # 0 => list[at] \in Block /\ SameRedZone(list[at], e)
  BY <1>1, <1>2, ElementOfSeq
<1>4. at # 0 => RemoveAt(list, at) \in Seq(Block)
  BY <1>1, <1>2, RemoveAtType
<1>5. at = Find(list, e)
  BY DEF Find
<1> HIDE DEF at
<1>6. CASE bucket.counter = 0
  BY <1>6 DEF removeAddrFromList
<1>7. CASE bucket.counter # 0 /\ at = 0
  BY <1>1, <1>5, <1>7 DEF removeAddrFromList, BucketType
<1>8. CASE bucket.counter # 0 /\ at # 0
  BY <1>1, <1>3, <1>4, <1>5, <1>8 DEF removeAddrFromList, BucketType
<1>9. QED
  BY <1>1, <1>6, <1>7, <1>8

-----------------------------------------------------------------------------
(***************************************************************************)
(* The order of a list.  A bucket is orderly when its counter is the       *)
(* length of its list and the list is sorted, every block ending before    *)
(* the next one begins: what the early exits of the three functions of     *)
(* dhash.c rely on, stated for every pair of entries because that is what  *)
(* the steps of the proofs instantiate.                                    *)
(***************************************************************************)

Entries(bucket) == {bucket.list[i] : i \in 1 .. Len(bucket.list)}
Increasing(list) == \A i, j \in 1 .. Len(list) : i < j => list[i].R < list[j].L
Orderly(bucket) == bucket.counter = Len(bucket.list) /\ Increasing(bucket.list)

\* No byte of one block, red zones included, belongs to the other.
Apart(x, y) == x.R + RZ <= y.L \/ y.R + RZ <= x.L

\* A block ends behind its beginning.
LEMMA BlockBounds ==
  ASSUME NEW b \in Block
  PROVE  b.L \in Nat \ {0} /\ b.R \in Nat \ {0} /\ b.L + RZ < b.R /\ RZ \in Nat \ {0}
BY BlockAssumption, SizeAssumption

\* The loop stops at the least position, and nowhere only when there is none.
LEMMA FirstOfLeast ==
  ASSUME NEW n \in Nat, NEW I \in SUBSET (1 .. n)
  PROVE  /\ FirstOf(I) = 0 <=> I = {}
         /\ \A j \in I : FirstOf(I) <= j
<1>1. CASE I = {}
  BY <1>1 DEF FirstOf
<1>2. CASE I # {}
  <2>1. I \in SUBSET Nat
    OBVIOUS
  <2>2. FirstOf(I) = Min(I)
    BY <1>2 DEF FirstOf
  <2>3. Min(I) \in I /\ \A j \in I : Min(I) <= j
    BY <1>2, <2>1, MinIsLeast
  <2> HIDE DEF FirstOf
  <2>4. FirstOf(I) \in I /\ \A j \in I : FirstOf(I) <= j
    BY <2>2, <2>3, Zenon
  <2>5. FirstOf(I) # 0
    BY <2>4
  <2> QED
    BY <1>2, <2>4, <2>5
<1> QED
  BY <1>1, <1>2

\* Where the elements of a list are after an insertion ...
LEMMA InsertAtElements ==
  ASSUME NEW S, NEW s \in Seq(S), NEW i \in 1 .. Len(s), NEW e \in S
  PROVE  /\ Len(InsertAt(s, i, e)) = Len(s) + 1
         /\ \A j \in 1 .. Len(s) + 1 :
              InsertAt(s, i, e)[j] = IF j < i THEN s[j] ELSE IF j = i THEN e ELSE s[j - 1]
<1> DEFINE u == SubSeq(s, 1, i - 1)
           v == SubSeq(s, i, Len(s))
<1>1. /\ u \in Seq(S) /\ Len(u) = i - 1 /\ \A j \in 1 .. i - 1 : u[j] = s[j]
      /\ v \in Seq(S) /\ Len(v) = Len(s) - i + 1 /\ \A j \in 1 .. Len(s) - i + 1 : v[j] = s[i + j - 1]
  BY SubSeqProperties, LenProperties, ElementOfSeq
<1>2. <<e>> \in Seq(S) /\ Len(<<e>>) = 1 /\ <<e>>[1] = e
  OBVIOUS
<1>3. InsertAt(s, i, e) = u \o <<e>> \o v
  BY DEF InsertAt
<1> HIDE DEF u, v
<1>4. /\ u \o <<e>> \in Seq(S) /\ Len(u \o <<e>>) = i
      /\ \A j \in 1 .. i : (u \o <<e>>)[j] = IF j < i THEN u[j] ELSE e
  BY <1>1, <1>2, ConcatProperties
<1> DEFINE w == u \o <<e>>
<1> HIDE DEF w
<1>5. /\ Len(w \o v) = Len(s) + 1
      /\ \A j \in 1 .. Len(s) + 1 : (w \o v)[j] = IF j <= i THEN w[j] ELSE v[j - i]
  <2>0. w \in Seq(S) /\ v \in Seq(S) /\ Len(w) = i /\ Len(v) = Len(s) - i + 1
    BY <1>1, <1>4 DEF w
  <2>1. Len(s) \in Nat /\ Len(w) + Len(v) = Len(s) + 1
    BY <2>0
  <2>2. /\ Len(w \o v) = Len(w) + Len(v)
        /\ \A j \in 1 .. Len(w) + Len(v) :
             (w \o v)[j] = IF j <= Len(w) THEN w[j] ELSE v[j - Len(w)]
    BY <2>0, ConcatProperties
  <2> QED
    BY <2>0, <2>1, <2>2
<1>6. \A j \in 1 .. Len(s) + 1 : j > i => v[j - i] = s[j - 1]
  <2> TAKE j \in 1 .. Len(s) + 1
  <2>1. Len(s) \in Nat
    OBVIOUS
  <2>2. j > i => j - i \in 1 .. Len(s) - i + 1
    BY <2>1
  <2> QED
    BY <1>1, <2>1, <2>2
<1>7. \A j \in 1 .. i : w[j] = IF j < i THEN s[j] ELSE e
  BY <1>1, <1>4 DEF w
<1>8. InsertAt(s, i, e) = w \o v
  BY <1>3 DEF w
<1>9. ASSUME NEW j \in 1 .. Len(s) + 1
      PROVE  (w \o v)[j] = IF j < i THEN s[j] ELSE IF j = i THEN e ELSE s[j - 1]
  <2>1. Len(s) \in Nat /\ (j <= i => j \in 1 .. i) /\ (~(j <= i) => j > i)
    OBVIOUS
  <2>2. CASE j <= i
    BY <1>5, <1>7, <2>1, <2>2
  <2>3. CASE ~(j <= i)
    BY <1>5, <1>6, <2>1, <2>3
  <2> QED
    BY <2>2, <2>3
<1> QED
  BY <1>5, <1>8, <1>9

\* ... and after a removal.
LEMMA RemoveAtElements ==
  ASSUME NEW S, NEW s \in Seq(S), NEW i \in 1 .. Len(s)
  PROVE  /\ Len(RemoveAt(s, i)) = Len(s) - 1
         /\ \A j \in 1 .. Len(s) - 1 : RemoveAt(s, i)[j] = IF j < i THEN s[j] ELSE s[j + 1]
<1> DEFINE u == SubSeq(s, 1, i - 1)
           v == SubSeq(s, i + 1, Len(s))
<1>1. /\ u \in Seq(S) /\ Len(u) = i - 1 /\ \A j \in 1 .. i - 1 : u[j] = s[j]
      /\ v \in Seq(S) /\ Len(v) = Len(s) - i /\ \A j \in 1 .. Len(s) - i : v[j] = s[i + j]
  BY SubSeqProperties, LenProperties, ElementOfSeq
<1>2. RemoveAt(s, i) = u \o v
  BY DEF RemoveAt
<1> HIDE DEF u, v
<1>3. /\ Len(u \o v) = Len(s) - 1
      /\ \A j \in 1 .. Len(s) - 1 : (u \o v)[j] = IF j < i THEN u[j] ELSE v[j - i + 1]
  <2>1. Len(s) \in Nat /\ Len(u) + Len(v) = Len(s) - 1
    BY <1>1
  <2>2. /\ Len(u \o v) = Len(u) + Len(v)
        /\ \A j \in 1 .. Len(u) + Len(v) :
             (u \o v)[j] = IF j <= Len(u) THEN u[j] ELSE v[j - Len(u)]
    BY <1>1, ConcatProperties
  <2> QED
    BY <1>1, <2>1, <2>2
<1>4. \A j \in 1 .. Len(s) - 1 : j >= i => v[j - i + 1] = s[j + 1]
  <2> TAKE j \in 1 .. Len(s) - 1
  <2>1. Len(s) \in Nat
    OBVIOUS
  <2>2. j >= i => j - i + 1 \in 1 .. Len(s) - i
    BY <2>1
  <2> QED
    BY <1>1, <2>1, <2>2
<1> QED
  BY <1>1, <1>2, <1>3, <1>4

\* A block apart from all entries of an orderly bucket is added, and only that: the
\* fast path for increasing addresses and the search for its place both keep the order.
LEMMA AddKeepsOrder ==
  ASSUME NEW bucket \in BucketType, NEW e \in Block, Orderly(bucket),
         \A x \in Entries(bucket) : Apart(x, e)
  PROVE  /\ addAddrToList(bucket, e).res = "added"
         /\ Orderly(addAddrToList(bucket, e).bucket)
         /\ Entries(addAddrToList(bucket, e).bucket) = Entries(bucket) \cup {e}
<1> DEFINE list == bucket.list
           n == Len(list)
           I == {i \in 1 .. n : SameRedZone(list[i], e) \/ e.R < list[i].L}
           stop == FirstOf(I)
           With(l) == [res    |-> "added",
                       bucket |-> [counter |-> bucket.counter + 1, list |-> l]]
           a == addAddrToList(bucket, e)
           Right(l) == /\ l \in Seq(Block) /\ Len(l) = n + 1 /\ Increasing(l)
                       /\ {l[i] : i \in 1 .. Len(l)} = Entries(bucket) \cup {e}
<1>1. list \in Seq(Block) /\ n \in Nat /\ bucket.counter = n /\ \A i \in 1 .. n : list[i] \in Block
  BY DEF BucketType, Orderly
<1>2. SUFFICES ASSUME NEW l, a = With(l), Right(l)
               PROVE  /\ a.res = "added" /\ Orderly(a.bucket)
                      /\ Entries(a.bucket) = Entries(bucket) \cup {e}
  <2> HIDE DEF a, Right, With
  <2> SUFFICES \E l : a = With(l) /\ Right(l)
    BY Zenon DEF a
  <2> USE DEF a
  <2>1. CASE list = <<>>
    <3>1. a = With(<<e>>)
      BY <1>1, <2>1 DEF addAddrToList, Dangling, With
    <3>2. Right(<<e>>)
      BY <2>1 DEF Right, Increasing, Entries
    <3> QED
      BY <3>1, <3>2
  <2>2. CASE list # <<>> /\ Last(list).R < e.L
    <3>1. a = With(Append(list, e))
      BY <2>2 DEF addAddrToList, Dangling, With
    <3>2. \A i \in 1 .. n : list[i].R < e.L
      <4> TAKE i \in 1 .. n
      <4>1. list[n] \in Block /\ list[i] \in Block /\ list[n].R < e.L /\ n \in 1 .. n
        BY <1>1, <2>2 DEF Last
      <4>2. i < n => list[i].R < list[n].L
        BY <1>1, <4>1 DEF Orderly, Increasing
      <4> QED
        BY <1>1, <4>1, <4>2, BlockBounds
    <3>3. /\ Append(list, e) \in Seq(Block) /\ Len(Append(list, e)) = n + 1
          /\ \A i \in 1 .. n : Append(list, e)[i] = list[i]
          /\ Append(list, e)[n + 1] = e
      BY <1>1, AppendProperties
    <3>4. Increasing(Append(list, e))
      <4> SUFFICES ASSUME NEW i \in 1 .. n + 1, NEW j \in 1 .. n + 1, i < j
                   PROVE  Append(list, e)[i].R < Append(list, e)[j].L
        BY <3>3 DEF Increasing
      <4>1. CASE j = n + 1
        BY <1>1, <3>2, <3>3, <4>1
      <4>2. CASE j # n + 1
        BY <1>1, <3>3, <4>2 DEF Orderly, Increasing
      <4> QED
        BY <4>1, <4>2
    <3>5. {Append(list, e)[i] : i \in 1 .. n + 1} = Entries(bucket) \cup {e}
      <4>1. \A i \in 1 .. n : i \in 1 .. n + 1
        BY <1>1
      <4>2. \A i \in 1 .. n + 1 : i \in 1 .. n \/ i = n + 1
        BY <1>1
      <4>3. n + 1 \in 1 .. n + 1
        BY <1>1
      <4> QED
        BY <3>3, <4>1, <4>2, <4>3, Zenon DEF Entries
    <3> QED
      BY <3>1, <3>3, <3>4, <3>5 DEF Right
  <2>3. CASE list # <<>> /\ ~(Last(list).R < e.L)
    <3>1. \A i \in 1 .. n : ~SameRedZone(list[i], e) /\ Apart(list[i], e)
      <4> TAKE i \in 1 .. n
      <4>1. Apart(list[i], e) /\ list[i] \in Block
        BY <1>1 DEF Entries
      <4> QED
        BY <4>1, BlockBounds, SMTT(30) DEF SameRedZone, Apart
    <3>2. n \in I
      <4>1. n \in 1 .. n /\ ~(list[n].R < e.L) /\ list[n] \in Block
        BY <1>1, <2>3 DEF Last
      <4>2. /\ list[n].L \in Nat /\ list[n].R \in Nat /\ list[n].L + RZ < list[n].R
            /\ e.L \in Nat /\ e.R \in Nat /\ e.L + RZ < e.R /\ RZ \in Nat \ {0}
        BY <4>1, BlockBounds
      <4>3. list[n].R + RZ <= e.L \/ e.R + RZ <= list[n].L
        BY <3>1, <4>1 DEF Apart
      <4>4. e.R < list[n].L
        <5> HIDE DEF list, n
        <5> QED
          BY <4>1, <4>2, <4>3
      <4> QED
        BY <4>1, <4>4
    <3>3. stop \in I /\ stop # 0 /\ \A j \in I : stop <= j
      <4>1. I \in SUBSET (1 .. n) /\ I # {}
        BY <3>2
      <4> HIDE DEF I
      <4> QED
        BY <1>1, <4>1, FirstOfType, FirstOfLeast
    <3>4. stop \in 1 .. n
      BY <3>3
    <3>5. a = With(InsertAt(list, stop, e))
      BY <2>3, <3>1, <3>3 DEF addAddrToList, Dangling, With
    <3>6. /\ \A j \in 1 .. n : j < stop => list[j].R < e.L
          /\ \A j \in 1 .. n : stop <= j => e.R < list[j].L
      <4>1. ASSUME NEW j \in 1 .. n, j < stop PROVE list[j].R < e.L
        <5>1. j \notin I
          <6> HIDE DEF I, stop
          <6> QED
            BY <1>1, <3>3, <3>4, <4>1
        <5>2. ~(e.R < list[j].L) /\ Apart(list[j], e) /\ list[j] \in Block
          BY <1>1, <3>1, <5>1
        <5> QED
          BY <5>2, BlockBounds, SMTT(30) DEF Apart
      <4>2. ASSUME NEW j \in 1 .. n, stop <= j PROVE e.R < list[j].L
        <5>1. e.R < list[stop].L /\ list[stop] \in Block /\ list[j] \in Block
          BY <1>1, <3>1, <3>3
        <5>2. stop < j => list[stop].R < list[j].L
          BY <1>1, <3>4 DEF Orderly, Increasing
        <5> HIDE DEF stop, I
        <5>3. stop = j \/ stop < j
          BY <1>1, <3>4, <4>2
        <5> QED
          <6>1. /\ list[stop].L \in Nat /\ list[stop].R \in Nat /\ list[stop].L + RZ < list[stop].R
                /\ RZ \in Nat /\ e.R \in Nat /\ list[j].L \in Nat
            BY <5>1, BlockBounds
          <6> QED
            BY <5>1, <5>2, <5>3, <6>1, SMTT(30)
      <4> QED
        BY <4>1, <4>2
    <3> HIDE DEF stop, I
    <3> DEFINE l == InsertAt(list, stop, e)
    <3>7. /\ l \in Seq(Block) /\ Len(l) = n + 1
          /\ \A j \in 1 .. n + 1 :
               l[j] = IF j < stop THEN list[j] ELSE IF j = stop THEN e ELSE list[j - 1]
      <4>1. l \in Seq(Block)
        BY <1>1, <3>4, InsertAtType
      <4>2. /\ Len(InsertAt(list, stop, e)) = Len(list) + 1
            /\ \A j \in 1 .. Len(list) + 1 :
                 InsertAt(list, stop, e)[j] =
                   IF j < stop THEN list[j] ELSE IF j = stop THEN e ELSE list[j - 1]
        <5> HIDE DEF list
        <5> QED
          BY <1>1, <3>4, InsertAtElements
      <4> QED
        BY <4>1, <4>2
    <3> HIDE DEF l
    <3>8. Increasing(l)
      <4> SUFFICES ASSUME NEW i \in 1 .. n + 1, NEW j \in 1 .. n + 1, i < j
                   PROVE  l[i].R < l[j].L
        BY <3>7 DEF Increasing
      <4>1. CASE j < stop
        <5>1. i \in 1 .. n /\ j \in 1 .. n /\ l[i] = list[i] /\ l[j] = list[j]
          BY <1>1, <3>4, <3>7, <4>1
        <5> QED
          BY <5>1 DEF Orderly, Increasing
      <4>2. CASE j = stop
        <5>1. i \in 1 .. n
          BY <1>1, <3>4, <4>2
        <5> QED
          BY <3>6, <3>7, <4>2, <5>1
      <4>3. CASE j > stop
        <5>1. l[j] = list[j - 1] /\ j - 1 \in 1 .. n /\ stop <= j - 1
          BY <1>1, <3>4, <3>7, <4>3
        <5>2. CASE i = stop
          BY <3>6, <3>7, <5>1, <5>2
        <5>3. CASE i < stop
          <6>1. l[i] = list[i] /\ i \in 1 .. n /\ i < j - 1
            BY <1>1, <3>4, <3>7, <5>1, <5>3
          <6> QED
            BY <5>1, <6>1 DEF Orderly, Increasing
        <5>4. CASE i > stop
          <6>1. l[i] = list[i - 1] /\ i - 1 \in 1 .. n /\ i - 1 < j - 1
            BY <1>1, <3>4, <3>7, <5>1, <5>4
          <6> QED
            BY <5>1, <6>1 DEF Orderly, Increasing
        <5> QED
          BY <3>4, <5>2, <5>3, <5>4
      <4> QED
        BY <3>4, <4>1, <4>2, <4>3
    <3>9. {l[i] : i \in 1 .. n + 1} = Entries(bucket) \cup {e}
      <4>1. \A i \in 1 .. n + 1 : l[i] = e \/ \E j \in 1 .. n : l[i] = list[j]
        <5> TAKE i \in 1 .. n + 1
        <5>1. CASE i < stop
          <6>1. i \in 1 .. n
            BY <1>1, <3>4, <5>1
          <6> QED
            BY <3>7, <5>1, <6>1
        <5>2. CASE i = stop
          BY <3>7, <5>2
        <5>3. CASE i > stop
          <6>1. i - 1 \in 1 .. n /\ l[i] = list[i - 1]
            BY <1>1, <3>4, <3>7, <5>3
          <6> QED
            BY <6>1
        <5> QED
          BY <3>4, <5>1, <5>2, <5>3
      <4>2. \A j \in 1 .. n : \E i \in 1 .. n + 1 : l[i] = list[j]
        <5> TAKE j \in 1 .. n
        <5>1. CASE j < stop
          <6>1. j \in 1 .. n + 1
            BY <1>1
          <6> QED
            BY <3>7, <5>1, <6>1
        <5>2. CASE j >= stop
          <6>1. j + 1 \in 1 .. n + 1 /\ ~(j + 1 <= stop) /\ (j + 1) - 1 = j
            BY <1>1, <3>4, <5>2
          <6>2. l[j + 1] = list[(j + 1) - 1]
            BY <1>1, <3>4, <3>7, <6>1
          <6> QED
            BY <6>1, <6>2
        <5> QED
          BY <3>4, <5>1, <5>2
      <4>3. stop \in 1 .. n + 1 /\ l[stop] = e
        BY <1>1, <3>4, <3>7
      <4>4. \A x : (\E i \in 1 .. n + 1 : x = l[i]) <=> x = e \/ \E j \in 1 .. n : x = list[j]
        BY <4>1, <4>2, <4>3
      <4> QED
        BY <4>4, Zenon DEF Entries
    <3> QED
      BY <3>5, <3>7, <3>8, <3>9, ZenonT(60) DEF Right, l
  <2> QED
    BY <2>1, <2>2, <2>3
<1>3. a.res = "added" /\ a.bucket.counter = n + 1 /\ a.bucket.list = l
  BY <1>1, <1>2
<1> HIDE DEF a
<1> QED
  BY <1>2, <1>3 DEF Orderly, Entries

\* No two entries of an orderly bucket share an address.
LEMMA EntriesDiffer ==
  ASSUME NEW bucket \in BucketType, Orderly(bucket),
         NEW i \in 1 .. Len(bucket.list), NEW j \in 1 .. Len(bucket.list), i # j
  PROVE  bucket.list[i].L # bucket.list[j].L /\ bucket.list[i].R # bucket.list[j].R
<1>1. /\ bucket.list[i] \in Block /\ bucket.list[j] \in Block
      /\ i < j => bucket.list[i].R < bucket.list[j].L
      /\ j < i => bucket.list[j].R < bucket.list[i].L
  BY DEF BucketType, Orderly, Increasing
<1>2. i < j \/ j < i
  BY DEF BucketType
<1> QED
  BY <1>1, <1>2, BlockBounds, SMTT(30)

\* An entry of an orderly bucket is found by its left red zone, or by both, and
\* unlinked, and only that one.
LEMMA RemoveKeepsOrder ==
  ASSUME NEW bucket \in BucketType, Orderly(bucket), NEW b \in Entries(bucket),
         NEW r \in {NULL, b.R}
  PROVE  /\ removeAddrFromList(bucket, [L |-> b.L, R |-> r]).found = b
         /\ Orderly(removeAddrFromList(bucket, [L |-> b.L, R |-> r]).bucket)
         /\ Entries(removeAddrFromList(bucket, [L |-> b.L, R |-> r]).bucket) = Entries(bucket) \ {b}
<1> DEFINE list == bucket.list
           n == Len(list)
           e == [L |-> b.L, R |-> r]
           I == {i \in 1 .. n : SameRedZone(list[i], e)}
           at == FirstOf(I)
           a == removeAddrFromList(bucket, e)
<1> SUFFICES a.found = b /\ Orderly(a.bucket) /\ Entries(a.bucket) = Entries(bucket) \ {b}
  OBVIOUS
<1>1. list \in Seq(Block) /\ n \in Nat /\ bucket.counter = n /\ \A i \in 1 .. n : list[i] \in Block
  BY DEF BucketType, Orderly
<1>2. PICK k \in 1 .. n : list[k] = b
  BY DEF Entries
<1>3. I = {k}
  <2>1. k \in I
    BY <1>2 DEF SameRedZone
  <2>2. ASSUME NEW i \in I PROVE i = k
    <3>1. i \in 1 .. n /\ (list[i].L = b.L \/ list[i].R = r)
      BY DEF SameRedZone
    <3>2. list[i].R # NULL
      BY <1>1, <3>1, BlockIsRecord
    <3> QED
      BY <1>2, <3>1, <3>2, EntriesDiffer
  <2> QED
    BY <2>1, <2>2
<1>4. at = k
  BY <1>1, <1>3, FirstOfType, FirstOfLeast
<1>5. at = Find(list, e)
  BY DEF Find
<1> HIDE DEF at, I
<1>6. a = [found |-> b, bucket |-> [counter |-> n - 1, list |-> RemoveAt(list, k)]]
  BY <1>1, <1>2, <1>4, <1>5 DEF removeAddrFromList
<1> DEFINE l == RemoveAt(list, k)
<1>7. Len(l) = n - 1 /\ \A j \in 1 .. n - 1 : l[j] = IF j < k THEN list[j] ELSE list[j + 1]
  BY <1>1, RemoveAtElements
<1> HIDE DEF l
<1>8. Increasing(l)
  <2> SUFFICES ASSUME NEW i \in 1 .. n - 1, NEW j \in 1 .. n - 1, i < j PROVE l[i].R < l[j].L
    BY <1>7 DEF Increasing
  <2>1. PICK p \in 1 .. n, q \in 1 .. n : p < q /\ l[i] = list[p] /\ l[j] = list[q]
    <3>1. i \in 1 .. n /\ j \in 1 .. n /\ i + 1 \in 1 .. n /\ j + 1 \in 1 .. n /\ k \in Int
          /\ i < j + 1 /\ i + 1 < j + 1 /\ i + 1 \in Int /\ i \in Int /\ j \in Int /\ j + 1 \in Int
      BY <1>1
    <3>2. CASE j < k
      <4>1. l[i] = list[i] /\ l[j] = list[j]
        BY <1>1, <1>7, <3>1, <3>2
      <4> QED
        BY <3>1, <4>1
    <3>3. CASE ~(j < k) /\ i < k
      <4>1. l[i] = list[i] /\ l[j] = list[j + 1]
        BY <1>1, <1>7, <3>3
      <4> QED
        BY <3>1, <4>1
    <3>4. CASE ~(j < k) /\ ~(i < k)
      <4>1. l[i] = list[i + 1] /\ l[j] = list[j + 1]
        BY <1>1, <1>7, <3>4
      <4> QED
        BY <3>1, <4>1
    <3> QED
      BY <3>1, <3>2, <3>3, <3>4
  <2> QED
    BY <2>1 DEF Orderly, Increasing
<1>9. {l[j] : j \in 1 .. Len(l)} = Entries(bucket) \ {b}
  <2>1. \A j \in 1 .. n - 1 : \E i \in 1 .. n : i # k /\ l[j] = list[i]
    <3> TAKE j \in 1 .. n - 1
    <3>1. j \in 1 .. n /\ j + 1 \in 1 .. n
      BY <1>1
    <3>2. CASE j < k
      BY <1>7, <3>1, <3>2
    <3>3. CASE j >= k
      <4>1. j + 1 # k /\ l[j] = list[j + 1]
        BY <1>1, <1>7, <3>3
      <4> QED
        BY <3>1, <4>1
    <3> QED
      BY <1>1, <3>2, <3>3
  <2>2. \A i \in 1 .. n : i # k => \E j \in 1 .. n - 1 : l[j] = list[i]
    <3> TAKE i \in 1 .. n
    <3>1. CASE i < k
      <4>1. i \in 1 .. n - 1
        BY <1>1, <3>1
      <4> QED
        BY <1>7, <3>1, <4>1
    <3>2. CASE i > k
      <4>1. i - 1 \in 1 .. n - 1 /\ l[i - 1] = list[i]
        BY <1>1, <1>7, <3>2
      <4> QED
        BY <4>1
    <3> QED
      BY <1>1, <3>1, <3>2
  <2>3. \A i \in 1 .. n : i # k => list[i] # b
    BY <1>2, EntriesDiffer
  <2>4. \A x : (\E j \in 1 .. n - 1 : x = l[j]) <=> x # b /\ \E i \in 1 .. n : x = list[i]
    BY <1>2, <2>1, <2>2, <2>3
  <2>5. 1 .. Len(l) = 1 .. n - 1
    BY <1>7
  <2>6. {l[j] : j \in 1 .. n - 1} = {list[i] : i \in 1 .. n} \ {b}
    <3> HIDE DEF list, n
    <3>1. \A x : x \in {l[j] : j \in 1 .. n - 1} <=> \E j \in 1 .. n - 1 : x = l[j]
      OBVIOUS
    <3>2. \A x : x \in {list[i] : i \in 1 .. n} \ {b} <=> x # b /\ \E i \in 1 .. n : x = list[i]
      OBVIOUS
    <3> QED
      BY <2>4, <3>1, <3>2
  <2> QED
    BY <2>5, <2>6 DEF Entries
<1>10. a.found = b /\ a.bucket.counter = n - 1 /\ a.bucket.list = l
  BY <1>6 DEF l
<1> HIDE DEF a
<1>11. Orderly(a.bucket)
  BY <1>7, <1>8, <1>10 DEF Orderly
<1>12. Entries(a.bucket) = {l[j] : j \in 1 .. Len(l)}
  BY <1>10, Zenon DEF Entries
<1> QED
  BY <1>9, <1>10, <1>11, <1>12, Zenon

\* In an orderly bucket no entry starts before the first one or ends behind the last.
LEMMA EndsBound ==
  ASSUME NEW bucket \in BucketType, Orderly(bucket), NEW b \in Entries(bucket)
  PROVE  /\ bucket.counter # 0 /\ bucket.list # <<>>
         /\ Head(bucket.list).L <= b.L /\ b.R <= Last(bucket.list).R
         /\ Head(bucket.list) \in Block /\ Last(bucket.list) \in Block
<1> DEFINE list == bucket.list
           n == Len(list)
<1>1. list \in Seq(Block) /\ n \in Nat /\ bucket.counter = n /\ \A i \in 1 .. n : list[i] \in Block
  BY DEF BucketType, Orderly
<1>2. PICK k \in 1 .. n : list[k] = b
  BY DEF Entries
<1>3. 1 \in 1 .. n /\ n \in 1 .. n /\ n # 0 /\ list # <<>>
  BY <1>1
<1>4. Head(list) = list[1] /\ Last(list) = list[n]
  BY <1>1, <1>3, HeadTailProperties DEF Last
<1>5. (k # 1 => list[1].R < list[k].L) /\ (k # n => list[k].R < list[n].L)
  BY <1>1, <1>3 DEF Orderly, Increasing
<1>6. list[1] \in Block /\ list[n] \in Block /\ b \in Block
  BY <1>1, <1>2, <1>3
<1>7. list[1].L <= b.L /\ b.R <= list[n].R
  <2>1. /\ list[1].L \in Nat /\ list[1].R \in Nat /\ list[1].L + RZ < list[1].R
        /\ list[n].L \in Nat /\ list[n].R \in Nat /\ list[n].L + RZ < list[n].R
        /\ b.L \in Nat /\ b.R \in Nat /\ b.L + RZ < b.R /\ RZ \in Nat
    BY <1>6, BlockBounds
  <2>2. list[1].L <= b.L
    <3>1. CASE k = 1
      BY <1>2, <2>1, <3>1
    <3>2. CASE k # 1
      <4>1. list[1].R < b.L
        BY <1>2, <1>5, <3>2
      <4> HIDE DEF list
      <4> QED
        BY <2>1, <4>1
    <3> QED
      BY <3>1, <3>2
  <2>3. b.R <= list[n].R
    <3>1. CASE k = n
      BY <1>2, <2>1, <3>1
    <3>2. CASE k # n
      <4>1. b.R < list[n].L
        BY <1>2, <1>5, <3>2
      <4> HIDE DEF list, n
      <4> QED
        BY <2>1, <4>1
    <3> QED
      BY <3>1, <3>2
  <2> QED
    BY <2>2, <2>3
<1> QED
  BY <1>1, <1>3, <1>4, <1>6, <1>7

\* checkRegistration finds the entry whose red zone the first or the last byte of an
\* access lies in, when the bucket of the first byte lists it: the early exits on the
\* ends of the list do not hide it.
LEMMA CheckReports ==
  ASSUME NEW T, NEW mem \in Int, NEW sz \in Nat \ {0},
         T[getRZAddrBucket(mem)] \in BucketType, Orderly(T[getRZAddrBucket(mem)]),
         NEW b \in Entries(T[getRZAddrBucket(mem)]), b.L <= mem, mem <= b.R + RZ,
         NEW a \in {mem, mem + sz - 1}, InZone(a, b.L) \/ InZone(a, b.R)
  PROVE  checkRegistration(T, mem, sz) = 1
<1> DEFINE bucket == T[getRZAddrBucket(mem)]
           list == bucket.list
           end == IF sz > 1 THEN mem + sz - 1 ELSE mem
           Touches(e) == \E x \in {mem, end} : InZone(x, e.L) \/ InZone(x, e.R)
<1>1. PICK k \in 1 .. Len(list) : list[k] = b
  BY DEF Entries
<1>2. list[k] \in Block
  BY DEF BucketType
<1>3. end = mem + sz - 1
  OBVIOUS
<1>4. Touches(list[k])
  BY <1>1, <1>3
<1>5. ~(mem < Head(list).L \/ mem > Last(list).R + RZ) /\ bucket.counter # 0 /\ list # <<>>
  <2>1. /\ bucket.counter # 0 /\ list # <<>>
        /\ Head(list).L <= b.L /\ b.R <= Last(list).R
        /\ Head(list) \in Block /\ Last(list) \in Block
    BY EndsBound
  <2>2. /\ Head(list).L \in Nat /\ Last(list).R \in Nat
        /\ b.L \in Nat /\ b.R \in Nat /\ RZ \in Nat
    BY <1>1, <1>2, <2>1, BlockBounds
  <2> QED
    BY <2>1, <2>2, SMTT(30)
<1> HIDE DEF end, Touches
<1>6. checkRegistration(T, mem, sz) =
        CASE bucket.counter = 0  -> 0
          [] Dangling(bucket)    -> "segv"
          [] bucket.counter # 0 /\ list # <<>> ->
               IF mem < Head(list).L \/ mem > Last(list).R + RZ THEN 0
               ELSE IF \E i \in 1 .. Len(list) : Touches(list[i]) THEN 1 ELSE 0
  BY Zenon DEF checkRegistration, Touches, end
<1> QED
  BY <1>4, <1>5, <1>6 DEF Dangling

\* ... and it answers 0 when neither byte lies in a red zone of an entry.
LEMMA CheckAccepts ==
  ASSUME NEW T, NEW mem \in Int, NEW sz \in Nat \ {0},
         T[getRZAddrBucket(mem)] \in BucketType, Orderly(T[getRZAddrBucket(mem)]),
         \A b \in Entries(T[getRZAddrBucket(mem)]) : \A a \in {mem, mem + sz - 1} :
            ~InZone(a, b.L) /\ ~InZone(a, b.R)
  PROVE  checkRegistration(T, mem, sz) = 0
<1> DEFINE bucket == T[getRZAddrBucket(mem)]
           list == bucket.list
           end == IF sz > 1 THEN mem + sz - 1 ELSE mem
           Touches(e) == \E x \in {mem, end} : InZone(x, e.L) \/ InZone(x, e.R)
<1>1. end = mem + sz - 1
  OBVIOUS
<1>2. \A i \in 1 .. Len(list) : ~Touches(list[i])
  BY <1>1 DEF Entries
<1>3. bucket.counter = 0 \/ (bucket.counter # 0 /\ list # <<>>)
  BY DEF BucketType, Orderly
<1> HIDE DEF end, Touches
<1>4. checkRegistration(T, mem, sz) =
        CASE bucket.counter = 0  -> 0
          [] Dangling(bucket)    -> "segv"
          [] bucket.counter # 0 /\ list # <<>> ->
               IF mem < Head(list).L \/ mem > Last(list).R + RZ THEN 0
               ELSE IF \E i \in 1 .. Len(list) : Touches(list[i]) THEN 1 ELSE 0
  BY Zenon DEF checkRegistration, Touches, end
<1> QED
  BY <1>2, <1>3, <1>4 DEF Dangling

\* The threads --------------------------------------------------------------------------

Registers == {"reg_lock1", "reg_add1", "reg_swap", "reg_lock2", "reg_add2",
              "reg_unlock", "reg_undo", "reg_deny", "denied"}
Removes   == {"rem_lock1", "rem_list1", "rem_swap", "rem_lock2", "rem_list2",
              "rem_unlock2", "rem_unlock", "rem_abort1", "rem_abort2", "removed"}
KnowsRight == {"rem_swap", "rem_lock2", "rem_list2", "rem_unlock2", "rem_unlock",
               "rem_abort2"}
Asks == {"rem_lock1", "rem_list1"}

\* What the locals of a call are at each position: a call works on a block,
\* a registration and its rollback on both addresses of that block, and a
\* removal knows a right red zone once it has found the entry, not before.
FrameOf(t) ==
  /\ pc[t] \in Registers \cup Removes => blk[t] \in Block
  /\ pc[t] \in Registers => right[t] = blk[t].R
  /\ pc[t] \in Removes /\ undo[t] => right[t] = blk[t].R
  /\ pc[t] \in KnowsRight => right[t] \in {b.R : b \in Block}
  /\ pc[t] \in Asks /\ ~undo[t] => right[t] = NULL

FrameOK == \A t \in Thread : FrameOf(t)

TInv == TypeOK /\ FrameOK

-----------------------------------------------------------------------------

\* The two things a step can do to a mutex.
LEMMA LockType ==
  ASSUME TypeOK, NEW t \in Thread, NEW mem, lock(t, lockOf(mem))
  PROVE  /\ mutex' \in [Locks -> Thread \cup {NoThread}]
         /\ mutex'[lockOf(mem)] = t
         /\ \A m \in Locks : mutex[m] # NoThread => mutex'[m] = mutex[m]
BY LockExists DEF TypeOK, lock

\* An unlock leaves the mutexes of the other threads alone ...
LEMMA UnlockType ==
  ASSUME TypeOK, NEW t \in Thread, NEW mem, unlock(t, lockOf(mem)),
         OwnerChecked \/ mutex[lockOf(mem)] = t
  PROVE  \A m \in Locks : mutex[m] # t => mutex'[m] = mutex[m]
BY LockExists DEF TypeOK, unlock, Refused

\* ... unless it is a stray one; then it at least keeps the type.
LEMMA UnlockTypeOnly ==
  ASSUME TypeOK, NEW t \in Thread, NEW mem, unlock(t, lockOf(mem))
  PROVE  mutex' \in [Locks -> Thread \cup {NoThread}]
BY LockExists DEF TypeOK, unlock, Refused

\* The frame of the other threads is theirs: a step of t only has to
\* establish its own.
LEMMA FrameOfOthers ==
  ASSUME TypeOK, FrameOK, NEW t \in Thread, NEW there \in PC,
         pc' = [pc EXCEPT ![t] = there],
         \A u \in Thread \ {t} :
            blk'[u] = blk[u] /\ right'[u] = right[u] /\ undo'[u] = undo[u],
         FrameOf(t)'
  PROVE  FrameOK'
<1>1. SUFFICES ASSUME NEW u \in Thread PROVE FrameOf(u)'
  BY DEF FrameOK
<1>2. CASE u = t
  BY <1>2
<1>3. CASE u # t
  <2>1. pc'[u] = pc[u]
    BY <1>3 DEF TypeOK
  <2>2. blk'[u] = blk[u] /\ right'[u] = right[u] /\ undo'[u] = undo[u]
    BY <1>3
  <2>3. FrameOf(u)
    BY DEF FrameOK
  <2>4. QED
    BY <2>1, <2>2, <2>3 DEF FrameOf
<1>4. QED
  BY <1>2, <1>3

\* Steps that move a thread and touch neither its locals nor the table.
LEMMA FrameOfMove ==
  ASSUME TypeOK, FrameOK, NEW t \in Thread, NEW there \in PC,
         pc' = [pc EXCEPT ![t] = there],
         UNCHANGED frames,
         there \in Registers => pc[t] \in Registers,
         there \in Removes => pc[t] \in Removes,
         there \in KnowsRight => pc[t] \in KnowsRight,
         there \in Asks => pc[t] \in Asks
  PROVE  FrameOK'
<1>1. pc'[t] = there /\ blk' = blk /\ right' = right /\ undo' = undo
  BY DEF TypeOK, frames
<1>2. FrameOf(t)
  BY DEF FrameOK
<1>3. FrameOf(t)'
  BY <1>1, <1>2 DEF FrameOf
<1>4. QED
  BY <1>1, <1>3, FrameOfOthers

-----------------------------------------------------------------------------

\* The two operations on the lists keep the table's type, because they work on
\* a bucket that exists and insert a block.
LEMMA AddToTable ==
  ASSUME TypeOK, NEW b \in Block, NEW k \in 0 .. (HASHSZ - 1)
  PROVE  /\ [table EXCEPT ![k] = addAddrToList(table[k], b).bucket]
              \in [0 .. (HASHSZ - 1) -> BucketType]
         /\ addAddrToList(table[k], b).res \in {"added", "denied", "segv"}
<1>1. table[k] \in BucketType
  BY DEF TypeOK
<1>2. addAddrToList(table[k], b).bucket \in BucketType
      /\ addAddrToList(table[k], b).res \in {"added", "denied", "segv"}
  BY <1>1, AddKeepsType
<1>3. QED
  BY <1>2 DEF TypeOK

\* A removal keeps the table's type, and what it finds is a block of that red zone.
LEMMA RemoveFromTable ==
  ASSUME TypeOK, NEW e, NEW k \in 0 .. (HASHSZ - 1)
  PROVE  /\ [table EXCEPT ![k] = removeAddrFromList(table[k], e).bucket]
              \in [0 .. (HASHSZ - 1) -> BucketType]
         /\ \/ removeAddrFromList(table[k], e).found = NoEntry
            \/ /\ removeAddrFromList(table[k], e).found \in Block
               /\ SameRedZone(removeAddrFromList(table[k], e).found, e)
<1>1. table[k] \in BucketType
  BY DEF TypeOK
<1>2. /\ removeAddrFromList(table[k], e).bucket \in BucketType
      /\ \/ removeAddrFromList(table[k], e).found = NoEntry
         \/ /\ removeAddrFromList(table[k], e).found \in Block
            /\ SameRedZone(removeAddrFromList(table[k], e).found, e)
  BY <1>1, RemoveKeepsType
<1>3. QED
  BY <1>2 DEF TypeOK

\* What a thread in registerAddr passes to addAddrToList is its block.
LEMMA FrameIsBlock ==
  ASSUME TInv, NEW t \in Thread, pc[t] \in Registers
  PROVE  /\ [L |-> blk[t].L, R |-> right[t]] = blk[t]
         /\ blk[t] \in Block
         /\ getRZAddrBucket(blk[t].L) \in 0 .. (HASHSZ - 1)
         /\ getRZAddrBucket(right[t]) \in 0 .. (HASHSZ - 1)
<1>1. blk[t] \in Block /\ right[t] = blk[t].R
  BY DEF TInv, FrameOK, FrameOf
<1>2. QED
  BY <1>1, BlockIsRecord, BucketInRange

-----------------------------------------------------------------------------

\* The calls and returns keep the types and the frames ...
LEMMA CallTyped ==
  ASSUME TInv, NEW t \in Thread, EnterUninitialised(t) \/ initLib(t) \/ ReturnAtOnce(t)
  PROVE  TInv'
<1>1. CASE EnterUninitialised(t)
  <2>1. TypeOK'
    BY <1>1 DEF EnterUninitialised, At, Goto, TInv, TypeOK, PC, library, frames
  <2>2. FrameOK'
    BY <1>1, FrameOfMove DEF EnterUninitialised, Goto, TInv, PC, Registers, Removes, KnowsRight, Asks
  <2>3. QED
    BY <2>1, <2>2 DEF TInv
<1>2. CASE initLib(t)
  <2>1. TypeOK'
    BY <1>2 DEF initLib, At, Goto, TInv, TypeOK, PC, frames
  <2>2. FrameOK'
    BY <1>2, FrameOfMove DEF initLib, Goto, TInv, PC, Registers, Removes, KnowsRight, Asks
  <2>3. QED
    BY <2>1, <2>2 DEF TInv
<1>3. CASE ReturnAtOnce(t)
  <2>1. TypeOK'
    BY <1>3 DEF ReturnAtOnce, At, Goto, TInv, TypeOK, PC, library, frames
  <2>2. FrameOK'
    BY <1>3, FrameOfMove DEF ReturnAtOnce, Goto, TInv, PC, Registers, Removes, KnowsRight, Asks
  <2>3. QED
    BY <2>1, <2>2 DEF TInv
<1>4. QED
  BY <1>1, <1>2, <1>3

\* ... so does obtaining a block ...
LEMMA MallocTyped ==
  ASSUME TInv, NEW t \in Thread, NEW b \in Block, Dlib_malloc(t, b)
  PROVE  TInv'
<1>1. TypeOK'
  BY FlagAssumption DEF Dlib_malloc, Goto, TInv, TypeOK, PC, library
<1>2. FrameOK'
  <2>1. PICK there \in {"reg_lock1", "denied"} : pc' = [pc EXCEPT ![t] = there]
    BY DEF Dlib_malloc, Goto
  <2>2. FrameOf(t)'
    BY <2>1 DEF Dlib_malloc, TInv, TypeOK, FrameOf, Removes, KnowsRight, Asks
  <2>3. QED
    BY <2>1, <2>2, FrameOfOthers DEF Dlib_malloc, TInv, TypeOK, PC
<1>3. QED
  BY <1>1, <1>2 DEF TInv

\* ... and the call of free.
LEMMA FreeTyped ==
  ASSUME TInv, NEW t \in Thread, NEW b \in Block, Dlib_free(t, b)
  PROVE  TInv'
<1>1. TypeOK'
  BY DEF Dlib_free, Goto, TInv, TypeOK, PC, library
<1>2. FrameOK'
  <2>1. pc' = [pc EXCEPT ![t] = "rem_lock1"]
    BY DEF Dlib_free, Goto
  <2>2. FrameOf(t)'
    BY <2>1 DEF Dlib_free, TInv, TypeOK, FrameOf, Registers, KnowsRight, Asks
  <2>3. QED
    BY <2>1, <2>2, FrameOfOthers DEF Dlib_free, TInv, TypeOK, PC
<1>3. QED
  BY <1>1, <1>2 DEF TInv

-----------------------------------------------------------------------------

\* Steps of a call that only take or release a mutex and move on.
LEMMA MoveTyped ==
  ASSUME TInv, NEW t \in Thread, NEW there \in PC,
         pc' = [pc EXCEPT ![t] = there],
         mutex' \in [Locks -> Thread \cup {NoThread}],
         UNCHANGED <<init, table, heap, fails, crashed, frames>>,
         live' \subseteq Block,
         there \in Registers => pc[t] \in Registers,
         there \in Removes => pc[t] \in Removes,
         there \in KnowsRight => pc[t] \in KnowsRight,
         there \in Asks => pc[t] \in Asks
  PROVE  TInv'
<1>1. TypeOK'
  BY DEF TInv, TypeOK, frames
<1>2. FrameOK'
  BY FrameOfMove DEF TInv
<1>3. QED
  BY <1>1, <1>2 DEF TInv

\* Registration: the steps that take and give up mutexes ...
LEMMA RegLocksTyped ==
  ASSUME TInv, NEW t \in Thread,
         RegLock1(t) \/ RegSwap(t) \/ RegLock2(t) \/ RegUnlock(t) \/ RegDeny(t)
  PROVE  TInv'
<1> USE DEF At, Goto, PC, Registers, Removes, KnowsRight, Asks, lockL, lockR
<1>0. TypeOK /\ live \subseteq Block
  BY DEF TInv, TypeOK
<1>1. CASE RegLock1(t)
  BY <1>0, <1>1, LockType, MoveTyped DEF RegLock1
<1>2. CASE RegSwap(t)
  BY <1>0, <1>2, UnlockTypeOnly, MoveTyped DEF RegSwap
<1>3. CASE RegLock2(t)
  BY <1>0, <1>3, LockType, MoveTyped DEF RegLock2
<1>4. CASE RegUnlock(t)
  <2>1. blk[t] \in Block
    BY <1>4 DEF RegUnlock, TInv, FrameOK, FrameOf
  <2>2. live' \subseteq Block
    BY <1>0, <1>4, <2>1 DEF RegUnlock
  <2>3. mutex' \in [Locks -> Thread \cup {NoThread}]
    BY <1>0, <1>4, UnlockTypeOnly DEF RegUnlock
  <2>4. QED
    BY <1>4, <2>2, <2>3, MoveTyped DEF RegUnlock
<1>5. CASE RegDeny(t)
  BY <1>0, <1>5, UnlockTypeOnly, MoveTyped DEF RegDeny
<1>6. QED
  BY <1>1, <1>2, <1>3, <1>4, <1>5

\* ... the beginning of a rollback ...
LEMMA RegUndoTyped ==
  ASSUME TInv, NEW t \in Thread, RegUndo(t)
  PROVE  TInv'
<1>1. mutex' \in [Locks -> Thread \cup {NoThread}]
  BY UnlockTypeOnly DEF TInv, RegUndo, lockR
<1>2. TypeOK'
  BY <1>1 DEF RegUndo, Goto, TInv, TypeOK, PC
<1>3. FrameOf(t)'
  BY DEF RegUndo, At, Goto, TInv, TypeOK, FrameOK, FrameOf, Registers, Removes, KnowsRight, Asks
<1>4. FrameOK'
  BY <1>3, FrameOfOthers DEF RegUndo, Goto, TInv, TypeOK, PC
<1>5. QED
  BY <1>2, <1>4 DEF TInv

\* ... and the two additions to lists.
LEMMA RegAddTyped ==
  ASSUME TInv, NEW t \in Thread, RegAdd1(t) \/ RegAdd2(t)
  PROVE  TInv'
<1>1. pc[t] \in Registers
  BY DEF RegAdd1, RegAdd2, At, Registers
<1>2. TypeOK /\ FrameOK
  BY DEF TInv
<1>3. table' \in [0 .. (HASHSZ - 1) -> BucketType]
  <2>1. PICK k \in 0 .. (HASHSZ - 1) :
          table' = [table EXCEPT ![k] =
                      addAddrToList(table[k], [L |-> blk[t].L, R |-> right[t]]).bucket]
    <3>1. /\ getRZAddrBucket(blk[t].L) \in 0 .. (HASHSZ - 1)
          /\ getRZAddrBucket(right[t]) \in 0 .. (HASHSZ - 1)
      BY <1>1, FrameIsBlock
    <3>2. CASE RegAdd1(t)
      BY <3>1, <3>2 DEF RegAdd1
    <3>3. CASE RegAdd2(t)
      BY <3>1, <3>3 DEF RegAdd2
    <3>4. QED
      BY <3>2, <3>3
  <2>2. [L |-> blk[t].L, R |-> right[t]] = blk[t] /\ blk[t] \in Block
    BY <1>1, FrameIsBlock
  <2>3. QED
    BY <1>2, <2>1, <2>2, AddToTable
<1>4. /\ UNCHANGED <<init, mutex, heap, live, frames>>
      /\ fails' \in {fails, fails + 1} /\ (fails' = fails + 1 => fails < MaxFail)
      /\ crashed' \in {"no", "segv"}
      /\ \/ UNCHANGED pc
         \/ \E there \in Registers : pc' = [pc EXCEPT ![t] = there]
  <2>1. fails \in Nat
    BY <1>2 DEF TypeOK
  <2>2. CASE RegAdd1(t)
    <3>2. \/ crashed' = "segv" /\ UNCHANGED <<pc, fails>>
          \/ /\ \E there \in Registers : pc' = [pc EXCEPT ![t] = there]
             /\ UNCHANGED <<fails, crashed>>
          \/ /\ \E there \in Registers : pc' = [pc EXCEPT ![t] = there]
             /\ fails < MaxFail /\ fails' = fails + 1 /\ UNCHANGED crashed
      BY <2>2 DEF RegAdd1, Goto, Registers
    <3>3. crashed = "no" /\ UNCHANGED <<init, mutex, heap, live, frames>>
      BY <2>2 DEF RegAdd1, At
    <3>4. QED
      BY <2>1, <3>2, <3>3
  <2>3. CASE RegAdd2(t)
    <3>1. \/ crashed' = "segv" /\ UNCHANGED pc
          \/ /\ \E there \in Registers : pc' = [pc EXCEPT ![t] = there]
             /\ UNCHANGED crashed
      BY <2>3 DEF RegAdd2, Goto, Registers
    <3>2. crashed = "no" /\ UNCHANGED <<init, mutex, heap, live, fails, frames>>
      BY <2>3 DEF RegAdd2, At
    <3>3. QED
      BY <2>1, <3>1, <3>2
  <2>4. QED
    BY <2>2, <2>3
<1>5. TypeOK'
  <2>1. fails' \in 0 .. MaxFail
    BY <1>2, <1>4, FlagAssumption DEF TypeOK
  <2>2. pc' \in [Thread -> PC]
    BY <1>2, <1>4 DEF TypeOK, PC, Registers
  <2>3. QED
    BY <1>2, <1>3, <1>4, <2>1, <2>2 DEF TypeOK, frames
<1>6. FrameOK'
  <2>1. CASE UNCHANGED pc
    BY <1>2, <1>4, <2>1 DEF FrameOK, FrameOf, frames
  <2>2. CASE \E there \in Registers : pc' = [pc EXCEPT ![t] = there]
    BY <1>1, <1>2, <1>4, <2>2, FrameOfMove DEF PC, Registers, Removes, KnowsRight, Asks
  <2>3. QED
    BY <1>4, <2>1, <2>2
<1>7. QED
  BY <1>5, <1>6 DEF TInv

\* A denied registration frees its block.
LEMMA DeniedTyped ==
  ASSUME TInv, NEW t \in Thread, Denied(t)
  PROVE  TInv'
<1>1. blk[t] \in Block
  BY DEF Denied, At, TInv, FrameOK, FrameOf, Registers
<1>2. TypeOK'
  BY <1>1 DEF Denied, At, Goto, TInv, TypeOK, PC, library, frames
<1>3. FrameOK'
  BY FrameOfMove DEF Denied, Goto, TInv, PC, Registers, Removes, KnowsRight, Asks
<1>4. QED
  BY <1>2, <1>3 DEF TInv

-----------------------------------------------------------------------------

\* Removal: the steps that take and give up mutexes ...
LEMMA RemLocksTyped ==
  ASSUME TInv, NEW t \in Thread,
         \/ RemLock1(t) \/ RemSwap(t) \/ RemLock2(t) \/ RemUnlock2(t)
         \/ RemUnlock(t) \/ RemAbort1(t) \/ RemAbort2(t)
  PROVE  TInv'
<1> USE DEF At, Goto, PC, Registers, Removes, KnowsRight, Asks, lockL, lockR
<1>0. TypeOK /\ live \subseteq Block
  BY DEF TInv, TypeOK
<1>1. CASE RemLock1(t)
  BY <1>0, <1>1, LockType, MoveTyped DEF RemLock1
<1>2. CASE RemSwap(t)
  BY <1>0, <1>2, UnlockTypeOnly, MoveTyped DEF RemSwap
<1>3. CASE RemLock2(t)
  BY <1>0, <1>3, LockType, MoveTyped DEF RemLock2
<1>4. CASE RemUnlock2(t)
  <2>1. mutex' \in [Locks -> Thread \cup {NoThread}]
    BY <1>0, <1>4, UnlockTypeOnly DEF RemUnlock2
  <2>2. PICK there \in {"removed", "rem_unlock"} : pc' = [pc EXCEPT ![t] = there]
    BY <1>4 DEF RemUnlock2
  <2>3. QED
    BY <1>0, <1>4, <2>1, <2>2, MoveTyped DEF RemUnlock2
<1>5. CASE RemUnlock(t)
  BY <1>0, <1>5, UnlockTypeOnly, MoveTyped DEF RemUnlock
<1>6. CASE RemAbort1(t)
  BY <1>0, <1>6, UnlockTypeOnly, MoveTyped DEF RemAbort1
<1>7. CASE RemAbort2(t)
  <2>1. mutex' \in [Locks -> Thread \cup {NoThread}]
    <3>1. \/ unlock(t, lockR(t)) \/ unlock(t, lockL(t)) \/ mutex' = mutex
      BY <1>7 DEF RemAbort2
    <3>2. QED
      BY <1>0, <3>1, UnlockTypeOnly DEF TypeOK
  <2>2. QED
    BY <1>0, <1>7, <2>1, MoveTyped DEF RemAbort2
<1>8. QED
  BY <1>1, <1>2, <1>3, <1>4, <1>5, <1>6, <1>7

\* The bucket a removal works on exists.
LEMMA RemoveBuckets ==
  ASSUME TInv, NEW t \in Thread, pc[t] \in Removes
  PROVE  /\ blk[t] \in Block
         /\ getRZAddrBucket(blk[t].L) \in 0 .. (HASHSZ - 1)
         /\ pc[t] \in KnowsRight => getRZAddrBucket(right[t]) \in 0 .. (HASHSZ - 1)
<1>1. blk[t] \in Block /\ (pc[t] \in KnowsRight => right[t] \in {b.R : b \in Block})
  BY DEF TInv, FrameOK, FrameOf
<1>2. QED
  BY <1>1, BucketInRange

\* ... the removal from the left bucket, which finds out the right address ...
LEMMA RemList1Typed ==
  ASSUME TInv, NEW t \in Thread, RemList1(t)
  PROVE  TInv'
<1> DEFINE k == getRZAddrBucket(blk[t].L)
           e == [L |-> blk[t].L, R |-> right[t]]
           removed == removeAddrFromList(table[k], e)
<1>1. TypeOK /\ FrameOK /\ FrameOf(t) /\ pc[t] = "rem_list1"
  BY DEF TInv, FrameOK, RemList1, At
<1>2. k \in 0 .. (HASHSZ - 1) /\ blk[t] \in Block
  BY <1>1, RemoveBuckets DEF Removes
<1>3. /\ table' \in [0 .. (HASHSZ - 1) -> BucketType]
      /\ removed.found = NoEntry \/ removed.found \in Block
  BY <1>1, <1>2, RemoveFromTable DEF RemList1
<1> HIDE DEF removed
<1>4. /\ UNCHANGED <<init, mutex, heap, live, fails, crashed, blk, undo>>
      /\ \/ pc' = [pc EXCEPT ![t] = "rem_abort1"] /\ right' = right
         \/ /\ \E there \in {"rem_unlock", "rem_list2", "rem_swap"} :
                 pc' = [pc EXCEPT ![t] = there]
            /\ right' = [right EXCEPT ![t] = IF undo[t] THEN right[t] ELSE removed.found.R]
            /\ removed.found # NoEntry
  BY DEF RemList1, Goto, removed
<1>5. PICK there \in {"rem_abort1", "rem_unlock", "rem_list2", "rem_swap"} :
        pc' = [pc EXCEPT ![t] = there]
  BY <1>4
<1>6. /\ right'[t] \in {NULL} \cup {b.R : b \in Block}
      /\ undo[t] => right'[t] = right[t]
      /\ there \in KnowsRight => right'[t] \in {b.R : b \in Block}
      /\ \A u \in Thread \ {t} : right'[u] = right[u]
      /\ right' \in [Thread -> {NULL} \cup {b.R : b \in Block}]
  <2>1. CASE right' = right /\ there = "rem_abort1"
    BY <1>1, <2>1 DEF TypeOK, KnowsRight, Asks
  <2>2. CASE /\ right' = [right EXCEPT ![t] = IF undo[t] THEN right[t] ELSE removed.found.R]
             /\ removed.found # NoEntry
    <3>1. undo[t] => right[t] = blk[t].R
      BY <1>1 DEF FrameOf, Removes
    <3>2. right'[t] \in {b.R : b \in Block}
      BY <1>1, <1>2, <1>3, <2>2, <3>1 DEF TypeOK
    <3>3. QED
      BY <1>1, <2>2, <3>2 DEF TypeOK
  <2>3. there = "rem_abort1" <=> pc' = [pc EXCEPT ![t] = "rem_abort1"]
    BY <1>1, <1>5 DEF TypeOK
  <2>4. QED
    BY <1>4, <1>5, <2>1, <2>2, <2>3
<1>7. TypeOK'
  BY <1>1, <1>3, <1>4, <1>5, <1>6 DEF TypeOK, PC
<1>8. FrameOf(t)'
  BY <1>1, <1>2, <1>4, <1>5, <1>6 DEF TypeOK, FrameOf, Registers, Removes, KnowsRight, Asks
<1>9. FrameOK'
  BY <1>1, <1>4, <1>5, <1>6, <1>8, FrameOfOthers DEF PC
<1>10. QED
  BY <1>7, <1>9 DEF TInv

\* ... the removal from the right one ...
LEMMA RemList2Typed ==
  ASSUME TInv, NEW t \in Thread, RemList2(t)
  PROVE  TInv'
<1>1. TypeOK /\ FrameOK /\ pc[t] = "rem_list2"
  BY DEF TInv, RemList2, At
<1>2. getRZAddrBucket(right[t]) \in 0 .. (HASHSZ - 1)
  BY <1>1, RemoveBuckets DEF Removes, KnowsRight, Asks
<1>3. table' \in [0 .. (HASHSZ - 1) -> BucketType]
  BY <1>1, <1>2, RemoveFromTable DEF RemList2
<1>4. PICK there \in {"rem_abort2", "rem_unlock2"} : pc' = [pc EXCEPT ![t] = there]
  BY DEF RemList2, Goto
<1>5. UNCHANGED <<init, mutex, heap, live, fails, crashed, frames>>
  BY DEF RemList2
<1>6. TypeOK'
  BY <1>1, <1>3, <1>4, <1>5 DEF TypeOK, PC, frames
<1>7. FrameOK'
  BY <1>1, <1>4, <1>5, FrameOfMove DEF PC, Registers, Removes, KnowsRight, Asks
<1>8. QED
  BY <1>6, <1>7 DEF TInv

\* ... and the return, to the program or to the rollback.
LEMMA RemovedTyped ==
  ASSUME TInv, NEW t \in Thread, Removed(t)
  PROVE  TInv'
<1>1. blk[t] \in Block /\ pc[t] = "removed" /\ TypeOK /\ FrameOK
  BY DEF Removed, At, TInv, FrameOK, FrameOf, Removes
<1>2. PICK there \in {"denied", "idle"} :
        pc' = [pc EXCEPT ![t] = there] /\ (there = "denied" => undo[t])
  BY DEF Removed, Goto
<1>3. TypeOK'
  BY <1>1, <1>2 DEF Removed, At, TypeOK, PC, library, frames
<1>4. FrameOf(t)'
  BY <1>1, <1>2 DEF Removed, frames, TypeOK, FrameOK, FrameOf, Registers, Removes, KnowsRight, Asks
<1>5. FrameOK'
  BY <1>1, <1>2, <1>4, FrameOfOthers DEF Removed, frames, PC
<1>6. QED
  BY <1>3, <1>5 DEF TInv

-----------------------------------------------------------------------------

\* The types and frames hold at first ...
LEMMA InitTyped == Init => TInv
<1>1. SUFFICES ASSUME Init PROVE TypeOK /\ FrameOK
  BY DEF TInv
<1>2. EmptyBucket \in BucketType
  <2>1. <<>> \in Seq(Block)
    BY EmptySeq
  <2>2. QED
    BY <2>1 DEF EmptyBucket, BucketType
<1>3. TypeOK
  <2>1. 0 \in 0 .. MaxFail
    BY FlagAssumption
  <2>2. table \in [0 .. (HASHSZ - 1) -> BucketType]
    BY <1>1, <1>2 DEF Init
  <2>3. init \in {0, 1} /\ mutex \in [Locks -> Thread \cup {NoThread}]
    BY <1>1 DEF Init
  <2>4. /\ pc \in [Thread -> PC]
        /\ blk \in [Thread -> Block \cup {NoBlock}]
        /\ right \in [Thread -> {NULL} \cup {b.R : b \in Block}]
        /\ undo \in [Thread -> BOOLEAN]
    BY <1>1 DEF Init, PC
  <2>5. QED
    BY <1>1, <2>1, <2>2, <2>3, <2>4 DEF Init, TypeOK
<1>4. FrameOK
  BY <1>1 DEF Init, FrameOK, FrameOf, Registers, Removes, KnowsRight, Asks
<1>5. QED
  BY <1>3, <1>4

\* ... and every step keeps them.
LEMMA StepTyped == TInv /\ [Next]_vars => TInv'
<1>1. SUFFICES ASSUME TInv, [Next]_vars PROVE TInv'
  OBVIOUS
<1>2. CASE UNCHANGED vars
  BY <1>1, <1>2 DEF vars, TInv, TypeOK, FrameOK, FrameOf
<1>3. ASSUME NEW t \in Thread, Call(t) PROVE TInv'
  BY <1>1, <1>3, CallTyped, MallocTyped, FreeTyped DEF Call
<1>4. ASSUME NEW t \in Thread, Registering(t) PROVE TInv'
  BY <1>1, <1>4, RegLocksTyped, RegAddTyped, RegUndoTyped, DeniedTyped DEF Registering
<1>5. ASSUME NEW t \in Thread, Removing(t) PROVE TInv'
  BY <1>1, <1>5, RemLocksTyped, RemList1Typed, RemList2Typed, RemovedTyped DEF Removing
<1>6. ASSUME NEW t \in Thread, initLib(t) \/ ReturnAtOnce(t) PROVE TInv'
  BY <1>1, <1>6, CallTyped
<1>7. QED
  BY <1>1, <1>2, <1>3, <1>4, <1>5, <1>6 DEF Next, Proceed

\* Whatever the threads call and however their steps interleave, node
\* allocations that fail and unlocks that are refused included, every
\* variable keeps its type and every call the addresses of a block.
THEOREM TypeCorrect == Spec => []TInv
<1>1. QED
  BY InitTyped, StepTyped, PTL DEF Spec

\* The type invariant the runs check.
THEOREM TypesOK == Spec => []TypeOK
<1>1. TInv => TypeOK
  BY DEF TInv
<1>2. QED
  BY <1>1, TypeCorrect, PTL

-----------------------------------------------------------------------------
(***************************************************************************)
(* Mutual exclusion.  It needs the library to be initialised before the    *)
(* threads run (initLib frees mutexes that are held), and either a         *)
(* platform whose unlock refuses a mutex the caller does not hold, or a    *)
(* program none of whose blocks spans two buckets: removeAddr unlocks the  *)
(* left bucket's mutex twice for the others.                               *)
(***************************************************************************)

NoStrayUnlock == OwnerChecked \/ \A b \in Block : ~Cross(b)

CrossPCs == {"reg_swap", "reg_lock2", "reg_add2", "reg_undo", "rem_swap", "rem_lock2",
             "rem_list2", "rem_unlock2", "rem_abort2"}

\* A thread in a section holds the section's mutex; where unlock is not
\* checked it must also still hold it at the final unlock of removeAddr.
Holds(t, l) ==
  InSection(t, l) \/ (~OwnerChecked /\ pc[t] = "rem_unlock" /\ l = lockL(t))

SectionsHeld == \A t \in Thread, l \in Locks : Holds(t, l) => mutex[l] = t

SInv ==
  /\ init = 1 /\ \A t \in Thread : pc[t] \notin {"initLib", "called"}
  /\ SectionsHeld
  /\ ~OwnerChecked => \A t \in Thread : pc[t] \notin CrossPCs

\* A step of t that disturbs no mutex of another thread keeps the sections of
\* the others; what remains is its own new position.
LEMMA SectionsKept ==
  ASSUME TInv, SInv, NEW t \in Thread, NEW there \in PC \ {"initLib", "called"},
         pc' = [pc EXCEPT ![t] = there], init' = init,
         \A u \in Thread \ {t} : blk'[u] = blk[u] /\ right'[u] = right[u],
         \A m \in Locks : mutex[m] \in Thread \ {t} => mutex'[m] = mutex[m],
         \A l \in Locks : Holds(t, l)' => mutex'[l] = t,
         ~OwnerChecked => there \notin CrossPCs
  PROVE  SInv'
<1>1. pc'[t] = there /\ \A u \in Thread \ {t} : pc'[u] = pc[u]
  BY DEF TInv, TypeOK
<1>2. SectionsHeld'
  <2>1. SUFFICES ASSUME NEW u \in Thread \ {t}, NEW l \in Locks, Holds(u, l)'
                 PROVE  mutex'[l] = u
    BY DEF SectionsHeld
  <2>2. Holds(u, l)
    BY <1>1, <2>1 DEF Holds, InSection, lockL, lockR
  <2>3. mutex[l] = u
    BY <2>2 DEF SInv, SectionsHeld
  <2>4. QED
    BY <2>3
<1>3. QED
  BY <1>1, <1>2 DEF SInv

\* The locals do not move while a mutex is taken or released.
LEMMA FramesSame ==
  ASSUME UNCHANGED frames
  PROVE  /\ \A u \in Thread : blk'[u] = blk[u] /\ right'[u] = right[u]
         /\ \A u \in Thread : lockL(u)' = lockL(u) /\ lockR(u)' = lockR(u)
BY DEF frames, lockL, lockR

\* Taking a mutex: a thread enters the section of the mutex it now holds.
LEMMA LockSteps ==
  ASSUME TInv, SInv, NEW t \in Thread,
         RegLock1(t) \/ RegLock2(t) \/ RemLock1(t) \/ RemLock2(t)
  PROVE  SInv'
<1>0. TypeOK /\ NoThread \notin Thread
  BY ThreadAssumption DEF TInv
<1>1. PICK there \in {"reg_add1", "reg_add2", "rem_list1", "rem_list2"},
         mem \in {blk[t].L, right[t]} :
        /\ pc' = [pc EXCEPT ![t] = there]
        /\ lock(t, lockOf(mem))
        /\ UNCHANGED <<init, frames>>
        /\ there \in LeftSection => lockOf(mem) = lockL(t)
        /\ there \in RightSection => lockOf(mem) = lockR(t)
        /\ ~OwnerChecked => there \notin CrossPCs
  <2>1. CASE RegLock1(t)
    BY <2>1 DEF RegLock1, Goto, lockL, LeftSection, RightSection, CrossPCs
  <2>2. CASE RegLock2(t)
    BY <2>2 DEF RegLock2, At, Goto, lockR, LeftSection, RightSection, SInv, CrossPCs
  <2>3. CASE RemLock1(t)
    BY <2>3 DEF RemLock1, Goto, lockL, LeftSection, RightSection, CrossPCs
  <2>4. CASE RemLock2(t)
    BY <2>4 DEF RemLock2, At, Goto, lockR, LeftSection, RightSection, SInv, CrossPCs
  <2>5. QED
    BY <2>1, <2>2, <2>3, <2>4
<1>2. mutex'[lockOf(mem)] = t /\ \A m \in Locks : mutex[m] # NoThread => mutex'[m] = mutex[m]
  BY <1>0, <1>1, LockType
<1>3. pc'[t] = there
  BY <1>0, <1>1 DEF TypeOK
<1>4. \A l \in Locks : Holds(t, l)' => mutex'[l] = t
  BY <1>1, <1>2, <1>3, FramesSame DEF Holds, InSection
<1>5. QED
  BY <1>0, <1>1, <1>2, <1>4, FramesSame, SectionsKept DEF PC

\* Releasing a mutex and leaving its section.  Where the platform does not
\* check the owner, the thread must be the owner.
LEMMA ReleaseSteps ==
  ASSUME TInv, SInv, NEW t \in Thread, NEW mem,
         NEW there \in PC \ {"initLib", "called"},
         there \notin LeftSection \cup RightSection \cup CrossPCs
           \/ (OwnerChecked /\ there \notin LeftSection \cup RightSection),
         there = "rem_unlock" => OwnerChecked,
         pc' = [pc EXCEPT ![t] = there], unlock(t, lockOf(mem)), UNCHANGED <<init, blk, right>>,
         OwnerChecked \/ mutex[lockOf(mem)] = t
  PROVE  SInv'
<1>1. TypeOK
  BY DEF TInv
<1>2. \A m \in Locks : mutex[m] # t => mutex'[m] = mutex[m]
  BY <1>1, UnlockType
<1>3. pc'[t] = there
  BY <1>1 DEF TypeOK
<1>4. \A l \in Locks : ~Holds(t, l)'
  BY <1>3 DEF Holds, InSection
<1>5. QED
  BY <1>2, <1>4, SectionsKept

\* At every unlock the thread is in the section of the mutex it releases,
\* except in two cases that need the platform's check.
LEMMA UnlockSteps ==
  ASSUME TInv, SInv, NEW t \in Thread,
         \/ RegSwap(t) \/ RegUnlock(t) \/ RegDeny(t) \/ RegUndo(t) \/ RemSwap(t)
         \/ RemUnlock2(t) \/ RemUnlock(t) \/ RemAbort1(t)
  PROVE  SInv'
<1> USE DEF At, Goto, PC, LeftSection, RightSection, CrossPCs, frames
<1>0. /\ \A l \in Locks : Holds(t, l) => mutex[l] = t
      /\ ~OwnerChecked => pc[t] \notin CrossPCs
      /\ lockL(t) \in Locks /\ lockR(t) \in Locks
      /\ lockL(t) = lockOf(blk[t].L) /\ lockR(t) = lockOf(right[t])
  BY LockExists DEF SInv, SectionsHeld, lockL, lockR
<1>1. CASE RegSwap(t)
  <2>1. PICK there \in {"denied", "reg_lock2"} : pc' = [pc EXCEPT ![t] = there]
    BY <1>1 DEF RegSwap
  <2>2. unlock(t, lockOf(blk[t].L)) /\ UNCHANGED <<init, blk, right>> /\ OwnerChecked
    BY <1>0, <1>1 DEF RegSwap
  <2>3. there \in PC \ {"initLib", "called"} /\ there \notin LeftSection \cup RightSection
        /\ there # "rem_unlock"
    BY <2>1
  <2>4. QED
    BY <2>1, <2>2, <2>3, ReleaseSteps
<1>2. CASE RegUnlock(t)
  <2>1. mutex[lockR(t)] = t
    BY <1>0, <1>2 DEF RegUnlock, Holds, InSection
  <2>2. PICK there \in {"denied", "idle"} : pc' = [pc EXCEPT ![t] = there]
    BY <1>2 DEF RegUnlock
  <2>3. unlock(t, lockOf(right[t])) /\ UNCHANGED <<init, blk, right>>
    BY <1>0, <1>2 DEF RegUnlock
  <2>4. there \in PC \ {"initLib", "called"} /\ there # "rem_unlock"
        /\ there \notin LeftSection \cup RightSection \cup CrossPCs
    BY <2>2
  <2>5. QED
    BY <1>0, <2>1, <2>2, <2>3, <2>4, ReleaseSteps
<1>3. CASE RegDeny(t)
  <2>1. mutex[lockL(t)] = t
    BY <1>0, <1>3 DEF RegDeny, Holds, InSection
  <2>2. QED
    BY <1>0, <1>3, <2>1, ReleaseSteps DEF RegDeny
<1>4. CASE RegUndo(t)
  BY <1>0, <1>4, ReleaseSteps DEF RegUndo
<1>5. CASE RemSwap(t)
  BY <1>0, <1>5, ReleaseSteps DEF RemSwap
<1>6. CASE RemUnlock2(t)
  <2>1. PICK there \in {"removed", "rem_unlock"} : pc' = [pc EXCEPT ![t] = there]
    BY <1>6 DEF RemUnlock2
  <2>2. unlock(t, lockOf(right[t])) /\ UNCHANGED <<init, blk, right>> /\ OwnerChecked
    BY <1>0, <1>6 DEF RemUnlock2
  <2>3. there \in PC \ {"initLib", "called"} /\ there \notin LeftSection \cup RightSection
    BY <2>1
  <2>4. QED
    BY <2>1, <2>2, <2>3, ReleaseSteps
<1>7. CASE RemUnlock(t)
  <2>1. OwnerChecked \/ mutex[lockL(t)] = t
    BY <1>0, <1>7 DEF RemUnlock, Holds
  <2>2. QED
    BY <1>0, <1>7, <2>1, ReleaseSteps DEF RemUnlock
<1>8. CASE RemAbort1(t)
  <2>1. mutex[lockL(t)] = t
    BY <1>0, <1>8 DEF RemAbort1, Holds, InSection
  <2>2. QED
    BY <1>0, <1>8, <2>1, ReleaseSteps DEF RemAbort1
<1>9. QED
  BY <1>1, <1>2, <1>3, <1>4, <1>5, <1>6, <1>7, <1>8

\* The rollback that finds no entry on the right may release the wrong mutex
\* or none: that leaks one, but only a platform that checks gets here.
LEMMA Abort2Step ==
  ASSUME TInv, SInv, NEW t \in Thread, RemAbort2(t)
  PROVE  SInv'
<1>1. OwnerChecked /\ pc' = [pc EXCEPT ![t] = "removed"] /\ UNCHANGED <<init, blk, right>>
  BY DEF RemAbort2, At, Goto, SInv, CrossPCs, frames
<1>2. \/ unlock(t, lockR(t)) \/ unlock(t, lockL(t)) \/ mutex' = mutex
  BY DEF RemAbort2
<1>3. CASE mutex' = mutex
  <2>1. pc'[t] = "removed"
    BY <1>1 DEF TInv, TypeOK
  <2>2. \A l \in Locks : ~Holds(t, l)'
    BY <1>1, <2>1 DEF Holds, InSection, LeftSection, RightSection
  <2>3. QED
    BY <1>1, <1>3, <2>2, SectionsKept DEF PC
<1>4. CASE unlock(t, lockR(t))
  BY <1>1, <1>4, ReleaseSteps DEF lockR, PC, LeftSection, RightSection
<1>5. CASE unlock(t, lockL(t))
  BY <1>1, <1>5, ReleaseSteps DEF lockL, PC, LeftSection, RightSection
<1>6. QED
  BY <1>2, <1>3, <1>4, <1>5

\* Steps inside a section keep its mutex; those outside hold none.
LEMMA ListSteps ==
  ASSUME TInv, SInv, NoStrayUnlock, NEW t \in Thread, RegAdd1(t) \/ RegAdd2(t) \/ RemList2(t)
  PROVE  SInv'
<1> USE DEF At, Goto, LeftSection, RightSection
<1>0. /\ \A l \in Locks : Holds(t, l) => mutex[l] = t
      /\ ~OwnerChecked => pc[t] \notin CrossPCs
      /\ lockL(t) \in Locks /\ lockR(t) \in Locks /\ TypeOK
  BY LockExists DEF SInv, SectionsHeld, lockL, lockR, TInv
<1>1. UNCHANGED <<init, mutex, frames>>
  BY DEF RegAdd1, RegAdd2, RemList2
<1>2. \/ UNCHANGED pc
      \/ /\ pc[t] \in RightSection
         /\ OwnerChecked
         /\ \E there \in {"reg_undo", "reg_unlock", "rem_abort2", "rem_unlock2"} :
               pc' = [pc EXCEPT ![t] = there]
      \/ /\ pc[t] = "reg_add1"
         /\ \/ ~CrossCall(t) /\ pc' = [pc EXCEPT ![t] = "reg_unlock"]
            \/ CrossCall(t) /\ TwoLocks(t) /\ pc' = [pc EXCEPT ![t] = "reg_swap"]
            \/ CrossCall(t) /\ ~TwoLocks(t) /\ pc' = [pc EXCEPT ![t] = "reg_add2"]
            \/ pc' = [pc EXCEPT ![t] = "reg_deny"]
  <2>1. CASE RegAdd1(t)
    BY <2>1 DEF RegAdd1
  <2>2. CASE RegAdd2(t)
    BY <1>0, <2>2 DEF RegAdd2, CrossPCs
  <2>3. CASE RemList2(t)
    BY <1>0, <2>3 DEF RemList2, CrossPCs
  <2>4. QED
    BY <2>1, <2>2, <2>3
<1>3. CASE UNCHANGED pc
  BY <1>1, <1>3 DEF SInv, SectionsHeld, Holds, InSection, lockL, lockR, frames
<1>4. CASE /\ pc[t] \in RightSection
           /\ OwnerChecked
           /\ \E there \in {"reg_undo", "reg_unlock", "rem_abort2", "rem_unlock2"} :
                 pc' = [pc EXCEPT ![t] = there]
  <2>1. mutex[lockR(t)] = t
    BY <1>0, <1>4 DEF Holds, InSection
  <2>2. PICK there \in {"reg_undo", "reg_unlock", "rem_abort2", "rem_unlock2"} :
           pc' = [pc EXCEPT ![t] = there]
    BY <1>4
  <2>3. pc'[t] = there
    BY <1>0, <2>2 DEF TypeOK
  <2>4. \A l \in Locks : Holds(t, l)' => mutex'[l] = t
    BY <1>1, <1>4, <2>1, <2>3, FramesSame DEF Holds, InSection
  <2>5. QED
    BY <1>1, <1>4, <2>2, <2>4, FramesSame, SectionsKept DEF PC
<1>5. CASE /\ pc[t] = "reg_add1"
           /\ \/ ~CrossCall(t) /\ pc' = [pc EXCEPT ![t] = "reg_unlock"]
              \/ CrossCall(t) /\ TwoLocks(t) /\ pc' = [pc EXCEPT ![t] = "reg_swap"]
              \/ CrossCall(t) /\ ~TwoLocks(t) /\ pc' = [pc EXCEPT ![t] = "reg_add2"]
              \/ pc' = [pc EXCEPT ![t] = "reg_deny"]
  <2>1. mutex[lockL(t)] = t
    BY <1>0, <1>5 DEF Holds, InSection
  <2>2. blk[t] \in Block /\ right[t] = blk[t].R
    BY <1>5 DEF TInv, FrameOK, FrameOf, Registers
  <2>3. CrossCall(t) => OwnerChecked
    BY <2>2 DEF CrossCall, NoStrayUnlock, Cross
  <2>4. ~CrossCall(t) => lockR(t) = lockL(t)
    BY DEF CrossCall, lockL, lockR, lockOf
  <2>5. PICK there \in {"reg_unlock", "reg_swap", "reg_add2", "reg_deny"} :
          /\ pc' = [pc EXCEPT ![t] = there]
          /\ there \in RightSection => lockR(t) = lockL(t)
          /\ ~OwnerChecked => there \notin CrossPCs
    BY <1>5, <2>3, <2>4 DEF TwoLocks, CrossPCs
  <2>6. pc'[t] = there
    BY <1>0, <2>5 DEF TypeOK
  <2>7. \A l \in Locks : Holds(t, l)' => mutex'[l] = t
    BY <1>1, <2>1, <2>5, <2>6, FramesSame DEF Holds, InSection
  <2>8. QED
    BY <1>1, <2>5, <2>7, FramesSame, SectionsKept DEF PC
<1>6. QED
  BY <1>2, <1>3, <1>4, <1>5

\* The right red zone removeAddr recovers lies in the left one's bucket when
\* no block spans two: the entry found is one with the left red zone asked
\* for, since no entry has a NULL right one.
LEMMA RecoveredBucket ==
  ASSUME TInv, NEW t \in Thread, pc[t] = "rem_list1", \A b \in Block : ~Cross(b),
         NEW found \in Block, SameRedZone(found, [L |-> blk[t].L, R |-> right[t]])
  PROVE  getRZAddrBucket(IF undo[t] THEN right[t] ELSE found.R) = getRZAddrBucket(blk[t].L)
<1>1. FrameOf(t) /\ blk[t] \in Block
  BY DEF TInv, FrameOK, FrameOf, Removes
<1>2. CASE undo[t]
  <2>1. right[t] = blk[t].R
    BY <1>1, <1>2 DEF FrameOf, Removes
  <2>2. QED
    BY <1>1, <1>2, <2>1 DEF Cross
<1>3. CASE ~undo[t]
  <2>1. right[t] = NULL
    BY <1>1, <1>3 DEF FrameOf, Asks
  <2>2. found.L = blk[t].L
    BY <2>1, BlockIsRecord DEF SameRedZone
  <2>3. QED
    BY <1>3, <2>2 DEF Cross
<1>4. QED
  BY <1>2, <1>3

\* The removal from the left bucket goes on in the section of the right one or not.
LEMMA RemList1Step ==
  ASSUME TInv, SInv, NoStrayUnlock, NEW t \in Thread, RemList1(t)
  PROVE  SInv'
<1> DEFINE k == getRZAddrBucket(blk[t].L)
           e == [L |-> blk[t].L, R |-> right[t]]
           found == removeAddrFromList(table[k], e).found
           r == IF undo[t] THEN right[t] ELSE found.R
<1>1. TypeOK /\ pc[t] = "rem_list1" /\ UNCHANGED <<init, mutex, blk>>
  BY DEF RemList1, At, TInv
<1>2. mutex[lockL(t)] = t
  BY <1>1, LockExists DEF SInv, SectionsHeld, Holds, InSection, LeftSection, lockL
<1>3. found = NoEntry \/ (found \in Block /\ SameRedZone(found, e))
  <2>1. k \in 0 .. (HASHSZ - 1)
    BY <1>1, RemoveBuckets DEF Removes
  <2>2. QED
    BY <1>1, <2>1, RemoveFromTable
<1> HIDE DEF found
<1>4. \/ pc' = [pc EXCEPT ![t] = "rem_abort1"] /\ right' = right
      \/ /\ found # NoEntry
         /\ right' = [right EXCEPT ![t] = r]
         /\ \/ getRZAddrBucket(r) = k /\ pc' = [pc EXCEPT ![t] = "rem_unlock"]
            \/ /\ getRZAddrBucket(r) # k
               /\ \/ lockOf(r) = lockL(t) /\ pc' = [pc EXCEPT ![t] = "rem_list2"]
                  \/ lockOf(r) # lockL(t) /\ pc' = [pc EXCEPT ![t] = "rem_swap"]
  BY DEF RemList1, Goto, found
<1>5. found # NoEntry /\ getRZAddrBucket(r) # k => OwnerChecked
  <2>1. SUFFICES ASSUME found # NoEntry, \A b \in Block : ~Cross(b) PROVE getRZAddrBucket(r) = k
    BY DEF NoStrayUnlock
  <2>2. found \in Block /\ SameRedZone(found, e)
    BY <1>3, <2>1
  <2>3. QED
    BY <1>1, <2>1, <2>2, RecoveredBucket
<1> HIDE DEF r, k
<1>6. PICK there \in {"rem_abort1", "rem_unlock", "rem_list2", "rem_swap"} :
        /\ pc' = [pc EXCEPT ![t] = there]
        /\ there = "rem_list2" => right' = [right EXCEPT ![t] = r] /\ lockOf(r) = lockL(t)
        /\ ~OwnerChecked => there \notin CrossPCs
        /\ \A u \in Thread \ {t} : right'[u] = right[u]
  BY <1>1, <1>4, <1>5 DEF TypeOK, CrossPCs
<1>7. pc'[t] = there /\ (there = "rem_list2" => right'[t] = r)
  BY <1>1, <1>6 DEF TypeOK
<1>8. \A l \in Locks : Holds(t, l)' => l = lockL(t)
  <2>1. lockL(t)' = lockL(t)
    BY <1>1 DEF lockL
  <2>2. there = "rem_list2" => lockR(t)' = lockL(t)
    BY <1>6, <1>7 DEF lockR
  <2>3. QED
    BY <1>7, <2>1, <2>2 DEF Holds, InSection, LeftSection, RightSection
<1>9. QED
  BY <1>1, <1>2, <1>6, <1>8, SectionsKept DEF PC

\* A call begins and ends outside every section.
LEMMA CallSteps ==
  ASSUME TInv, SInv, NEW t \in Thread, Call(t) \/ Denied(t) \/ Removed(t)
  PROVE  SInv'
<1>1. PICK there \in {"reg_lock1", "denied", "rem_lock1", "idle"} :
        pc' = [pc EXCEPT ![t] = there]
  <2>1. CASE Call(t)
    BY <2>1 DEF Call, EnterUninitialised, Dlib_malloc, Dlib_free, Goto, SInv
  <2>2. CASE Denied(t) \/ Removed(t)
    BY <2>2 DEF Denied, Removed, Goto
  <2>3. QED
    BY <2>1, <2>2
<1>2. UNCHANGED <<init, mutex>> /\ TypeOK
  BY DEF Call, EnterUninitialised, Dlib_malloc, Dlib_free, Denied, Removed, library, TInv, SInv
<1>3. \A u \in Thread \ {t} : blk'[u] = blk[u] /\ right'[u] = right[u]
  <2>1. CASE Call(t)
    BY <1>2, <2>1 DEF Call, EnterUninitialised, Dlib_malloc, Dlib_free, SInv, TypeOK
  <2>2. CASE Denied(t) \/ Removed(t)
    BY <2>2 DEF Denied, Removed, frames
  <2>3. QED
    BY <2>1, <2>2
<1>4. pc'[t] = there
  BY <1>1, <1>2 DEF TypeOK
<1>5. \A l \in Locks : ~Holds(t, l)'
  BY <1>4 DEF Holds, InSection, LeftSection, RightSection
<1>6. QED
  BY <1>1, <1>2, <1>3, <1>5, SectionsKept DEF PC, CrossPCs

\* No thread is in a section at first ...
LEMMA InitSections ==
  ASSUME PreInit, Init
  PROVE  SInv
BY DEF Init, SInv, SectionsHeld, Holds, InSection, LeftSection, RightSection, CrossPCs

\* ... and every step keeps the sections held.
LEMMA StepSections ==
  ASSUME TInv, SInv, NoStrayUnlock, [Next]_vars
  PROVE  SInv'
<1>1. CASE UNCHANGED vars
  BY <1>1 DEF vars, SInv, SectionsHeld, Holds, InSection, lockL, lockR
<1>2. ASSUME NEW t \in Thread, Call(t) PROVE SInv'
  BY <1>2, CallSteps
<1>3. ASSUME NEW t \in Thread, initLib(t) \/ ReturnAtOnce(t) PROVE SInv'
  BY <1>3 DEF initLib, ReturnAtOnce, At, SInv
<1>4. ASSUME NEW t \in Thread, Registering(t) PROVE SInv'
  BY <1>4, LockSteps, UnlockSteps, ListSteps, CallSteps DEF Registering
<1>5. ASSUME NEW t \in Thread, Removing(t) PROVE SInv'
  BY <1>5, LockSteps, UnlockSteps, ListSteps, RemList1Step, Abort2Step, CallSteps DEF Removing
<1>6. QED
  BY <1>1, <1>2, <1>3, <1>4, <1>5 DEF Next, Proceed

\* The mutexes protect the lists: for any number of threads, even when node
\* allocations fail, no two threads work on a bucket of the same mutex,
\* provided the library was initialised first and no unlock goes astray.
THEOREM MutexesExclude ==
  ASSUME PreInit, NoStrayUnlock
  PROVE  Spec => []MutualExclusion
<1>1. Init => SInv
  BY InitSections
<1>2. TInv /\ SInv /\ [Next]_vars => SInv'
  BY StepSections
<1>3. SInv => MutualExclusion
  BY DEF SInv, SectionsHeld, Holds, MutualExclusion
<1>4. QED
  BY <1>1, <1>2, <1>3, TypeCorrect, PTL DEF Spec

\* Where a thread is while its block is in the list of the left bucket, ...
LeftListed == {"reg_swap", "reg_lock2", "reg_add2", "reg_unlock", "rem_lock1", "rem_list1"}

\* ... and while it is in that of the right one.  (A block of one bucket is never at
\* a position where the two sets differ.)
RightListed == {"reg_unlock", "rem_lock1", "rem_list1", "rem_swap", "rem_lock2", "rem_list2"}

\* The positions of calls none of whose steps failed.
Undisturbed == {"reg_lock1", "reg_add1", "rem_unlock2", "rem_unlock", "removed"}
                 \cup LeftListed \cup RightListed

leftBucket(b)  == getRZAddrBucket(b.L)
rightBucket(b) == getRZAddrBucket(b.R)

InLeft(b)  == b \in live \/ \E t \in Thread : blk[t] = b /\ pc[t] \in LeftListed
InRight(b) == b \in live \/ \E t \in Thread : blk[t] = b /\ pc[t] \in RightListed

\* The blocks that the list of bucket k must hold.
Shown(k) == {b \in heap : (k = leftBucket(b) /\ InLeft(b)) \/ (k = rightBucket(b) /\ InRight(b))}

\* A thread in a call owns its block: no other thread and not the program.
CallInOrder(t) ==
  pc[t] # "idle" =>
    /\ pc[t] \in Undisturbed /\ ~undo[t]
    /\ blk[t] \in heap /\ blk[t] \notin live
    /\ pc[t] \in CrossPCs => Cross(blk[t])
    /\ pc[t] \in KnowsRight => right[t] = blk[t].R
    /\ \A u \in Thread : pc[u] # "idle" /\ blk[u] = blk[t] => u = t
CallsInOrder == \A t \in Thread : CallInOrder(t)

HeapInOrder == live \subseteq heap /\ \A b, c \in heap : b # c => Disjoint(b, c)

TableInOrder ==
  \A k \in 0 .. (HASHSZ - 1) : Orderly(table[k]) /\ Entries(table[k]) = Shown(k)

Content == crashed = "no" /\ CallsInOrder /\ HeapInOrder /\ TableInOrder

\* The invariant: everything is in its place until a node allocation fails.
ContentInv == fails = 0 => Content

-----------------------------------------------------------------------------

\* Two blocks of the heap that are disjoint are apart, and no block is disjoint
\* from itself.
LEMMA DisjointApart ==
  ASSUME NEW b \in Block, NEW c \in Block, Disjoint(b, c)
  PROVE  Apart(b, c) /\ Apart(c, b) /\ b # c
<1>1. /\ b.L \in Nat /\ b.R \in Nat /\ b.L + RZ < b.R /\ RZ \in Nat \ {0}
      /\ c.L \in Nat /\ c.R \in Nat /\ c.L + RZ < c.R
  BY BlockBounds
<1>2. b.R + RZ <= c.L \/ c.R + RZ <= b.L
  BY DEF Disjoint
<1>3. Apart(b, c) /\ Apart(c, b)
  BY <1>2 DEF Apart
<1>4. b.L # c.L
  BY <1>1, <1>2
<1> QED
  BY <1>3, <1>4

\* A step moves one thread t, and what changes in the heap and in the program's
\* hands is t's block b.
StepOf(t, b, there) ==
  /\ pc' = [pc EXCEPT ![t] = there]
  /\ blk' \in [Thread -> Block \cup {NoBlock}] /\ blk'[t] = b
  /\ \A u \in Thread \ {t} : blk'[u] = blk[u] /\ right'[u] = right[u] /\ undo'[u] = undo[u]
  /\ pc[t] # "idle" => blk[t] = b
  /\ \A c : c # b => (c \in heap' <=> c \in heap) /\ (c \in live' <=> c \in live)

\* Such a step leaves the other blocks where they are listed.
LEMMA OthersShown ==
  ASSUME TypeOK, NEW t \in Thread, NEW b, NEW there \in PC, StepOf(t, b, there),
         NEW c, c # b
  PROVE  \A k : c \in Shown(k)' <=> c \in Shown(k)
<1>1. pc'[t] = there /\ \A u \in Thread \ {t} : pc'[u] = pc[u]
  BY DEF TypeOK, StepOf
<1>2. /\ c \in heap' <=> c \in heap
      /\ c \in live' <=> c \in live
      /\ blk'[t] # c /\ (pc[t] # "idle" => blk[t] # c)
      /\ \A u \in Thread \ {t} : blk'[u] = blk[u]
  BY DEF StepOf
<1>3. InLeft(c)' <=> InLeft(c)
  BY <1>1, <1>2 DEF InLeft, LeftListed
<1>4. InRight(c)' <=> InRight(c)
  BY <1>1, <1>2 DEF InRight, RightListed
<1> QED
  BY <1>2, <1>3, <1>4 DEF Shown, leftBucket, rightBucket

\* A block only one thread owns is listed where that thread left it.
LEMMA OwnShown ==
  ASSUME NEW t \in Thread, CallInOrder(t), pc[t] # "idle", NEW k
  PROVE  blk[t] \in Shown(k) <=> \/ k = leftBucket(blk[t]) /\ pc[t] \in LeftListed
                                 \/ k = rightBucket(blk[t]) /\ pc[t] \in RightListed
<1>1. /\ blk[t] \in heap /\ blk[t] \notin live
      /\ \A u \in Thread : pc[u] # "idle" /\ blk[u] = blk[t] => u = t
  BY DEF CallInOrder
<1>2. InLeft(blk[t]) <=> pc[t] \in LeftListed
  BY <1>1 DEF InLeft, LeftListed
<1>3. InRight(blk[t]) <=> pc[t] \in RightListed
  BY <1>1 DEF InRight, RightListed
<1> QED
  BY <1>1, <1>2, <1>3 DEF Shown

\* The calls of the others stay in order.
LEMMA OthersInOrder ==
  ASSUME TypeOK, CallsInOrder, NEW t \in Thread, NEW b, NEW there \in PC, StepOf(t, b, there),
         \A u \in Thread \ {t} : pc[u] # "idle" => blk[u] # b,
         NEW u \in Thread \ {t}
  PROVE  CallInOrder(u)'
<1>1. pc'[t] = there /\ \A v \in Thread \ {t} : pc'[v] = pc[v]
  BY DEF TypeOK, StepOf
<1>2. CallInOrder(u)
  BY DEF CallsInOrder
<1>3. /\ \A v \in Thread \ {t} : blk'[v] = blk[v]
      /\ blk'[t] = b /\ right'[u] = right[u] /\ undo'[u] = undo[u]
      /\ \A c : c # b => (c \in heap' <=> c \in heap) /\ (c \in live' <=> c \in live)
  BY DEF StepOf
<1> QED
  BY <1>1, <1>2, <1>3 DEF CallInOrder, Cross

\* Where the list of bucket k must hold t's block b after a step of t.
ListedAfter(b, there, k) ==
  /\ b \in heap'
  /\ \/ k = leftBucket(b) /\ (b \in live' \/ there \in LeftListed)
     \/ k = rightBucket(b) /\ (b \in live' \/ there \in RightListed)

\* What has to be shown of a step of a thread t on its block b: the call stays in
\* order, and the lists change by b alone, where t's new position says.
LEMMA KeepsContent ==
  ASSUME TypeOK, Content, NEW t \in Thread, NEW b \in Block, NEW there \in PC,
         StepOf(t, b, there), crashed' = "no", HeapInOrder',
         \A u \in Thread \ {t} : pc[u] # "idle" => blk[u] # b,
         there # "idle" => /\ there \in Undisturbed /\ ~undo'[t]
                           /\ b \in heap' /\ b \notin live'
                           /\ there \in CrossPCs => Cross(b)
                           /\ there \in KnowsRight => right'[t] = b.R,
         \A k \in 0 .. (HASHSZ - 1) :
            /\ Orderly(table'[k])
            /\ Entries(table'[k]) \ {b} = Entries(table[k]) \ {b}
            /\ b \in Entries(table'[k]) <=> ListedAfter(b, there, k)
  PROVE  Content'
<1>1. pc'[t] = there /\ \A u \in Thread \ {t} : pc'[u] = pc[u]
  BY DEF TypeOK, StepOf
<1>2. blk'[t] = b /\ \A u \in Thread \ {t} : blk'[u] = blk[u]
  BY DEF StepOf
<1>3. CallsInOrder'
  <2>1. ASSUME NEW u \in Thread, u # t PROVE CallInOrder(u)'
    BY <2>1, OthersInOrder DEF Content
  <2>2. CallInOrder(t)'
    BY <1>1, <1>2 DEF CallInOrder, Cross
  <2> QED
    BY <2>1, <2>2 DEF CallsInOrder
<1>4. ASSUME NEW k PROVE b \in Shown(k)' <=> ListedAfter(b, there, k)
  <2>1. InLeft(b)' <=> b \in live' \/ there \in LeftListed
    BY <1>1, <1>2 DEF InLeft, LeftListed
  <2>2. InRight(b)' <=> b \in live' \/ there \in RightListed
    BY <1>1, <1>2 DEF InRight, RightListed
  <2> QED
    BY <2>1, <2>2 DEF Shown, ListedAfter, leftBucket, rightBucket
<1>5. TableInOrder'
  <2> SUFFICES ASSUME NEW k \in 0 .. (HASHSZ - 1)
               PROVE  Orderly(table'[k]) /\ Entries(table'[k]) = Shown(k)'
    BY DEF TableInOrder, Orderly, Entries
  <2>1. \A c : c # b => (c \in Shown(k)' <=> c \in Shown(k))
    BY OthersShown
  <2>2. Entries(table[k]) = Shown(k)
    BY DEF Content, TableInOrder
  <2>3. \A c : c # b => (c \in Entries(table'[k]) <=> c \in Entries(table[k]))
    OBVIOUS
  <2>4. \A c : c \in Entries(table'[k]) <=> c \in Shown(k)'
    BY <1>4, <2>1, <2>2, <2>3
  <2> QED
    BY <2>4
<1> QED
  BY <1>3, <1>5 DEF Content

-----------------------------------------------------------------------------

\* Nothing is allocated and nothing listed before the first call.
LEMMA InitContent == Init => Content
<1> SUFFICES ASSUME Init PROVE Content
  OBVIOUS
<1>1. CallsInOrder /\ HeapInOrder
  BY DEF Init, CallsInOrder, CallInOrder, HeapInOrder
<1>2. ASSUME NEW k \in 0 .. (HASHSZ - 1) PROVE Orderly(table[k]) /\ Entries(table[k]) = Shown(k)
  <2>1. table[k] = EmptyBucket /\ heap = {}
    BY DEF Init
  <2> QED
    BY <2>1 DEF EmptyBucket, Orderly, Increasing, Entries, Shown
<1> QED
  BY <1>1, <1>2 DEF Content, TableInOrder, Init

\* The lists where a step leaves the table alone.
LEMMA TableStays ==
  ASSUME Content, NEW t \in Thread, pc[t] # "idle", table' = table,
         NEW k \in 0 .. (HASHSZ - 1)
  PROVE  /\ Orderly(table'[k])
         /\ Entries(table'[k]) \ {blk[t]} = Entries(table[k]) \ {blk[t]}
         /\ blk[t] \in Entries(table'[k]) <=> \/ k = leftBucket(blk[t]) /\ pc[t] \in LeftListed
                                              \/ k = rightBucket(blk[t]) /\ pc[t] \in RightListed
<1>1. Orderly(table[k]) /\ Entries(table[k]) = Shown(k)
  BY DEF Content, TableInOrder
<1>2. CallInOrder(t)
  BY DEF Content, CallsInOrder
<1>3. blk[t] \in Shown(k) <=> \/ k = leftBucket(blk[t]) /\ pc[t] \in LeftListed
                              \/ k = rightBucket(blk[t]) /\ pc[t] \in RightListed
  BY <1>2, OwnShown
<1> QED
  BY <1>1, <1>3

\* Steps of a call that move the thread and leave table, heap and program alone.
LEMMA MoveContent ==
  ASSUME TInv, Content, NEW t \in Thread, pc[t] # "idle", NEW there \in Undisturbed,
         pc' = [pc EXCEPT ![t] = there], UNCHANGED <<table, heap, live, crashed, frames>>,
         there \in LeftListed <=> pc[t] \in LeftListed,
         there \in RightListed <=> pc[t] \in RightListed,
         there \in CrossPCs => pc[t] \in CrossPCs,
         there \in KnowsRight => pc[t] \in KnowsRight
  PROVE  Content'
<1>1. TypeOK /\ CallInOrder(t) /\ there \in PC /\ there # "idle"
  BY DEF TInv, Content, CallsInOrder, Undisturbed, LeftListed, RightListed, PC
<1>2. blk[t] \in heap /\ blk[t] \in Block /\ blk[t] \notin live /\ ~undo[t]
  BY <1>1 DEF CallInOrder, TypeOK
<1>3. StepOf(t, blk[t], there)
  BY <1>1 DEF StepOf, TypeOK, frames
<1>4. \A u \in Thread \ {t} : pc[u] # "idle" => blk[u] # blk[t]
  BY <1>1 DEF CallInOrder
<1>5. HeapInOrder' /\ crashed' = "no"
  BY DEF Content, HeapInOrder
<1>6. /\ there \in CrossPCs => Cross(blk[t])
      /\ there \in KnowsRight => right'[t] = blk[t].R
      /\ ~undo'[t] /\ blk[t] \in heap' /\ blk[t] \notin live'
  BY <1>1, <1>2 DEF CallInOrder, frames
<1>7. \A k \in 0 .. (HASHSZ - 1) :
        /\ Orderly(table'[k])
        /\ Entries(table'[k]) \ {blk[t]} = Entries(table[k]) \ {blk[t]}
        /\ blk[t] \in Entries(table'[k]) <=> ListedAfter(blk[t], there, k)
  BY <1>6, TableStays DEF ListedAfter
<1> QED
  BY <1>1, <1>2, <1>3, <1>4, <1>5, <1>6, <1>7, KeepsContent

\* The mutex of the section a thread is in is its own: its unlock is not refused.
LEMMA NotRefused ==
  ASSUME SInv, NEW t \in Thread
  PROVE  /\ pc[t] \in LeftSection => ~Refused(t, lockL(t))
         /\ pc[t] \in RightSection => ~Refused(t, lockR(t))
<1>1. lockL(t) \in Locks /\ lockR(t) \in Locks
  BY LockExists DEF lockL, lockR
<1> QED
  BY <1>1 DEF SInv, SectionsHeld, Holds, InSection, Refused

\* Taking and releasing mutexes moves no entry.
LEMMA LockMoves ==
  ASSUME TInv, SInv, Content, NEW t \in Thread,
         \/ RegLock1(t) \/ RegSwap(t) \/ RegLock2(t) \/ RemLock1(t) \/ RemSwap(t)
         \/ RemLock2(t) \/ RemUnlock2(t) \/ RemUnlock(t)
  PROVE  Content'
<1> USE DEF At, Goto, Undisturbed, LeftListed, RightListed, CrossPCs, KnowsRight
<1>1. CASE RegLock1(t)
  BY <1>1, MoveContent DEF RegLock1
<1>2. CASE RegSwap(t)
  <2>1. ~Refused(t, lockL(t))
    BY <1>2, NotRefused DEF RegSwap, LeftSection
  <2> QED
    BY <1>2, <2>1, MoveContent DEF RegSwap
<1>3. CASE RegLock2(t)
  BY <1>3, MoveContent DEF RegLock2
<1>4. CASE RemLock1(t)
  BY <1>4, MoveContent DEF RemLock1
<1>5. CASE RemSwap(t)
  BY <1>5, MoveContent DEF RemSwap
<1>6. CASE RemLock2(t)
  BY <1>6, MoveContent DEF RemLock2
<1>7. CASE RemUnlock2(t)
  BY <1>7, MoveContent DEF RemUnlock2
<1>8. CASE RemUnlock(t)
  BY <1>8, MoveContent DEF RemUnlock
<1> QED
  BY <1>1, <1>2, <1>3, <1>4, <1>5, <1>6, <1>7, <1>8

\* The block a thread works on, and its frame.
LEMMA CallFacts ==
  ASSUME TInv, Content, NEW t \in Thread, pc[t] # "idle"
  PROVE  /\ TypeOK /\ pc[t] \in Undisturbed /\ ~undo[t]
         /\ blk[t] \in Block /\ blk[t] \in heap /\ blk[t] \notin live
         /\ leftBucket(blk[t]) \in 0 .. (HASHSZ - 1)
         /\ rightBucket(blk[t]) \in 0 .. (HASHSZ - 1)
         /\ pc[t] \in CrossPCs => leftBucket(blk[t]) # rightBucket(blk[t])
         /\ pc[t] \in Registers \cup KnowsRight => right[t] = blk[t].R
         /\ pc[t] \in Asks => right[t] = NULL
         /\ \A u \in Thread \ {t} : pc[u] # "idle" => blk[u] # blk[t]
<1>1. TypeOK /\ CallInOrder(t) /\ FrameOf(t)
  BY DEF TInv, FrameOK, Content, CallsInOrder
<1>2. blk[t] \in Block
  BY <1>1 DEF CallInOrder, TypeOK
<1> QED
  BY <1>1, <1>2, BucketInRange
  DEF CallInOrder, FrameOf, Cross, leftBucket, rightBucket

\* What the list of a bucket holds is apart from a block of the heap it does not hold.
LEMMA EntriesApart ==
  ASSUME TypeOK, Content, NEW k \in 0 .. (HASHSZ - 1), NEW b \in heap, b \notin Entries(table[k])
  PROVE  \A x \in Entries(table[k]) : Apart(x, b)
<1> TAKE x \in Entries(table[k])
<1>1. x \in heap /\ x # b
  BY DEF Content, TableInOrder, Shown
<1>2. Disjoint(x, b) /\ x \in Block /\ b \in Block
  BY <1>1 DEF Content, HeapInOrder, TypeOK
<1> QED
  BY <1>2, DisjointApart

\* A step that works on the list of bucket k adds t's block to it, or removes it, and
\* moves t where that entry counts.
LEMMA ListContent ==
  ASSUME TInv, Content, NEW t \in Thread, pc[t] # "idle", NEW there \in Undisturbed,
         pc' = [pc EXCEPT ![t] = there],
         UNCHANGED <<heap, live, crashed, blk, undo>>,
         \A u \in Thread \ {t} : right'[u] = right[u],
         there \in CrossPCs => Cross(blk[t]),
         there \in KnowsRight => right'[t] = blk[t].R,
         NEW k \in 0 .. (HASHSZ - 1), NEW bucket, table' = [table EXCEPT ![k] = bucket],
         Orderly(bucket), Entries(bucket) \ {blk[t]} = Entries(table[k]) \ {blk[t]},
         blk[t] \in Entries(bucket) <=> ListedAfter(blk[t], there, k),
         \A m \in (0 .. (HASHSZ - 1)) \ {k} :
            /\ m = leftBucket(blk[t]) => (pc[t] \in LeftListed <=> there \in LeftListed)
            /\ m = rightBucket(blk[t]) => (pc[t] \in RightListed <=> there \in RightListed)
  PROVE  Content'
<1>1. /\ TypeOK /\ blk[t] \in Block /\ blk[t] \in heap /\ blk[t] \notin live /\ ~undo[t]
      /\ \A u \in Thread \ {t} : pc[u] # "idle" => blk[u] # blk[t]
  BY CallFacts
<1>2. there \in PC /\ there # "idle"
  BY DEF Undisturbed, LeftListed, RightListed, PC
<1>3. StepOf(t, blk[t], there)
  BY <1>1 DEF StepOf, TypeOK
<1>4. HeapInOrder' /\ crashed' = "no"
  BY DEF Content, HeapInOrder
<1>5. ASSUME NEW m \in 0 .. (HASHSZ - 1)
      PROVE  /\ Orderly(table'[m])
             /\ Entries(table'[m]) \ {blk[t]} = Entries(table[m]) \ {blk[t]}
             /\ blk[t] \in Entries(table'[m]) <=> ListedAfter(blk[t], there, m)
  <2>1. CASE m = k
    <3>1. table'[m] = bucket
      BY <1>1, <2>1 DEF TypeOK
    <3> QED
      BY <2>1, <3>1
  <2>2. CASE m # k
    <3>1. table'[m] = table[m]
      BY <1>1, <2>2 DEF TypeOK
    <3>2. /\ Orderly(table[m]) /\ Entries(table[m]) = Shown(m)
          /\ CallInOrder(t)
      BY DEF Content, TableInOrder, CallsInOrder
    <3>3. blk[t] \in Shown(m) <=> \/ m = leftBucket(blk[t]) /\ pc[t] \in LeftListed
                                  \/ m = rightBucket(blk[t]) /\ pc[t] \in RightListed
      BY <3>2, OwnShown
    <3>4. blk[t] \in Shown(m) <=> ListedAfter(blk[t], there, m)
      BY <1>1, <2>2, <3>3 DEF ListedAfter
    <3> QED
      BY <3>1, <3>2, <3>4
  <2> QED
    BY <2>1, <2>2
<1> QED
  BY <1>1, <1>2, <1>3, <1>4, <1>5, KeepsContent

-----------------------------------------------------------------------------

\* The left bucket accepts the entry: it is orderly and the block is apart from all it
\* lists, and the block is listed from now on.
LEMMA RegAdd1Content ==
  ASSUME TInv, Content, NEW t \in Thread, RegAdd1(t), fails = 0, fails' = 0
  PROVE  Content'
<1> DEFINE b == blk[t]
           k == leftBucket(b)
           added == addAddrToList(table[k], b)
<1>1. pc[t] = "reg_add1" /\ pc[t] # "idle" /\ pc[t] \in Registers
  BY DEF RegAdd1, At, Registers
<1>2. /\ TypeOK /\ b \in Block /\ b \in heap /\ k \in 0 .. (HASHSZ - 1) /\ ~undo[t] /\ b \notin live
      /\ right[t] = b.R /\ [L |-> b.L, R |-> right[t]] = b
  BY <1>1, CallFacts, FrameIsBlock
<1>3. table[k] \in BucketType /\ Orderly(table[k]) /\ Entries(table[k]) = Shown(k) /\ CallInOrder(t)
  BY <1>2 DEF TypeOK, Content, TableInOrder, CallsInOrder
<1>4. b \notin Entries(table[k])
  BY <1>1, <1>3, OwnShown DEF LeftListed, RightListed
<1>5. \A x \in Entries(table[k]) : Apart(x, b)
  BY <1>2, <1>4, EntriesApart
<1>6. /\ added.res = "added" /\ Orderly(added.bucket)
      /\ Entries(added.bucket) = Entries(table[k]) \cup {b}
  BY <1>2, <1>3, <1>5, AddKeepsOrder
<1> HIDE DEF added
<1>7. PICK there \in {"reg_unlock", "reg_swap", "reg_add2"} :
        /\ pc' = [pc EXCEPT ![t] = there]
        /\ there = "reg_unlock" <=> ~CrossCall(t)
        /\ table' = [table EXCEPT ![k] = added.bucket]
  <2>1. table' = [table EXCEPT ![k] = added.bucket]
    BY <1>2 DEF RegAdd1, leftBucket, added
  <2>2. pc' = [pc EXCEPT ![t] = IF ~CrossCall(t) THEN "reg_unlock"
                                ELSE IF TwoLocks(t) THEN "reg_swap" ELSE "reg_add2"]
    <3>1. fails + 1 # 0
      OBVIOUS
    <3>2. addAddrToList(table[getRZAddrBucket(blk[t].L)], [L |-> blk[t].L, R |-> right[t]]).res = "added"
      BY <1>2, <1>6 DEF leftBucket, added
    <3> QED
      BY <3>1, <3>2 DEF RegAdd1, Goto
  <2> QED
    BY <2>1, <2>2
<1>8. CrossCall(t) <=> Cross(b)
  BY <1>2 DEF CrossCall, Cross
<1>9. /\ there \in Undisturbed /\ there \in LeftListed /\ there \notin KnowsRight
      /\ there \in CrossPCs => Cross(b)
      /\ there \in RightListed <=> ~Cross(b)
  BY <1>7, <1>8 DEF Undisturbed, LeftListed, RightListed, KnowsRight, CrossPCs
<1>10. /\ UNCHANGED <<heap, live, crashed, blk, undo, right>>
  BY <1>2, <1>6 DEF RegAdd1, frames, leftBucket, added
<1>11. b \in Entries(added.bucket) /\ ListedAfter(b, there, k)
  BY <1>2, <1>6, <1>9, <1>10 DEF ListedAfter
<1>12. \A m \in (0 .. (HASHSZ - 1)) \ {k} :
          /\ m = leftBucket(b) => (pc[t] \in LeftListed <=> there \in LeftListed)
          /\ m = rightBucket(b) => (pc[t] \in RightListed <=> there \in RightListed)
  BY <1>1, <1>9 DEF Cross, leftBucket, rightBucket, RightListed
<1>13. Entries(added.bucket) \ {b} = Entries(table[k]) \ {b}
  BY <1>6
<1> QED
  BY <1>1, <1>2, <1>6, <1>7, <1>9, <1>10, <1>11, <1>12, <1>13, ListContent

\* ... and so does the right one.
LEMMA RegAdd2Content ==
  ASSUME TInv, Content, NEW t \in Thread, RegAdd2(t)
  PROVE  Content'
<1> DEFINE b == blk[t]
           k == rightBucket(b)
           added == addAddrToList(table[k], b)
<1>1. /\ pc[t] = "reg_add2" /\ pc[t] # "idle" /\ pc[t] \in Registers
      /\ pc[t] \in CrossPCs /\ pc[t] \in LeftListed /\ pc[t] \notin RightListed
  BY DEF RegAdd2, At, Registers, CrossPCs, LeftListed, RightListed
<1>2. /\ TypeOK /\ b \in Block /\ b \in heap /\ k \in 0 .. (HASHSZ - 1) /\ ~undo[t] /\ b \notin live
      /\ right[t] = b.R /\ [L |-> b.L, R |-> right[t]] = b /\ leftBucket(b) # k
  BY <1>1, CallFacts, FrameIsBlock
<1>3. table[k] \in BucketType /\ Orderly(table[k]) /\ Entries(table[k]) = Shown(k) /\ CallInOrder(t)
  BY <1>2 DEF TypeOK, Content, TableInOrder, CallsInOrder
<1>4. b \notin Entries(table[k])
  BY <1>1, <1>2, <1>3, OwnShown
<1>5. \A x \in Entries(table[k]) : Apart(x, b)
  BY <1>2, <1>4, EntriesApart
<1>6. /\ added.res = "added" /\ Orderly(added.bucket)
      /\ Entries(added.bucket) = Entries(table[k]) \cup {b}
  BY <1>2, <1>3, <1>5, AddKeepsOrder
<1> HIDE DEF added
<1>7. /\ pc' = [pc EXCEPT ![t] = "reg_unlock"]
      /\ table' = [table EXCEPT ![k] = added.bucket]
      /\ UNCHANGED <<heap, live, crashed, blk, undo, right>>
  BY <1>2, <1>6 DEF RegAdd2, Goto, frames, rightBucket, added
<1>8. /\ "reg_unlock" \in Undisturbed /\ "reg_unlock" \notin CrossPCs
      /\ "reg_unlock" \notin KnowsRight
      /\ "reg_unlock" \in LeftListed /\ "reg_unlock" \in RightListed
  BY DEF Undisturbed, LeftListed, RightListed, KnowsRight, CrossPCs
<1>9. b \in Entries(added.bucket) /\ ListedAfter(b, "reg_unlock", k)
  BY <1>2, <1>6, <1>7, <1>8 DEF ListedAfter
<1>10. \A m \in (0 .. (HASHSZ - 1)) \ {k} :
          /\ m = leftBucket(b) => (pc[t] \in LeftListed <=> "reg_unlock" \in LeftListed)
          /\ m = rightBucket(b) => (pc[t] \in RightListed <=> "reg_unlock" \in RightListed)
  BY <1>1, <1>8
<1>11. Entries(added.bucket) \ {b} = Entries(table[k]) \ {b}
  BY <1>6
<1> QED
  BY <1>1, <1>2, <1>6, <1>7, <1>8, <1>9, <1>10, <1>11, ListContent

\* removeAddr finds the entry of the block in the left bucket, by its left red zone,
\* and learns the right one from it.
LEMMA RemList1Content ==
  ASSUME TInv, Content, NEW t \in Thread, RemList1(t)
  PROVE  Content'
<1> DEFINE b == blk[t]
           k == leftBucket(b)
           removed == removeAddrFromList(table[k], [L |-> b.L, R |-> right[t]])
<1>1. /\ pc[t] = "rem_list1" /\ pc[t] # "idle" /\ pc[t] \in Asks
      /\ pc[t] \in LeftListed /\ pc[t] \in RightListed
  BY DEF RemList1, At, Asks, LeftListed, RightListed
<1>2. /\ TypeOK /\ b \in Block /\ b \in heap /\ k \in 0 .. (HASHSZ - 1) /\ ~undo[t] /\ b \notin live
      /\ right[t] = NULL
  BY <1>1, CallFacts
<1>3. table[k] \in BucketType /\ Orderly(table[k]) /\ Entries(table[k]) = Shown(k) /\ CallInOrder(t)
  BY <1>2 DEF TypeOK, Content, TableInOrder, CallsInOrder
<1>4. b \in Entries(table[k])
  BY <1>1, <1>3, OwnShown
<1>5. /\ removed.found = b /\ Orderly(removed.bucket)
      /\ Entries(removed.bucket) = Entries(table[k]) \ {b}
  BY ZenonT(60), <1>2, <1>3, <1>4, RemoveKeepsOrder
<1>6. b # NoEntry
  BY <1>2, BlockIsRecord
<1> HIDE DEF removed
<1>7. PICK there \in {"rem_unlock", "rem_list2", "rem_swap"} :
        /\ pc' = [pc EXCEPT ![t] = there]
        /\ there = "rem_unlock" <=> ~Cross(b)
        /\ table' = [table EXCEPT ![k] = removed.bucket]
        /\ right' = [right EXCEPT ![t] = b.R]
        /\ UNCHANGED <<heap, live, crashed, blk, undo>>
  <2>1. /\ removed.found # NoEntry /\ removed.found.R = b.R
        /\ removed = removeAddrFromList(table[getRZAddrBucket(blk[t].L)],
                                        [L |-> blk[t].L, R |-> right[t]])
    BY <1>5, <1>6 DEF removed, leftBucket
  <2>2. /\ table' = [table EXCEPT ![k] = removed.bucket]
        /\ right' = [right EXCEPT ![t] = b.R]
        /\ UNCHANGED <<heap, live, crashed, blk, undo>>
        /\ pc' = [pc EXCEPT ![t] =
                    IF ~(getRZAddrBucket(b.R) # getRZAddrBucket(b.L)) THEN "rem_unlock"
                    ELSE IF lockOf(b.R) = lockL(t) THEN "rem_list2" ELSE "rem_swap"]
    BY <1>2, <2>1 DEF RemList1, Goto, leftBucket
  <2> QED
    BY <2>2 DEF Cross
<1>8. /\ there \in Undisturbed /\ there \notin LeftListed
      /\ there \in CrossPCs => Cross(b)
      /\ there \in RightListed <=> Cross(b)
  BY <1>7 DEF Undisturbed, LeftListed, RightListed, CrossPCs
<1>9. right'[t] = b.R /\ \A u \in Thread \ {t} : right'[u] = right[u]
  BY <1>2, <1>7 DEF TypeOK
<1>10. b \notin Entries(removed.bucket) /\ ~ListedAfter(b, there, k)
  BY <1>2, <1>5, <1>7, <1>8 DEF ListedAfter, Cross, leftBucket, rightBucket
<1>11. \A m \in (0 .. (HASHSZ - 1)) \ {k} :
          /\ m = leftBucket(b) => (pc[t] \in LeftListed <=> there \in LeftListed)
          /\ m = rightBucket(b) => (pc[t] \in RightListed <=> there \in RightListed)
  BY <1>1, <1>8 DEF Cross, leftBucket, rightBucket
<1> QED
  BY <1>1, <1>2, <1>5, <1>7, <1>8, <1>9, <1>10, <1>11, ListContent, ZenonT(60)

\* ... and its entry in the right one.
LEMMA RemList2Content ==
  ASSUME TInv, Content, NEW t \in Thread, RemList2(t)
  PROVE  Content'
<1> DEFINE b == blk[t]
           k == rightBucket(b)
           removed == removeAddrFromList(table[k], [L |-> b.L, R |-> b.R])
<1>1. /\ pc[t] = "rem_list2" /\ pc[t] # "idle" /\ pc[t] \in KnowsRight
      /\ pc[t] \in CrossPCs /\ pc[t] \notin LeftListed /\ pc[t] \in RightListed
  BY DEF RemList2, At, KnowsRight, CrossPCs, LeftListed, RightListed
<1>2. /\ TypeOK /\ b \in Block /\ b \in heap /\ k \in 0 .. (HASHSZ - 1) /\ ~undo[t] /\ b \notin live
      /\ right[t] = b.R /\ leftBucket(b) # k
  BY <1>1, CallFacts
<1>3. table[k] \in BucketType /\ Orderly(table[k]) /\ Entries(table[k]) = Shown(k) /\ CallInOrder(t)
  BY <1>2 DEF TypeOK, Content, TableInOrder, CallsInOrder
<1>4. b \in Entries(table[k])
  BY <1>1, <1>3, OwnShown
<1>5. /\ removed.found = b /\ Orderly(removed.bucket)
      /\ Entries(removed.bucket) = Entries(table[k]) \ {b}
  BY <1>2, <1>3, <1>4, RemoveKeepsOrder
<1>6. b # NoEntry
  BY <1>2, BlockIsRecord
<1> HIDE DEF removed
<1>7. /\ pc' = [pc EXCEPT ![t] = "rem_unlock2"]
      /\ table' = [table EXCEPT ![k] = removed.bucket]
      /\ UNCHANGED <<heap, live, crashed, blk, undo, right>>
  <2>1. /\ removed.found # NoEntry
        /\ removed = removeAddrFromList(table[getRZAddrBucket(right[t])],
                                        [L |-> blk[t].L, R |-> right[t]])
    BY <1>2, <1>5, <1>6 DEF removed, rightBucket
  <2> QED
    BY <1>2, <2>1 DEF RemList2, Goto, frames, rightBucket
<1>8. /\ "rem_unlock2" \in Undisturbed /\ "rem_unlock2" \in CrossPCs
      /\ "rem_unlock2" \notin LeftListed /\ "rem_unlock2" \notin RightListed
  BY DEF Undisturbed, LeftListed, RightListed, CrossPCs
<1>9. Cross(b)
  BY <1>1, <1>3 DEF CallInOrder
<1>10. b \notin Entries(removed.bucket) /\ ~ListedAfter(b, "rem_unlock2", k)
  BY <1>2, <1>5, <1>7, <1>8 DEF ListedAfter
<1>11. \A m \in (0 .. (HASHSZ - 1)) \ {k} :
          /\ m = leftBucket(b) => (pc[t] \in LeftListed <=> "rem_unlock2" \in LeftListed)
          /\ m = rightBucket(b) => (pc[t] \in RightListed <=> "rem_unlock2" \in RightListed)
  BY <1>1, <1>8
<1>12. /\ Entries(removed.bucket) \ {b} = Entries(table[k]) \ {b}
       /\ right'[t] = b.R /\ \A u \in Thread \ {t} : right'[u] = right[u]
  BY <1>2, <1>5, <1>7
<1> QED
  BY <1>1, <1>2, <1>5, <1>7, <1>8, <1>9, <1>10, <1>11, <1>12, ListContent

-----------------------------------------------------------------------------

\* A thread that begins a call was with the program, and the library is initialised.
LEMMA CallBegins ==
  ASSUME TInv, SInv, NEW t \in Thread, At(t, "called") \/ (At(t, "idle") /\ init = 1)
  PROVE  pc[t] = "idle" /\ crashed = "no"
BY DEF At, SInv

\* A new block is apart from the heap, and listed nowhere yet.
LEMMA MallocContent ==
  ASSUME TInv, SInv, Content, NEW t \in Thread, NEW b \in Block, Dlib_malloc(t, b),
         fails = 0, fails' = 0
  PROVE  Content'
<1>1. /\ TypeOK /\ pc[t] = "idle" /\ crashed = "no"
      /\ CallsInOrder /\ HeapInOrder
  BY CallBegins DEF Dlib_malloc, TInv, Content
<1>2. b \notin heap /\ \A c \in heap : Disjoint(b, c) /\ Disjoint(c, b)
  BY <1>1, DisjointApart DEF Dlib_malloc, TypeOK, Disjoint
<1>3. /\ pc' = [pc EXCEPT ![t] = "reg_lock1"]
      /\ heap' = heap \cup {b}
      /\ blk' = [blk EXCEPT ![t] = b]
      /\ right' = [right EXCEPT ![t] = b.R]
      /\ undo' = [undo EXCEPT ![t] = FALSE]
      /\ UNCHANGED <<table, live, crashed>>
  BY DEF Dlib_malloc, Goto, library
<1>4. StepOf(t, b, "reg_lock1")
  BY <1>1, <1>3 DEF StepOf, TypeOK
<1>5. \A u \in Thread \ {t} : pc[u] # "idle" => blk[u] # b
  BY <1>1, <1>2 DEF CallsInOrder, CallInOrder
<1>6. HeapInOrder' /\ crashed' = "no"
  BY <1>1, <1>2, <1>3 DEF HeapInOrder, Disjoint
<1>7. /\ "reg_lock1" \in Undisturbed /\ "reg_lock1" \notin CrossPCs
      /\ "reg_lock1" \notin KnowsRight /\ "reg_lock1" \in PC
      /\ "reg_lock1" \notin LeftListed /\ "reg_lock1" \notin RightListed
  BY DEF Undisturbed, CrossPCs, KnowsRight, LeftListed, RightListed, PC
<1>8. ~undo'[t] /\ b \in heap' /\ b \notin live'
  BY <1>1, <1>2, <1>3 DEF TypeOK, HeapInOrder
<1>9. ASSUME NEW k \in 0 .. (HASHSZ - 1)
      PROVE  /\ Orderly(table'[k])
             /\ Entries(table'[k]) \ {b} = Entries(table[k]) \ {b}
             /\ b \in Entries(table'[k]) <=> ListedAfter(b, "reg_lock1", k)
  <2>1. Orderly(table[k]) /\ b \notin Entries(table[k])
    BY <1>2 DEF Content, TableInOrder, Shown
  <2> QED
    BY <1>3, <1>7, <1>8, <2>1 DEF ListedAfter
<1> QED
  BY <1>1, <1>4, <1>5, <1>6, <1>7, <1>8, <1>9, KeepsContent

\* A block the program gives back is listed under both its red zones, and is from now
\* on the thread's.
LEMMA FreeContent ==
  ASSUME TInv, SInv, Content, NEW t \in Thread, NEW b \in Block, Dlib_free(t, b)
  PROVE  Content'
<1>1. /\ TypeOK /\ pc[t] = "idle" /\ crashed = "no"
      /\ CallsInOrder /\ HeapInOrder
  BY CallBegins DEF Dlib_free, TInv, Content
<1>2. b \in live /\ b \in heap
  BY <1>1 DEF Dlib_free, HeapInOrder
<1>3. /\ pc' = [pc EXCEPT ![t] = "rem_lock1"]
      /\ live' = live \ {b}
      /\ blk' = [blk EXCEPT ![t] = b]
      /\ right' = [right EXCEPT ![t] = NULL]
      /\ undo' = [undo EXCEPT ![t] = FALSE]
      /\ UNCHANGED <<table, heap, crashed>>
  BY DEF Dlib_free, Goto, library
<1>4. StepOf(t, b, "rem_lock1")
  BY <1>1, <1>3 DEF StepOf, TypeOK
<1>5. \A u \in Thread \ {t} : pc[u] # "idle" => blk[u] # b
  BY <1>1, <1>2 DEF CallsInOrder, CallInOrder
<1>6. HeapInOrder' /\ crashed' = "no"
  BY <1>1, <1>3 DEF HeapInOrder, Disjoint
<1>7. /\ "rem_lock1" \in Undisturbed /\ "rem_lock1" \notin CrossPCs
      /\ "rem_lock1" \notin KnowsRight /\ "rem_lock1" \in PC
      /\ "rem_lock1" \in LeftListed /\ "rem_lock1" \in RightListed
  BY DEF Undisturbed, CrossPCs, KnowsRight, LeftListed, RightListed, PC
<1>8. ~undo'[t] /\ b \in heap' /\ b \notin live'
  BY <1>1, <1>2, <1>3 DEF TypeOK
<1>9. ASSUME NEW k \in 0 .. (HASHSZ - 1)
      PROVE  /\ Orderly(table'[k])
             /\ Entries(table'[k]) \ {b} = Entries(table[k]) \ {b}
             /\ b \in Entries(table'[k]) <=> ListedAfter(b, "rem_lock1", k)
  <2>1. Orderly(table[k]) /\ Entries(table[k]) = Shown(k)
    BY DEF Content, TableInOrder
  <2>2. b \in Shown(k) <=> k = leftBucket(b) \/ k = rightBucket(b)
    BY <1>2 DEF Shown, InLeft, InRight
  <2> QED
    BY <1>3, <1>7, <1>8, <2>1, <2>2 DEF ListedAfter
<1> QED
  BY <1>1, <1>4, <1>5, <1>6, <1>7, <1>8, <1>9, KeepsContent

\* The last unlock of registerAddr hands a block to the program that is listed under
\* both its red zones.
LEMMA RegUnlockContent ==
  ASSUME TInv, SInv, Content, NEW t \in Thread, RegUnlock(t)
  PROVE  Content'
<1>1. /\ pc[t] = "reg_unlock" /\ pc[t] # "idle" /\ crashed = "no" /\ HeapInOrder
      /\ pc[t] \in LeftListed /\ pc[t] \in RightListed /\ ~Refused(t, lockR(t))
  BY NotRefused DEF RegUnlock, At, LeftListed, RightListed, RightSection, Content
<1>2. /\ TypeOK /\ blk[t] \in Block /\ blk[t] \in heap /\ "idle" \in PC
      /\ \A u \in Thread \ {t} : pc[u] # "idle" => blk[u] # blk[t]
  BY <1>1, CallFacts DEF PC
<1>3. /\ pc' = [pc EXCEPT ![t] = "idle"]
      /\ live' = live \cup {blk[t]}
      /\ UNCHANGED <<table, heap, crashed, blk, right, undo>>
  BY <1>1 DEF RegUnlock, Goto, frames
<1>4. StepOf(t, blk[t], "idle")
  BY <1>2, <1>3 DEF StepOf, TypeOK
<1>5. HeapInOrder' /\ crashed' = "no"
  BY <1>1, <1>2, <1>3 DEF HeapInOrder, Disjoint
<1>6. ASSUME NEW k \in 0 .. (HASHSZ - 1)
      PROVE  /\ Orderly(table'[k])
             /\ Entries(table'[k]) \ {blk[t]} = Entries(table[k]) \ {blk[t]}
             /\ blk[t] \in Entries(table'[k]) <=> ListedAfter(blk[t], "idle", k)
  BY <1>1, <1>2, <1>3, TableStays DEF ListedAfter
<1> QED
  BY <1>2, <1>4, <1>5, <1>6, KeepsContent

\* A block that goes back to the system is listed nowhere any more.
LEMMA RemovedContent ==
  ASSUME TInv, Content, NEW t \in Thread, Removed(t)
  PROVE  Content'
<1>1. /\ pc[t] = "removed" /\ pc[t] # "idle" /\ HeapInOrder
      /\ pc[t] \notin LeftListed /\ pc[t] \notin RightListed
  BY DEF Removed, At, LeftListed, RightListed, Content
<1>2. /\ TypeOK /\ blk[t] \in Block /\ blk[t] \in heap /\ "idle" \in PC
      /\ blk[t] \notin live /\ ~undo[t]
      /\ \A u \in Thread \ {t} : pc[u] # "idle" => blk[u] # blk[t]
  BY <1>1, CallFacts DEF PC
<1>3. /\ pc' = [pc EXCEPT ![t] = "idle"]
      /\ heap' = heap \ {blk[t]}
      /\ crashed' = "no"
      /\ UNCHANGED <<table, live, blk, right, undo>>
  BY <1>2 DEF Removed, Goto, frames, library
<1>4. StepOf(t, blk[t], "idle")
  BY <1>2, <1>3 DEF StepOf, TypeOK
<1>5. HeapInOrder'
  BY <1>1, <1>2, <1>3 DEF HeapInOrder, Disjoint
<1>6. ASSUME NEW k \in 0 .. (HASHSZ - 1)
      PROVE  /\ Orderly(table'[k])
             /\ Entries(table'[k]) \ {blk[t]} = Entries(table[k]) \ {blk[t]}
             /\ blk[t] \in Entries(table'[k]) <=> ListedAfter(blk[t], "idle", k)
  BY <1>1, <1>2, <1>3, TableStays DEF ListedAfter
<1> QED
  BY <1>2, <1>3, <1>4, <1>5, <1>6, KeepsContent

\* The steps only a failed allocation, a refused unlock or a missing entry leads to.
LEMMA NoFailureSteps ==
  ASSUME TInv, SInv, Content, NEW t \in Thread
  PROVE  /\ ~EnterUninitialised(t) /\ ~initLib(t) /\ ~ReturnAtOnce(t)
         /\ ~RegDeny(t) /\ ~RegUndo(t) /\ ~Denied(t) /\ ~RemAbort1(t) /\ ~RemAbort2(t)
<1>1. /\ init = 1 /\ pc[t] \notin {"initLib", "called"}
      /\ pc[t] # "idle" => pc[t] \in Undisturbed
  BY DEF SInv, Content, CallsInOrder, CallInOrder
<1> QED
  BY <1>1
  DEF EnterUninitialised, initLib, ReturnAtOnce, RegDeny, RegUndo, Denied, RemAbort1,
      RemAbort2, At, Undisturbed, LeftListed, RightListed

\* Every step without a failing allocation keeps the content of the table.
LEMMA StepContent ==
  ASSUME TInv, SInv, Content, [Next]_vars, fails = 0, fails' = 0
  PROVE  Content'
<1>1. CASE UNCHANGED vars
  BY <1>1 DEF vars, Content, CallsInOrder, CallInOrder, Cross, HeapInOrder, Disjoint, TableInOrder,
              Orderly, Entries, Shown, InLeft, InRight, leftBucket, rightBucket
<1>2. ASSUME NEW t \in Thread, Call(t) PROVE Content'
  BY <1>2, NoFailureSteps, MallocContent, FreeContent DEF Call
<1>3. ASSUME NEW t \in Thread, initLib(t) \/ ReturnAtOnce(t) PROVE Content'
  BY <1>3, NoFailureSteps
<1>4. ASSUME NEW t \in Thread, Registering(t) PROVE Content'
  BY <1>4, NoFailureSteps, LockMoves, RegAdd1Content, RegAdd2Content, RegUnlockContent
  DEF Registering
<1>5. ASSUME NEW t \in Thread, Removing(t) PROVE Content'
  BY <1>5, NoFailureSteps, LockMoves, RemList1Content, RemList2Content, RemovedContent
  DEF Removing
<1> QED
  BY <1>1, <1>2, <1>3, <1>4, <1>5 DEF Next, Proceed

\* No allocation that failed is forgotten.
LEMMA FailsGrow == TInv /\ [Next]_vars => fails' = fails \/ fails' = fails + 1
BY ZenonT(60)
   DEF Next, Call, Proceed, Registering, Removing, vars, library, frames,
       EnterUninitialised, initLib, ReturnAtOnce, Dlib_malloc, RegLock1, RegAdd1, RegSwap,
       RegLock2, RegAdd2, RegUnlock, RegDeny, RegUndo, Denied, Dlib_free, RemLock1, RemList1,
       RemSwap, RemLock2, RemList2, RemUnlock2, RemUnlock, RemAbort1, RemAbort2, Removed

\* Until a node allocation fails, every list holds exactly the blocks it must, in
\* order, whatever calls are under way.
THEOREM ContentCorrect ==
  ASSUME PreInit, NoStrayUnlock
  PROVE  Spec => [](TInv /\ SInv /\ ContentInv)
<1>1. Init => SInv /\ ContentInv
  BY InitSections, InitContent DEF ContentInv
<1>2. TInv /\ SInv /\ ContentInv /\ [Next]_vars => SInv' /\ ContentInv'
  <2> SUFFICES ASSUME TInv, SInv, ContentInv, [Next]_vars PROVE SInv' /\ ContentInv'
    OBVIOUS
  <2>1. SInv'
    BY StepSections
  <2>2. fails' = 0 => fails = 0
    BY FailsGrow DEF TInv, TypeOK
  <2> QED
    BY <2>1, <2>2, StepContent DEF ContentInv
<1> QED
  BY <1>1, <1>2, TypeCorrect, PTL DEF Spec

-----------------------------------------------------------------------------

\* The content being right, its lists are ordered ...
LEMMA ContentOrdered == TInv /\ Content => ListsOrdered
<1> SUFFICES ASSUME TInv, Content, NEW k \in 0 .. (HASHSZ - 1) PROVE ListOrdered(table[k])
  BY DEF TInv, TypeOK, ListsOrdered
<1>1. Orderly(table[k]) /\ table[k].list \in Seq(Block)
  BY DEF Content, TableInOrder, TInv, TypeOK, BucketType
<1>2. \A i \in 1 .. Len(table[k].list) - 1 :
         i \in 1 .. Len(table[k].list) /\ i + 1 \in 1 .. Len(table[k].list) /\ i < i + 1
  BY <1>1
<1> QED
  BY <1>1, <1>2 DEF Orderly, Increasing, ListOrdered

\* A block is in a list when the list is one of its own and it is to be shown there.
LEMMA ListedIsShown ==
  ASSUME TypeOK, Content, NEW k \in 0 .. (HASHSZ - 1), NEW b
  PROVE  Listed(k, b) <=> b \in Shown(k)
BY DEF Content, TableInOrder, Entries, Listed

\* ... and they show every block in use, and none the system has.
LEMMA ContentMatches == TInv /\ Content => TableMatchesHeap
<1> SUFFICES ASSUME TInv, Content PROVE LiveRegistered /\ NoStaleEntry
  BY DEF TableMatchesHeap
<1>1. TypeOK /\ HeapInOrder /\ DOMAIN table = 0 .. (HASHSZ - 1)
  BY DEF TInv, TypeOK, Content
<1>2. ASSUME NEW b \in live PROVE Registered(b)
  <2>1. b \in Block /\ b \in heap /\ InLeft(b) /\ InRight(b)
    BY <1>1 DEF TypeOK, HeapInOrder, InLeft, InRight
  <2>2. leftBucket(b) \in 0 .. (HASHSZ - 1) /\ rightBucket(b) \in 0 .. (HASHSZ - 1)
    BY <2>1, BucketInRange DEF leftBucket, rightBucket
  <2>3. b \in Shown(leftBucket(b)) /\ b \in Shown(rightBucket(b))
    BY <2>1 DEF Shown
  <2> QED
    BY <1>1, <2>2, <2>3, ListedIsShown DEF Registered, leftBucket, rightBucket
<1>3. NoStaleEntry
  BY <1>1 DEF NoStaleEntry, Content, TableInOrder, Entries, Shown
<1> QED
  BY <1>2, <1>3 DEF LiveRegistered

\* The entry of a block the program holds is in the buckets of both its red zones.
LEMMA LiveEntry ==
  ASSUME TInv, Content, NEW b \in live, NEW k \in {leftBucket(b), rightBucket(b)}
  PROVE  /\ b \in Block /\ b \in heap
         /\ k \in 0 .. (HASHSZ - 1)
         /\ table[k] \in BucketType /\ Orderly(table[k]) /\ b \in Entries(table[k])
<1>1. b \in Block /\ b \in heap /\ InLeft(b) /\ InRight(b)
  BY DEF TInv, TypeOK, Content, HeapInOrder, InLeft, InRight
<1>2. k \in 0 .. (HASHSZ - 1)
  BY <1>1, BucketInRange DEF leftBucket, rightBucket
<1> QED
  BY <1>1, <1>2 DEF TInv, TypeOK, Content, TableInOrder, Shown

\* Every access to a red zone is answered with 1, whatever other entries and early
\* exits come before the block's entry ...
LEMMA ContentReports == TInv /\ Content => RedZoneAccessReported
<1> SUFFICES ASSUME TInv, Content, NEW b \in live
             PROVE  /\ \A a \in SeenZoneBytes(b) : checkRegistration(table, a, 1) = 1
                    /\ \A a \in AppBytes(b), z \in Bytes(b.R, b.R + RZ) :
                         getRZAddrBucket(a) \in {getRZAddrBucket(b.L), getRZAddrBucket(b.R)}
                           => checkRegistration(table, a, z - a + 1) = 1
  BY DEF RedZoneAccessReported
<1>1. /\ b.L \in Nat /\ b.R \in Nat /\ b.L + RZ < b.R /\ RZ \in Nat \ {0}
      /\ b \in Block
  BY LiveEntry, BlockBounds
<1>2. ASSUME NEW a \in SeenZoneBytes(b) PROVE checkRegistration(table, a, 1) = 1
  <2>1. /\ getRZAddrBucket(a) \in {leftBucket(b), rightBucket(b)}
        /\ a \in Bytes(b.L, b.L + RZ) \/ a \in Bytes(b.R, b.R + RZ)
    BY DEF SeenZoneBytes, leftBucket, rightBucket
  <2>2. /\ a \in Int /\ b.L <= a /\ a <= b.R + RZ
        /\ InZone(a, b.L) \/ InZone(a, b.R)
    BY <1>1, <2>1 DEF Bytes, InZone
  <2>3. /\ table[getRZAddrBucket(a)] \in BucketType /\ Orderly(table[getRZAddrBucket(a)])
        /\ b \in Entries(table[getRZAddrBucket(a)])
    BY <2>1, LiveEntry
  <2> QED
    BY <2>2, <2>3, CheckReports
<1>3. ASSUME NEW a \in AppBytes(b), NEW z \in Bytes(b.R, b.R + RZ),
             getRZAddrBucket(a) \in {leftBucket(b), rightBucket(b)}
      PROVE  checkRegistration(table, a, z - a + 1) = 1
  <2>1. /\ a \in Int /\ z \in Int /\ b.L <= a /\ a <= b.R + RZ /\ z - a + 1 \in Nat \ {0}
        /\ a + (z - a + 1) - 1 = z /\ InZone(z, b.R)
    BY <1>1 DEF AppBytes, Bytes, InZone
  <2>2. /\ table[getRZAddrBucket(a)] \in BucketType /\ Orderly(table[getRZAddrBucket(a)])
        /\ b \in Entries(table[getRZAddrBucket(a)])
    BY <1>3, LiveEntry
  <2> DEFINE sz == z - a + 1
  <2>3. sz \in Nat \ {0} /\ z = a + sz - 1
    BY <2>1
  <2> HIDE DEF sz
  <2>4. checkRegistration(table, a, sz) = 1
    BY <2>1, <2>2, <2>3, CheckReports
  <2> QED
    BY <2>4 DEF sz
<1> QED
  BY <1>2, <1>3 DEF leftBucket, rightBucket

\* ... and every access inside the application's bytes with 0: no other block's red
\* zones lie there, because the blocks of the heap are disjoint.
LEMMA ContentAccepts == TInv /\ Content => AppAccessAccepted
<1> SUFFICES ASSUME TInv, Content, NEW b \in live, NEW a \in AppBytes(b), NEW sz \in 1 .. (b.R - a)
             PROVE  checkRegistration(table, a, sz) = 0
  BY DEF AppAccessAccepted
<1>1. /\ b.L \in Nat /\ b.R \in Nat /\ b.L + RZ < b.R /\ RZ \in Nat \ {0}
      /\ b \in Block /\ b \in heap
  BY LiveEntry, BlockBounds
<1>2. /\ a \in Int /\ b.L + RZ <= a /\ a < b.R
      /\ sz \in Nat \ {0} /\ a + sz - 1 \in Int /\ a + sz - 1 < b.R /\ b.L + RZ <= a + sz - 1
      /\ a \in b.L .. (b.R + RZ - 1)
  BY <1>1 DEF AppBytes, Bytes
<1>3. getRZAddrBucket(a) \in 0 .. (HASHSZ - 1)
  BY <1>1, <1>2, HashAssumption DEF getRZAddrBucket
<1> DEFINE k == getRZAddrBucket(a)
<1>4. table[k] \in BucketType /\ Orderly(table[k]) /\ Entries(table[k]) = Shown(k)
  BY <1>3 DEF TInv, TypeOK, Content, TableInOrder
<1> HIDE DEF k
<1>5. ASSUME NEW x \in Entries(table[k]), NEW y \in {a, a + sz - 1}
      PROVE  ~InZone(y, x.L) /\ ~InZone(y, x.R)
  <2>1. x \in heap /\ x \in Block
    BY <1>4 DEF Shown, TInv, TypeOK
  <2>2. /\ x.L \in Nat /\ x.R \in Nat /\ x.L + RZ < x.R
        /\ y \in Int /\ b.L + RZ <= y /\ y < b.R
    BY <1>2, <2>1, BlockBounds
  <2>3. CASE x = b
    BY <1>1, <2>2, <2>3 DEF InZone
  <2>4. CASE x # b
    <3>1. x.R + RZ <= b.L \/ b.R + RZ <= x.L
      BY <1>1, <2>1, <2>4 DEF Content, HeapInOrder, Disjoint
    <3> QED
      BY <1>1, <2>2, <3>1 DEF InZone
  <2> QED
    BY <2>3, <2>4
<1> QED
  BY <1>2, <1>4, <1>5, CheckAccepts DEF k

\* The lists are sorted with disjoint blocks and counted right, for any number of threads
\* that register and remove blocks at the same time, until a node allocation fails.
THEOREM ListsStayOrdered ==
  ASSUME PreInit, NoStrayUnlock
  PROVE  Spec => [](fails = 0 => ListsOrdered)
<1>1. TInv /\ ContentInv => (fails = 0 => ListsOrdered)
  BY ContentOrdered DEF ContentInv
<1> QED
  BY <1>1, ContentCorrect, PTL

\* Every block the program holds is in the table under both its red zones, and no entry
\* outlives its block.
THEOREM TableMatches ==
  ASSUME PreInit, NoStrayUnlock
  PROVE  Spec => [](fails = 0 => TableMatchesHeap)
<1>1. TInv /\ ContentInv => (fails = 0 => TableMatchesHeap)
  BY ContentMatches DEF ContentInv
<1> QED
  BY <1>1, ContentCorrect, PTL

\* At every moment the lists give the right answer for every access to a block the program
\* holds, whatever calls of any number of threads are under way: the answer of a
\* checkRegistration that no list operation of its bucket overlaps.
THEOREM TableAnswersRight ==
  ASSUME PreInit, NoStrayUnlock
  PROVE  Spec => [](fails = 0 => TableAnswers)
<1>1. TInv /\ ContentInv => (fails = 0 => TableAnswers)
  BY ContentReports, ContentAccepts DEF ContentInv, TableAnswers
<1> QED
  BY <1>1, ContentCorrect, PTL

-----------------------------------------------------------------------------
(***************************************************************************)
(* The threads and the table implement the allocator of RedZones.          *)
(***************************************************************************)

\* Where the block of a call is in the lists of both its red zones.
BothListed == {"reg_unlock", "rem_lock1", "rem_list1"}

InBoth(b) == b \in live \/ \E t \in Thread : blk[t] = b /\ pc[t] \in BothListed

\* The blocks the abstract allocator calls guarded, by the positions of the threads.
LEMMA GuardedAre == TypeOK /\ Content => AbstractGuarded = {b \in heap : InBoth(b)}
<1> SUFFICES ASSUME TypeOK, Content PROVE AbstractGuarded = {b \in heap : InBoth(b)}
  OBVIOUS
<1>1. CallsInOrder /\ heap \subseteq Block
  BY DEF Content, TypeOK
<1>2. ASSUME NEW b \in heap PROVE Registered(b) <=> InBoth(b)
  <2>1. b \in Block /\ leftBucket(b) \in 0 .. (HASHSZ - 1) /\ rightBucket(b) \in 0 .. (HASHSZ - 1)
    BY <1>1, BucketInRange DEF leftBucket, rightBucket
  <2>2. Registered(b) <=> b \in Shown(leftBucket(b)) /\ b \in Shown(rightBucket(b))
    BY <2>1, ListedIsShown DEF Registered, leftBucket, rightBucket
  <2>3. CASE b \in live
    BY <2>2, <2>3 DEF Shown, InLeft, InRight, InBoth
  <2>4. CASE b \notin live /\ \E t \in Thread : blk[t] = b /\ pc[t] # "idle"
    <3>1. PICK t \in Thread : blk[t] = b /\ pc[t] # "idle"
      BY <2>4
    <3>2. /\ CallInOrder(t) /\ pc[t] \in Undisturbed
          /\ pc[t] \in CrossPCs => leftBucket(b) # rightBucket(b)
          /\ \A u \in Thread : pc[u] # "idle" /\ blk[u] = b => u = t
      BY <1>1, <3>1 DEF CallsInOrder, CallInOrder, Cross, leftBucket, rightBucket
    <3>3. \A k : b \in Shown(k) <=> \/ k = leftBucket(b) /\ pc[t] \in LeftListed
                                    \/ k = rightBucket(b) /\ pc[t] \in RightListed
      BY <3>1, <3>2, OwnShown
    <3>4. InBoth(b) <=> pc[t] \in BothListed
      BY <2>4, <3>1, <3>2 DEF InBoth, BothListed
    <3>5. /\ pc[t] \in BothListed <=> pc[t] \in LeftListed /\ pc[t] \in RightListed
          /\ pc[t] \notin CrossPCs => (pc[t] \in LeftListed <=> pc[t] \in RightListed)
      BY <3>2 DEF BothListed, LeftListed, RightListed, CrossPCs
    <3> QED
      BY <2>2, <3>2, <3>3, <3>4, <3>5
  <2>5. CASE b \notin live /\ ~\E t \in Thread : blk[t] = b /\ pc[t] # "idle"
    <3>1. ~InBoth(b) /\ ~InLeft(b) /\ ~InRight(b)
      BY <2>5 DEF InBoth, InLeft, InRight, BothListed, LeftListed, RightListed
    <3> QED
      BY <2>2, <3>1 DEF Shown
  <2> QED
    BY <2>3, <2>4, <2>5
<1> QED
  BY <1>2 DEF AbstractGuarded

\* The same after a step.
LEMMA GuardedThen == (TypeOK /\ Content => AbstractGuarded = {b \in heap : InBoth(b)})'
BY GuardedAre, PTL

\* A step of t on its block b changes what is guarded by b alone.
LEMMA GuardedAfter ==
  ASSUME TypeOK, Content, TypeOK', Content', NEW t \in Thread, NEW b, NEW there \in PC,
         StepOf(t, b, there), \A u \in Thread \ {t} : pc[u] # "idle" => blk[u] # b
  PROVE  /\ \A c : c # b => (c \in AbstractGuarded' <=> c \in AbstractGuarded)
         /\ b \in AbstractGuarded' <=> b \in heap' /\ (b \in live' \/ there \in BothListed)
         /\ b \in AbstractGuarded <=>
              b \in heap /\ (b \in live \/ (pc[t] # "idle" /\ pc[t] \in BothListed))
<1>1. /\ AbstractGuarded = {c \in heap : InBoth(c)}
      /\ AbstractGuarded' = {c \in heap' : InBoth(c)'}
  BY GuardedAre, GuardedThen
<1>2. pc'[t] = there /\ \A u \in Thread \ {t} : pc'[u] = pc[u]
  BY DEF TypeOK, StepOf
<1>3. /\ blk'[t] = b /\ \A u \in Thread \ {t} : blk'[u] = blk[u]
      /\ pc[t] # "idle" => blk[t] = b
      /\ \A c : c # b => (c \in heap' <=> c \in heap) /\ (c \in live' <=> c \in live)
  BY DEF StepOf
<1>4. ASSUME NEW c, c # b PROVE InBoth(c)' <=> InBoth(c)
  BY <1>2, <1>3, <1>4 DEF InBoth, BothListed
<1>5. InBoth(b)' <=> b \in live' \/ there \in BothListed
  BY <1>2, <1>3 DEF InBoth, BothListed
<1>6. InBoth(b) <=> b \in live \/ (pc[t] # "idle" /\ pc[t] \in BothListed)
  BY <1>3 DEF InBoth, BothListed
<1> QED
  BY <1>1, <1>3, <1>4, <1>5, <1>6

AbstractStep == [Abstract!Next]_(Abstract!vars)

\* A step inside a call guards its block, no longer guards it, or shows nothing outside.
LEMMA InsideMaps ==
  ASSUME TInv, Content, TInv', Content', NEW t \in Thread, pc[t] # "idle", NEW there \in PC,
         pc' = [pc EXCEPT ![t] = there], UNCHANGED <<heap, live, blk>>,
         \A u \in Thread \ {t} : right'[u] = right[u] /\ undo'[u] = undo[u]
  PROVE  AbstractStep
<1> DEFINE b == blk[t]
<1>1. /\ TypeOK /\ TypeOK' /\ b \in Block /\ b \in heap /\ b \notin live
      /\ \A u \in Thread \ {t} : pc[u] # "idle" => blk[u] # b
  BY CallFacts DEF TInv
<1>2. StepOf(t, b, there)
  BY <1>1 DEF StepOf, TypeOK
<1>3. /\ \A c : c # b => (c \in AbstractGuarded' <=> c \in AbstractGuarded)
      /\ b \in AbstractGuarded' <=> there \in BothListed
      /\ b \in AbstractGuarded <=> pc[t] \in BothListed
  BY <1>1, <1>2, GuardedAfter
<1>4. AbstractGuarded' \in {AbstractGuarded, AbstractGuarded \cup {b}, AbstractGuarded \ {b}}
  BY <1>3
<1> HIDE DEF b
<1>5. CASE AbstractGuarded' = AbstractGuarded
  BY <1>5 DEF AbstractStep, Abstract!vars
<1>6. CASE AbstractGuarded' # AbstractGuarded /\ AbstractGuarded' = AbstractGuarded \cup {b}
  <2>1. Abstract!Guard(b)
    BY <1>1, <1>6 DEF Abstract!Guard
  <2> QED
    BY <1>1, <2>1 DEF AbstractStep, Abstract!Next
<1>7. CASE AbstractGuarded' # AbstractGuarded /\ AbstractGuarded' = AbstractGuarded \ {b}
  <2>1. Abstract!Unguard(b)
    BY <1>1, <1>7 DEF Abstract!Unguard
  <2> QED
    BY <1>1, <2>1 DEF AbstractStep, Abstract!Next
<1> QED
  BY <1>4, <1>5, <1>6, <1>7

\* Obtaining a block is the abstract Obtain.
LEMMA MallocMaps ==
  ASSUME TInv, SInv, Content, TInv', Content', NEW t \in Thread, NEW b \in Block,
         Dlib_malloc(t, b), fails = 0, fails' = 0
  PROVE  AbstractStep
<1>1. TypeOK /\ TypeOK' /\ pc[t] = "idle" /\ CallsInOrder /\ HeapInOrder
  BY CallBegins DEF Dlib_malloc, TInv, Content
<1>2. b \notin heap
  BY <1>1, DisjointApart DEF Dlib_malloc, TypeOK
<1>3. /\ pc' = [pc EXCEPT ![t] = "reg_lock1"] /\ "reg_lock1" \in PC /\ "reg_lock1" \notin BothListed
      /\ heap' = heap \cup {b} /\ UNCHANGED live /\ b \notin live
      /\ blk' = [blk EXCEPT ![t] = b]
      /\ right' = [right EXCEPT ![t] = b.R]
      /\ undo' = [undo EXCEPT ![t] = FALSE]
  BY <1>1, <1>2 DEF Dlib_malloc, Goto, PC, BothListed, HeapInOrder
<1>4. StepOf(t, b, "reg_lock1")
  BY <1>1, <1>3 DEF StepOf, TypeOK
<1>5. \A u \in Thread \ {t} : pc[u] # "idle" => blk[u] # b
  BY <1>1, <1>2 DEF CallsInOrder, CallInOrder
<1>6. AbstractGuarded' = AbstractGuarded
  BY <1>1, <1>2, <1>3, <1>4, <1>5, GuardedAfter
<1>7. Abstract!Obtain(b)
  BY <1>3, <1>6 DEF Abstract!Obtain, Overlap, Dlib_malloc
<1> QED
  BY <1>7 DEF AbstractStep, Abstract!Next

\* The call of free is the abstract TakeBack.
LEMMA FreeMaps ==
  ASSUME TInv, SInv, Content, TInv', Content', NEW t \in Thread, NEW b \in Block,
         Dlib_free(t, b)
  PROVE  AbstractStep
<1>1. TypeOK /\ TypeOK' /\ pc[t] = "idle" /\ CallsInOrder /\ HeapInOrder
  BY CallBegins DEF Dlib_free, TInv, Content
<1>2. b \in live /\ b \in heap
  BY <1>1 DEF Dlib_free, HeapInOrder
<1>3. /\ pc' = [pc EXCEPT ![t] = "rem_lock1"] /\ "rem_lock1" \in PC /\ "rem_lock1" \in BothListed
      /\ live' = live \ {b} /\ UNCHANGED heap
      /\ blk' = [blk EXCEPT ![t] = b]
      /\ right' = [right EXCEPT ![t] = NULL]
      /\ undo' = [undo EXCEPT ![t] = FALSE]
  BY DEF Dlib_free, Goto, PC, BothListed
<1>4. StepOf(t, b, "rem_lock1")
  BY <1>1, <1>3 DEF StepOf, TypeOK
<1>5. \A u \in Thread \ {t} : pc[u] # "idle" => blk[u] # b
  BY <1>1, <1>2 DEF CallsInOrder, CallInOrder
<1>6. AbstractGuarded' = AbstractGuarded
  BY <1>1, <1>2, <1>3, <1>4, <1>5, GuardedAfter
<1>7. Abstract!TakeBack(b)
  BY <1>2, <1>3, <1>6 DEF Abstract!TakeBack
<1> QED
  BY <1>7 DEF AbstractStep, Abstract!Next

\* The last unlock of a registration hands the block over.
LEMMA RegUnlockMaps ==
  ASSUME TInv, SInv, Content, TInv', Content', NEW t \in Thread, RegUnlock(t)
  PROVE  AbstractStep
<1>1. /\ pc[t] = "reg_unlock" /\ pc[t] # "idle" /\ pc[t] \in BothListed
      /\ ~Refused(t, lockR(t)) /\ "idle" \in PC /\ TypeOK /\ TypeOK'
  BY NotRefused DEF RegUnlock, At, BothListed, RightSection, PC, TInv
<1>2. /\ blk[t] \in Block /\ blk[t] \in heap /\ blk[t] \notin live
      /\ \A u \in Thread \ {t} : pc[u] # "idle" => blk[u] # blk[t]
  BY <1>1, CallFacts
<1>3. /\ pc' = [pc EXCEPT ![t] = "idle"]
      /\ live' = live \cup {blk[t]}
      /\ UNCHANGED <<heap, blk, right, undo>>
  BY <1>1 DEF RegUnlock, Goto, frames
<1>4. StepOf(t, blk[t], "idle")
  BY <1>1, <1>2, <1>3 DEF StepOf, TypeOK
<1>5. AbstractGuarded' = AbstractGuarded /\ blk[t] \in AbstractGuarded
  BY <1>1, <1>2, <1>3, <1>4, GuardedAfter
<1>6. Abstract!HandOver(blk[t])
  BY <1>2, <1>3, <1>5 DEF Abstract!HandOver
<1> QED
  BY <1>2, <1>6 DEF AbstractStep, Abstract!Next

\* The return of a removal gives the block back to the system.
LEMMA RemovedMaps ==
  ASSUME TInv, Content, TInv', Content', NEW t \in Thread, Removed(t)
  PROVE  AbstractStep
<1>1. /\ pc[t] = "removed" /\ pc[t] # "idle" /\ pc[t] \notin BothListed
      /\ "idle" \in PC /\ TypeOK /\ TypeOK'
  BY DEF Removed, At, BothListed, PC, TInv
<1>2. /\ blk[t] \in Block /\ blk[t] \in heap /\ blk[t] \notin live /\ ~undo[t]
      /\ \A u \in Thread \ {t} : pc[u] # "idle" => blk[u] # blk[t]
  BY <1>1, CallFacts
<1>3. /\ pc' = [pc EXCEPT ![t] = "idle"]
      /\ heap' = heap \ {blk[t]}
      /\ UNCHANGED <<live, blk, right, undo>>
  BY <1>2 DEF Removed, Goto, frames
<1>4. StepOf(t, blk[t], "idle")
  BY <1>1, <1>2, <1>3 DEF StepOf, TypeOK
<1>5. AbstractGuarded' = AbstractGuarded /\ blk[t] \notin AbstractGuarded
  BY <1>1, <1>2, <1>3, <1>4, GuardedAfter
<1>6. Abstract!Return(blk[t])
  BY <1>2, <1>3, <1>5 DEF Abstract!Return
<1> QED
  BY <1>2, <1>6 DEF AbstractStep, Abstract!Next

\* All other steps are inside a call.
LEMMA InsideSteps ==
  ASSUME TInv, SInv, Content, TInv', Content', NEW t \in Thread,
         \/ RegLock1(t) \/ RegAdd1(t) \/ RegSwap(t) \/ RegLock2(t) \/ RegAdd2(t)
         \/ RemLock1(t) \/ RemList1(t) \/ RemSwap(t) \/ RemLock2(t) \/ RemList2(t)
         \/ RemUnlock2(t) \/ RemUnlock(t)
  PROVE  AbstractStep
<1>0. TypeOK /\ crashed' = "no"
  BY DEF TInv, Content
<1>1. /\ pc[t] # "idle"
      /\ UNCHANGED <<heap, live, blk>>
      /\ \A u \in Thread \ {t} : right'[u] = right[u] /\ undo'[u] = undo[u]
  <2>1. CASE RemList1(t)
    BY <1>0, <2>1 DEF RemList1, At, TypeOK
  <2>2. CASE ~RemList1(t)
    BY <2>2 DEF At, frames, RegLock1, RegAdd1, RegSwap, RegLock2, RegAdd2, RemLock1, RemSwap,
                RemLock2, RemList2, RemUnlock2, RemUnlock
  <2> QED
    BY <2>1, <2>2
<1>2. \E there \in PC : pc' = [pc EXCEPT ![t] = there]
  <2>1. CASE RegAdd1(t)
    BY <1>0, <2>1 DEF RegAdd1, Goto, PC
  <2>2. CASE RegAdd2(t)
    BY <1>0, <2>2 DEF RegAdd2, Goto, PC
  <2>3. CASE RemList1(t)
    BY <2>3 DEF RemList1, Goto, PC
  <2>4. CASE \/ RegLock1(t) \/ RegSwap(t) \/ RegLock2(t) \/ RemLock1(t) \/ RemSwap(t)
             \/ RemLock2(t) \/ RemList2(t) \/ RemUnlock2(t) \/ RemUnlock(t)
    BY <2>4 DEF Goto, PC, RegLock1, RegSwap, RegLock2, RemLock1, RemSwap,
                RemLock2, RemList2, RemUnlock2, RemUnlock
  <2> QED
    BY <2>1, <2>2, <2>3, <2>4
<1> QED
  BY <1>1, <1>2, InsideMaps

\* Every step maps to a step of the allocator or to none.
LEMMA StepMaps ==
  ASSUME TInv, SInv, Content, TInv', Content', [Next]_vars, fails = 0, fails' = 0
  PROVE  AbstractStep
<1>1. CASE UNCHANGED vars
  <2>1. AbstractGuarded' = AbstractGuarded
    BY <1>1 DEF vars, AbstractGuarded, Registered, Listed
  <2> QED
    BY <1>1, <2>1 DEF vars, AbstractStep, Abstract!vars
<1>2. ASSUME NEW t \in Thread, Call(t) PROVE AbstractStep
  BY <1>2, NoFailureSteps, MallocMaps, FreeMaps DEF Call
<1>3. ASSUME NEW t \in Thread, initLib(t) \/ ReturnAtOnce(t) PROVE AbstractStep
  BY <1>3, NoFailureSteps
<1>4. ASSUME NEW t \in Thread, Registering(t) PROVE AbstractStep
  BY <1>4, NoFailureSteps, InsideSteps, RegUnlockMaps DEF Registering
<1>5. ASSUME NEW t \in Thread, Removing(t) PROVE AbstractStep
  BY <1>5, NoFailureSteps, InsideSteps, RemovedMaps DEF Removing
<1> QED
  BY <1>1, <1>2, <1>3, <1>4, <1>5 DEF Next, Proceed

\* The first states map to the first state of the allocator.
LEMMA InitMaps == Init => Abstract!Init
BY DEF Init, Abstract!Init, AbstractGuarded

\* The threads, the two mutexes and the lists implement the allocator RedZones
\* describes: every interleaving of registrations and removals guards a block before
\* the program holds it, and unguards it before the system gets it back.
THEOREM TableImplementsRedZones ==
  ASSUME PreInit, NoStrayUnlock, MaxFail = 0
  PROVE  Spec => RefinesRedZones
<1>1. TInv => fails = 0
  BY DEF TInv, TypeOK
<1>2. (TInv => fails = 0)'
  BY <1>1, PTL
<1> DEFINE Inv == TInv /\ SInv /\ ContentInv
<1>3. Inv /\ Inv' /\ [Next]_vars => AbstractStep
  BY <1>1, <1>2, StepMaps DEF ContentInv
<1>4. Spec => []Inv
  BY ContentCorrect
<1> QED
  BY <1>3, <1>4, InitMaps, PTL DEF Spec, RefinesRedZones, Abstract!Spec, AbstractStep

-----------------------------------------------------------------------------

\* Who holds a mutex.

\* The mutex a thread may hold: that of its section, or of the last unlock of removeAddr.
MayHold(t, l) == InSection(t, l) \/ (pc[t] = "rem_unlock" /\ l = lockL(t))
HoldsOnly(t) == \A l \in Locks : mutex[l] = t => MayHold(t, l)
HeldInv == fails = 0 => \A t \in Thread : HoldsOnly(t)

\* A thread that waits for a mutex holds none, so no two wait for each other.
WaitPCs == {"reg_lock1", "reg_lock2", "rem_lock1", "rem_lock2"}
WaitingHoldsNoLock ==
  \A t \in Thread : pc[t] \in WaitPCs => \A l \in Locks : mutex[l] # t

\* The others hold what they held, when a step moves t alone and gives no mutex to
\* another.
LEMMA OthersHold ==
  ASSUME TypeOK, NEW t \in Thread, NEW there \in PC, pc' = [pc EXCEPT ![t] = there],
         \A u \in Thread \ {t} : blk'[u] = blk[u] /\ right'[u] = right[u],
         \A l \in Locks : mutex'[l] \in Thread \ {t} => mutex'[l] = mutex[l],
         \A u \in Thread : HoldsOnly(u),
         HoldsOnly(t)'
  PROVE  \A u \in Thread : HoldsOnly(u)'
<1>1. SUFFICES ASSUME NEW u \in Thread \ {t}, NEW l \in Locks, mutex'[l] = u PROVE MayHold(u, l)'
  BY DEF HoldsOnly
<1>2. MayHold(u, l)
  BY <1>1 DEF HoldsOnly
<1>3. pc'[u] = pc[u] /\ lockL(u)' = lockL(u) /\ lockR(u)' = lockR(u)
  BY <1>1 DEF TypeOK, lockL, lockR
<1> QED
  BY <1>2, <1>3 DEF MayHold, InSection

\* A thread in a section holds the mutex of this section and no other.
LEMMA OneHeld ==
  ASSUME SInv, NEW t \in Thread, HoldsOnly(t), NEW m \in Locks, InSection(t, m)
  PROVE  \A l \in Locks : mutex[l] = t <=> l = m
<1>1. mutex[m] = t
  BY DEF SInv, SectionsHeld, Holds
<1>2. \A l \in Locks : InSection(t, l) => l = m
  BY DEF InSection, LeftSection, RightSection
<1>3. pc[t] # "rem_unlock"
  BY DEF InSection, LeftSection, RightSection
<1> QED
  BY <1>1, <1>2, <1>3 DEF HoldsOnly, MayHold

\* Taking a mutex, with none in the hands.
LEMMA TakesOne ==
  ASSUME TInv, SInv, NEW t \in Thread, \A u \in Thread : HoldsOnly(u),
         RegLock1(t) \/ RegLock2(t) \/ RemLock1(t) \/ RemLock2(t)
  PROVE  \A u \in Thread : HoldsOnly(u)'
<1>0. TypeOK
  BY DEF TInv
<1>1. pc[t] \in WaitPCs /\ UNCHANGED frames
  BY DEF RegLock1, RegLock2, RemLock1, RemLock2, At, WaitPCs
<1>2. \A l \in Locks : mutex[l] # t
  BY <1>1 DEF HoldsOnly, MayHold, InSection, LeftSection, RightSection, WaitPCs
<1>3. PICK there \in {"reg_add1", "reg_add2", "rem_list1", "rem_list2"}, m \in Locks :
        /\ pc' = [pc EXCEPT ![t] = there]
        /\ mutex' = [mutex EXCEPT ![m] = t]
        /\ there \in {"reg_add1", "rem_list1"} => m = lockL(t)
        /\ there \in {"reg_add2", "rem_list2"} => m = lockR(t)
  <2>1. lockL(t) \in Locks /\ lockR(t) \in Locks
    BY LockExists DEF lockL, lockR
  <2>2. CASE RegLock1(t)
    BY <2>1, <2>2 DEF RegLock1, Goto, lock
  <2>3. CASE RegLock2(t)
    BY <2>1, <2>3 DEF RegLock2, Goto, lock
  <2>4. CASE RemLock1(t)
    BY <2>1, <2>4 DEF RemLock1, Goto, lock
  <2>5. CASE RemLock2(t)
    BY <2>1, <2>5 DEF RemLock2, Goto, lock
  <2> QED
    BY <2>2, <2>3, <2>4, <2>5
<1>4. \A l \in Locks : mutex'[l] = IF l = m THEN t ELSE mutex[l]
  BY <1>0, <1>3 DEF TypeOK
<1>5. pc'[t] = there /\ there \in PC
  BY <1>0, <1>3 DEF TypeOK, PC
<1>6. lockL(t)' = lockL(t) /\ lockR(t)' = lockR(t)
  BY <1>1 DEF frames, lockL, lockR
<1>7. HoldsOnly(t)'
  BY <1>2, <1>3, <1>4, <1>5, <1>6 DEF HoldsOnly, MayHold, InSection, LeftSection, RightSection
<1>8. \A u \in Thread \ {t} : blk'[u] = blk[u] /\ right'[u] = right[u]
  BY <1>1 DEF frames
<1> QED
  BY <1>0, <1>3, <1>4, <1>5, <1>7, <1>8, OthersHold

\* Releasing the mutex of one's section: what is next is to hold none.
LEMMA GivesBack ==
  ASSUME TInv, SInv, NEW t \in Thread, \A u \in Thread : HoldsOnly(u),
         NEW m \in Locks, NEW there \in PC, pc' = [pc EXCEPT ![t] = there],
         unlock(t, m), UNCHANGED <<blk, right>>,
         \A l \in Locks : mutex[l] = t => l = m
  PROVE  \A u \in Thread : HoldsOnly(u)'
<1>0. TypeOK /\ NoThread \notin Thread
  BY ThreadAssumption DEF TInv
<1>1. \A l \in Locks : mutex'[l] # t /\ (mutex'[l] # NoThread => mutex'[l] = mutex[l])
  BY <1>0 DEF unlock, Refused, TypeOK
<1>2. HoldsOnly(t)'
  BY <1>1 DEF HoldsOnly
<1> QED
  BY <1>0, <1>1, <1>2, OthersHold

\* Every unlock of a call that goes well is of the mutex the thread holds, or of none.
LEMMA UnlocksGiveBack ==
  ASSUME TInv, SInv, NEW t \in Thread, \A u \in Thread : HoldsOnly(u),
         RegSwap(t) \/ RegUnlock(t) \/ RemSwap(t) \/ RemUnlock2(t) \/ RemUnlock(t)
  PROVE  \A u \in Thread : HoldsOnly(u)'
<1>0. HoldsOnly(t) /\ lockL(t) \in Locks /\ lockR(t) \in Locks
  BY LockExists DEF lockL, lockR
<1>1. CASE RegSwap(t)
  <2>1. pc[t] = "reg_swap" /\ unlock(t, lockL(t)) /\ UNCHANGED <<blk, right>>
    BY <1>1 DEF RegSwap, At, frames
  <2>2. PICK there \in PC : pc' = [pc EXCEPT ![t] = there]
    BY <1>1 DEF RegSwap, Goto, PC
  <2>3. \A l \in Locks : mutex[l] = t => l = lockL(t)
    BY <1>0, <2>1, OneHeld DEF InSection, LeftSection
  <2> QED
    BY <1>0, <2>1, <2>2, <2>3, GivesBack
<1>2. CASE RegUnlock(t)
  <2>1. pc[t] = "reg_unlock" /\ unlock(t, lockR(t)) /\ UNCHANGED <<blk, right>>
    BY <1>2 DEF RegUnlock, At, frames
  <2>2. PICK there \in PC : pc' = [pc EXCEPT ![t] = there]
    BY <1>2 DEF RegUnlock, Goto, PC
  <2>3. \A l \in Locks : mutex[l] = t => l = lockR(t)
    BY <1>0, <2>1, OneHeld DEF InSection, RightSection
  <2> QED
    BY <1>0, <2>1, <2>2, <2>3, GivesBack
<1>3. CASE RemSwap(t)
  <2>1. pc[t] = "rem_swap" /\ unlock(t, lockL(t)) /\ UNCHANGED <<blk, right>>
    BY <1>3 DEF RemSwap, At, frames
  <2>2. PICK there \in PC : pc' = [pc EXCEPT ![t] = there]
    BY <1>3 DEF RemSwap, Goto, PC
  <2>3. \A l \in Locks : mutex[l] = t => l = lockL(t)
    BY <1>0, <2>1, OneHeld DEF InSection, LeftSection
  <2> QED
    BY <1>0, <2>1, <2>2, <2>3, GivesBack
<1>4. CASE RemUnlock2(t)
  <2>1. pc[t] = "rem_unlock2" /\ unlock(t, lockR(t)) /\ UNCHANGED <<blk, right>>
    BY <1>4 DEF RemUnlock2, At, frames
  <2>2. PICK there \in PC : pc' = [pc EXCEPT ![t] = there]
    BY <1>4 DEF RemUnlock2, Goto, PC
  <2>3. \A l \in Locks : mutex[l] = t => l = lockR(t)
    BY <1>0, <2>1, OneHeld DEF InSection, RightSection
  <2> QED
    BY <1>0, <2>1, <2>2, <2>3, GivesBack
<1>5. CASE RemUnlock(t)
  <2>1. pc[t] = "rem_unlock" /\ unlock(t, lockL(t)) /\ UNCHANGED <<blk, right>>
    BY <1>5 DEF RemUnlock, At, frames
  <2>2. PICK there \in PC : pc' = [pc EXCEPT ![t] = there]
    BY <1>5 DEF RemUnlock, Goto, PC
  <2>3. \A l \in Locks : mutex[l] = t => l = lockL(t)
    BY <1>0, <2>1 DEF HoldsOnly, MayHold, InSection, LeftSection, RightSection
  <2> QED
    BY <1>0, <2>1, <2>2, <2>3, GivesBack
<1> QED
  BY <1>1, <1>2, <1>3, <1>4, <1>5

\* Working on a list: t goes on to where it uses the mutex it holds.
LEMMA KeepsOne ==
  ASSUME TInv, SInv, SInv', Content', NEW t \in Thread, \A u \in Thread : HoldsOnly(u),
         RegAdd1(t) \/ RegAdd2(t) \/ RemList1(t) \/ RemList2(t), fails' = 0
  PROVE  \A u \in Thread : HoldsOnly(u)'
<1>0. TypeOK /\ lockL(t) \in Locks /\ lockR(t) \in Locks /\ HoldsOnly(t) /\ crashed' = "no"
  BY LockExists DEF TInv, lockL, lockR, Content
<1>1. /\ mutex' = mutex /\ blk' = blk /\ pc[t] \in LeftSection \cup RightSection
      /\ \A u \in Thread \ {t} : right'[u] = right[u]
  BY <1>0 DEF RegAdd1, RegAdd2, RemList1, RemList2, At, frames, LeftSection, RightSection, TypeOK
<1>2. PICK there \in {"reg_deny", "reg_unlock", "reg_swap", "reg_add2", "reg_undo", "rem_abort1",
                     "rem_unlock", "rem_list2", "rem_swap", "rem_abort2", "rem_unlock2"} :
        /\ pc' = [pc EXCEPT ![t] = there]
        /\ there = "rem_unlock" => RemList1(t)
  <2>1. CASE RegAdd1(t)
    BY <1>0, <2>1 DEF RegAdd1, Goto
  <2>2. CASE RegAdd2(t)
    BY <1>0, <2>2 DEF RegAdd2, Goto
  <2>3. CASE RemList1(t)
    BY <2>3 DEF RemList1, Goto
  <2>4. CASE RemList2(t)
    BY <2>4 DEF RemList2, Goto
  <2> QED
    BY <2>1, <2>2, <2>3, <2>4
<1>3. pc'[t] = there /\ there \in PC
  BY <1>0, <1>2 DEF TypeOK, PC
<1>4. PICK m \in Locks : InSection(t, m)
  BY <1>0, <1>1 DEF InSection
<1>5. \A l \in Locks : mutex[l] = t <=> l = m
  BY <1>0, <1>4, OneHeld
<1>6. HoldsOnly(t)'
  <2>1. CASE there = "rem_unlock"
    <3>1. m = lockL(t) /\ lockL(t)' = lockL(t)
      BY <1>1, <1>2, <1>4, <2>1 DEF RemList1, At, InSection, LeftSection, RightSection, lockL
    <3> QED
      BY <1>1, <1>3, <1>5, <2>1, <3>1 DEF HoldsOnly, MayHold
  <2>2. CASE there # "rem_unlock"
    <3>1. there \in LeftSection \cup RightSection
      BY <1>2, <2>2 DEF LeftSection, RightSection
    <3>2. PICK n \in Locks : InSection(t, n)'
      <4>1. lockL(t)' \in Locks /\ lockR(t)' \in Locks
        BY LockExists DEF lockL, lockR
      <4> QED
        BY <1>3, <3>1, <4>1 DEF InSection
    <3>3. mutex'[n] = t
      BY <3>2 DEF SInv, SectionsHeld, Holds
    <3>4. n = m
      BY <1>1, <1>5, <3>3
    <3> QED
      BY <1>1, <1>5, <3>2, <3>4 DEF HoldsOnly, MayHold
  <2> QED
    BY <2>1, <2>2
<1> QED
  BY <1>0, <1>1, <1>2, <1>3, <1>6, OthersHold

\* Calls begin and end with no mutex held.
LEMMA CallsHoldNone ==
  ASSUME TInv, SInv, Content, NEW t \in Thread, \A u \in Thread : HoldsOnly(u),
         Call(t) \/ Removed(t)
  PROVE  \A u \in Thread : HoldsOnly(u)'
<1>0. TypeOK
  BY DEF TInv
<1>1. pc[t] \in {"idle", "removed"} /\ mutex' = mutex
  BY NoFailureSteps, CallBegins DEF Call, Dlib_malloc, Dlib_free, Removed, At, library
<1>2. \A l \in Locks : mutex[l] # t
  BY <1>1 DEF HoldsOnly, MayHold, InSection, LeftSection, RightSection
<1>3. PICK there \in PC : pc' = [pc EXCEPT ![t] = there]
  BY NoFailureSteps DEF Call, Dlib_malloc, Dlib_free, Removed, Goto, PC
<1>4. \A u \in Thread \ {t} : blk'[u] = blk[u] /\ right'[u] = right[u]
  BY <1>0, NoFailureSteps DEF Call, Dlib_malloc, Dlib_free, Removed, frames, TypeOK
<1>5. HoldsOnly(t)'
  BY <1>1, <1>2 DEF HoldsOnly
<1> QED
  BY <1>0, <1>1, <1>3, <1>4, <1>5, OthersHold

\* So each step keeps what the threads hold to what they may hold.
LEMMA StepHeld ==
  ASSUME TInv, SInv, Content, SInv', Content', [Next]_vars, fails' = 0,
         \A u \in Thread : HoldsOnly(u)
  PROVE  \A u \in Thread : HoldsOnly(u)'
<1>1. CASE UNCHANGED vars
  BY <1>1 DEF vars, HoldsOnly, MayHold, InSection, lockL, lockR
<1>2. ASSUME NEW t \in Thread, Call(t) \/ Proceed(t) PROVE \A u \in Thread : HoldsOnly(u)'
  BY <1>2, NoFailureSteps, TakesOne, UnlocksGiveBack, KeepsOne, CallsHoldNone
  DEF Proceed, Registering, Removing
<1> QED
  BY <1>1, <1>2 DEF Next

\* As long as no allocation of a node fails, a thread holds only the mutex of the list it
\* works on: none when a call has returned (IdleHoldsNoLock), and none while it waits for
\* another, whatever the other threads do, so that the two mutexes cannot deadlock.
THEOREM NoLockKept ==
  ASSUME PreInit, NoStrayUnlock
  PROVE  Spec => [](fails = 0 => IdleHoldsNoLock /\ WaitingHoldsNoLock)
<1> DEFINE I == TInv /\ SInv /\ ContentInv
<1>1. Init => HeldInv
  BY ThreadAssumption DEF Init, HeldInv, HoldsOnly
<1>2. I /\ I' /\ HeldInv /\ [Next]_vars => HeldInv'
  <2> SUFFICES ASSUME I, I', HeldInv, [Next]_vars, fails' = 0
               PROVE  \A u \in Thread : HoldsOnly(u)'
    BY DEF HeldInv
  <2>1. fails = 0
    BY FailsGrow DEF TInv, TypeOK
  <2> QED
    BY <2>1, StepHeld DEF ContentInv, HeldInv
<1>3. HeldInv => (fails = 0 => IdleHoldsNoLock /\ WaitingHoldsNoLock)
  BY DEF HeldInv, HoldsOnly, MayHold, InSection, LeftSection, RightSection, IdleHoldsNoLock,
         WaitingHoldsNoLock, WaitPCs
<1>4. Spec => []I
  BY ContentCorrect
<1> HIDE DEF I
<1> QED
  BY <1>1, <1>2, <1>3, <1>4, PTL DEF Spec

-----------------------------------------------------------------------------
(***************************************************************************)
(* The mutexes of a program of one thread, on the paths on which           *)
(* allocations of nodes fail too.  The content of the table is then lost,  *)
(* what is left is this: a counter covers its list and the blocks counted  *)
(* but linked nowhere, and the search for a block of the heap by its left  *)
(* address comes to no other block's entry.  It is what keeps the rollback *)
(* of registerAddr on the branch that unlocks the right mutex.             *)
(***************************************************************************)

\* Each entry of a list ends behind the beginning of all entries before it.  The lists
\* keep this much order whatever the blocks they are given.
Behind(list) == \A i, j \in 1 .. Len(list) : i < j => list[i].L <= list[j].R

\* The entry that a search for the left red zone of b comes to, if any, is b's own.
FoundFirst(list, b) == \A i \in 1 .. Len(list) : list[i].L = b.L => \E j \in 1 .. i : list[j] = b

Shares(list, b) == \E i \in 1 .. Len(list) : SameRedZone(list[i], b)

\* A list l is another one with e linked in at a position, ...
LinkedAt(l, list, at, e) ==
  /\ l \in Seq(Block) /\ Len(l) = Len(list) + 1
  /\ \A j \in 1 .. Len(list) + 1 :
       l[j] = IF j < at THEN list[j] ELSE IF j = at THEN e ELSE list[j - 1]

\* ... which addAddrToList chooses thus.
PlaceFor(list, at, e) ==
  /\ \A i \in 1 .. Len(list) : i < at => list[i].L <= e.R /\ list[i].L # e.L
  /\ \A i \in 1 .. Len(list) : at <= i => e.L <= list[i].R

\* addAddrToList accepts an entry and counts it, linked or not; or it finds one that
\* shares a red zone with it; or it crashes.
LEMMA AddOutcome ==
  ASSUME NEW bucket \in BucketType, NEW e \in Block, Behind(bucket.list),
         NEW a, a = addAddrToList(bucket, e)
  PROVE  \/ a.res = "segv"
         \/ a.res = "denied" /\ a.bucket = bucket /\ Shares(bucket.list, e)
         \/ /\ a.res = "added" /\ a.bucket.counter = bucket.counter + 1
            /\ \/ a.bucket.list = bucket.list /\ ~Shares(bucket.list, e)
               \/ \E at \in 1 .. Len(bucket.list) + 1 :
                     LinkedAt(a.bucket.list, bucket.list, at, e) /\ PlaceFor(bucket.list, at, e)
<1> DEFINE list == bucket.list
           n == Len(list)
           I == {i \in 1 .. n : SameRedZone(list[i], e) \/ e.R < list[i].L}
           stop == FirstOf(I)
           With(l) == [res    |-> "added",
                       bucket |-> [counter |-> bucket.counter + 1, list |-> l]]
           Fits(l) == \E at \in 1 .. n + 1 : LinkedAt(l, list, at, e) /\ PlaceFor(list, at, e)
<1>1. list \in Seq(Block) /\ n \in Nat /\ \A i \in 1 .. n : list[i] \in Block
  BY DEF BucketType
<1>2. \A i \in 1 .. n : list[i].L \in Nat /\ list[i].R \in Nat /\ list[i].L < list[i].R
  <2> TAKE i \in 1 .. n
  <2>1. list[i] \in Block
    BY <1>1
  <2> QED
    BY <2>1, BlockBounds
<1>3. e.L \in Nat /\ e.R \in Nat /\ e.L < e.R
  BY BlockBounds
<1>4. ASSUME NEW l, a = With(l), Fits(l)
      PROVE  /\ a.res = "added" /\ a.bucket.counter = bucket.counter + 1
             /\ \E at \in 1 .. n + 1 : LinkedAt(a.bucket.list, list, at, e) /\ PlaceFor(list, at, e)
  <2>1. a.res = "added" /\ a.bucket.counter = bucket.counter + 1 /\ a.bucket.list = l
    BY <1>4
  <2> QED
    BY <1>4, <2>1
<1>5. CASE Dangling(bucket)
  BY <1>5 DEF addAddrToList, Dangling
<1>6. CASE ~Dangling(bucket) /\ list = <<>>
  <2>1. a = With(<<e>>)
    BY <1>6 DEF addAddrToList, Dangling
  <2>2. LinkedAt(<<e>>, list, 1, e) /\ PlaceFor(list, 1, e) /\ 1 \in 1 .. n + 1
    BY <1>6 DEF LinkedAt, PlaceFor
  <2>3. Fits(<<e>>)
    BY <2>2
  <2> HIDE DEF With, Fits
  <2> QED
    BY <1>4, <2>1, <2>3
<1>7. CASE ~Dangling(bucket) /\ list # <<>> /\ Last(list).R < e.L
  <2>1. a = With(Append(list, e))
    BY <1>7 DEF addAddrToList, Dangling
  <2>2. n \in 1 .. n /\ list[n].R < e.L
    BY <1>1, <1>7 DEF Last
  <2>3. LinkedAt(Append(list, e), list, n + 1, e)
    <3>1. /\ Append(list, e) \in Seq(Block) /\ Len(Append(list, e)) = n + 1
          /\ \A i \in 1 .. n : Append(list, e)[i] = list[i]
          /\ Append(list, e)[n + 1] = e
      BY <1>1, AppendProperties
    <3> QED
      BY <1>1, <3>1 DEF LinkedAt
  <2>4. PlaceFor(list, n + 1, e)
    <3>1. ASSUME NEW i \in 1 .. n PROVE list[i].L <= list[n].R
      <4>1. CASE i = n
        BY <1>2, <2>2, <4>1
      <4>2. CASE i # n
        <5>1. i < n
          BY <1>1, <4>2
        <5> QED
          BY <2>2, <5>1 DEF Behind
      <4> QED
        BY <4>1, <4>2
    <3>2. ASSUME NEW i \in 1 .. n PROVE list[i].L <= e.R /\ list[i].L # e.L
      <4>1. list[i].L \in Nat /\ list[n].R \in Nat /\ list[i].L <= list[n].R
        BY <1>2, <2>2, <3>1
      <4> QED
        BY <1>3, <2>2, <4>1
    <3>3. \A i \in 1 .. n : ~(n + 1 <= i)
      BY <1>1
    <3> QED
      BY <3>2, <3>3 DEF PlaceFor
  <2>5. Fits(Append(list, e))
    <3>1. n + 1 \in 1 .. n + 1
      BY <1>1
    <3> QED
      BY <2>3, <2>4, <3>1
  <2> HIDE DEF With, Fits
  <2> QED
    BY <1>4, <2>1, <2>5
<1>8. CASE ~Dangling(bucket) /\ list # <<>> /\ ~(Last(list).R < e.L)
  <2>1. I \in SUBSET (1 .. n)
    OBVIOUS
  <2>2. stop \in 0 .. n /\ (stop # 0 => stop \in I) /\ (stop = 0 <=> I = {}) /\ \A j \in I : stop <= j
    <3> HIDE DEF I
    <3> QED
      BY <1>1, <2>1, FirstOfType, FirstOfLeast
  <2>3. a = IF stop = 0 THEN With(list)
            ELSE IF SameRedZone(list[stop], e) THEN [res |-> "denied", bucket |-> bucket]
            ELSE With(InsertAt(list, stop, e))
    BY <1>8 DEF addAddrToList, Dangling
  <2> HIDE DEF stop
  <2>4. CASE stop = 0
    <3>1. ~Shares(list, e)
      BY <2>2, <2>4 DEF Shares
    <3> QED
      BY <2>3, <2>4, <3>1
  <2>5. CASE stop # 0 /\ SameRedZone(list[stop], e)
    <3>1. Shares(list, e)
      BY <2>2, <2>5 DEF Shares
    <3> QED
      BY <2>3, <2>5, <3>1
  <2>6. CASE stop # 0 /\ ~SameRedZone(list[stop], e)
    <3>1. stop \in 1 .. n /\ e.R < list[stop].L
      BY <2>2, <2>6
    <3>2. LinkedAt(InsertAt(list, stop, e), list, stop, e)
      <4>1. InsertAt(list, stop, e) \in Seq(Block)
        BY <1>1, <3>1, InsertAtType
      <4>2. /\ Len(InsertAt(list, stop, e)) = n + 1
            /\ \A j \in 1 .. n + 1 : InsertAt(list, stop, e)[j]
                 = IF j < stop THEN list[j] ELSE IF j = stop THEN e ELSE list[j - 1]
        <5>1. list \in Seq(Block) /\ stop \in 1 .. Len(list) /\ e \in Block
          BY <1>1, <3>1
        <5> HIDE DEF list
        <5> QED
          BY <5>1, InsertAtElements
      <4> QED
        BY <4>1, <4>2 DEF LinkedAt
    <3>3. PlaceFor(list, stop, e)
      <4>1. ASSUME NEW i \in 1 .. n, i < stop PROVE list[i].L <= e.R /\ list[i].L # e.L
        <5>1. i \notin I
          BY <1>1, <2>2, <3>1, <4>1
        <5> QED
          BY <1>2, <1>3, <5>1 DEF SameRedZone
      <4>2. ASSUME NEW i \in 1 .. n, stop <= i PROVE e.L <= list[i].R
        <5>1. list[stop].L <= list[i].R
          <6>1. CASE i = stop
            BY <1>2, <6>1
          <6>2. CASE i # stop
            <7>1. stop < i
              BY <1>1, <3>1, <4>2, <6>2
            <7> QED
              BY <3>1, <7>1 DEF Behind
          <6> QED
            BY <6>1, <6>2
        <5>2. list[stop].L \in Nat /\ list[i].R \in Nat
          BY <1>2, <3>1
        <5> QED
          BY <1>3, <3>1, <5>1, <5>2
      <4> QED
        BY <4>1, <4>2 DEF PlaceFor
    <3>4. Fits(InsertAt(list, stop, e))
      <4>1. stop \in 1 .. n + 1
        BY <1>1, <3>1
      <4> QED
        BY <3>2, <3>3, <4>1
    <3>5. a = With(InsertAt(list, stop, e))
      BY <2>3, <2>6
    <3> HIDE DEF With, Fits
    <3> QED
      BY <1>4, <3>4, <3>5
  <2> QED
    BY <2>4, <2>5, <2>6
<1> QED
  BY <1>5, <1>6, <1>7, <1>8

\* Linking an entry in there keeps the order and what the searches for other blocks
\* come to; the search for its own left red zone comes to the new entry.
LEMMA LinkedKeeps ==
  ASSUME NEW list \in Seq(Block), NEW l, NEW e \in Block, NEW at \in 1 .. Len(list) + 1,
         LinkedAt(l, list, at, e), PlaceFor(list, at, e), Behind(list)
  PROVE  /\ Behind(l) /\ FoundFirst(l, e)
         /\ \A c : c.L # e.L /\ FoundFirst(list, c) => FoundFirst(l, c)
         /\ {l[i] : i \in 1 .. Len(l)} = {list[i] : i \in 1 .. Len(list)} \cup {e}
<1> DEFINE n == Len(list)
<1>1. n \in Nat /\ Len(l) = n + 1 /\ at \in Nat
  BY DEF LinkedAt
<1>2. \A j \in 1 .. n + 1 : l[j] = IF j < at THEN list[j] ELSE IF j = at THEN e ELSE list[j - 1]
  BY DEF LinkedAt
<1>3. \A i \in 1 .. n : list[i] \in Block /\ list[i].L \in Nat /\ list[i].R \in Nat /\ list[i].L < list[i].R
  <2> TAKE i \in 1 .. n
  <2>1. list[i] \in Block
    OBVIOUS
  <2> QED
    BY <2>1, BlockBounds
<1>4. e.L \in Nat /\ e.R \in Nat /\ e.L < e.R
  BY BlockBounds
<1>5. ASSUME NEW j \in 1 .. n + 1
      PROVE  \/ j < at /\ j \in 1 .. n /\ l[j] = list[j]
             \/ j = at /\ l[j] = e
             \/ j > at /\ j - 1 \in 1 .. n /\ l[j] = list[j - 1]
  BY <1>1, <1>2
<1>6. Behind(l)
  <2> SUFFICES ASSUME NEW i \in 1 .. n + 1, NEW j \in 1 .. n + 1, i < j PROVE l[i].L <= l[j].R
    BY <1>1 DEF Behind
  <2>1. CASE i = at
    <3>1. l[i] = e /\ j - 1 \in 1 .. n /\ l[j] = list[j - 1] /\ at <= j - 1
      BY <1>1, <1>5, <2>1
    <3> QED
      BY <3>1 DEF PlaceFor
  <2>2. CASE j = at
    <3>1. l[j] = e /\ i \in 1 .. n /\ l[i] = list[i] /\ i < at
      BY <1>1, <1>5, <2>2
    <3> QED
      BY <3>1 DEF PlaceFor
  <2>3. CASE i # at /\ j # at
    <3>1. PICK p \in 1 .. n, q \in 1 .. n : p < q /\ l[i] = list[p] /\ l[j] = list[q]
      <4>1. CASE j < at
        BY <1>1, <1>5, <4>1
      <4>2. CASE i < at /\ at < j
        <5>1. i \in 1 .. n /\ l[i] = list[i] /\ j - 1 \in 1 .. n /\ l[j] = list[j - 1] /\ i < j - 1
          BY <1>1, <1>5, <4>2
        <5> QED
          BY <5>1
      <4>3. CASE at < i
        <5>1. i - 1 \in 1 .. n /\ l[i] = list[i - 1] /\ j - 1 \in 1 .. n /\ l[j] = list[j - 1]
              /\ i - 1 < j - 1
          BY <1>1, <1>5, <4>3
        <5> QED
          BY <5>1
      <4> QED
        BY <1>1, <2>3, <4>1, <4>2, <4>3, SMTT(30)
    <3> QED
      BY <3>1 DEF Behind
  <2> QED
    BY <2>1, <2>2, <2>3
<1>7. at \in 1 .. n + 1 /\ l[at] = e
  BY <1>1, <1>5
<1>8. FoundFirst(l, e)
  <2> SUFFICES ASSUME NEW i \in 1 .. n + 1, l[i].L = e.L PROVE \E j \in 1 .. i : l[j] = e
    BY <1>1 DEF FoundFirst
  <2>1. CASE i < at
    <3>1. i \in 1 .. n /\ l[i] = list[i]
      BY <1>1, <1>5, <2>1
    <3> QED
      BY <2>1, <3>1 DEF PlaceFor
  <2>2. CASE ~(i < at)
    <3>1. at \in 1 .. i
      BY <1>1, <2>2
    <3> QED
      BY <1>7, <3>1
  <2> QED
    BY <2>1, <2>2
<1>9. ASSUME NEW c, c.L # e.L, FoundFirst(list, c) PROVE FoundFirst(l, c)
  <2> SUFFICES ASSUME NEW i \in 1 .. n + 1, l[i].L = c.L PROVE \E j \in 1 .. i : l[j] = c
    BY <1>1 DEF FoundFirst
  <2>1. i # at
    BY <1>7, <1>9
  <2>2. PICK p \in 1 .. n : l[i] = list[p] /\ ((p = i /\ i < at) \/ (p = i - 1 /\ at <= p))
    BY <1>1, <1>5, <2>1
  <2>3. PICK q \in 1 .. p : list[q] = c
    BY <1>9, <2>2 DEF FoundFirst
  <2>4. CASE q < at
    <3>1. q \in 1 .. i /\ q \in 1 .. n + 1 /\ l[q] = list[q]
      BY <1>1, <1>2, <2>2, <2>3, <2>4
    <3> QED
      BY <2>3, <3>1
  <2>5. CASE at <= q
    <3>1. q + 1 \in 1 .. i /\ q + 1 \in 1 .. n + 1 /\ at < q + 1 /\ (q + 1) - 1 = q
      BY <1>1, <2>2, <2>3, <2>5
    <3>2. l[q + 1] = list[q]
      BY <1>1, <1>2, <3>1
    <3> QED
      BY <2>3, <3>1, <3>2
  <2> QED
    BY <1>1, <2>4, <2>5
<1>10. {l[i] : i \in 1 .. n + 1} = {list[i] : i \in 1 .. n} \cup {e}
  <2>1. ASSUME NEW i \in 1 .. n + 1 PROVE l[i] \in {list[p] : p \in 1 .. n} \cup {e}
    BY <1>5
  <2>2. ASSUME NEW p \in 1 .. n PROVE \E i \in 1 .. n + 1 : l[i] = list[p]
    <3>1. CASE p < at
      BY <1>1, <1>2, <3>1
    <3>2. CASE at <= p
      <4>1. p + 1 \in 1 .. n + 1 /\ at < p + 1 /\ (p + 1) - 1 = p
        BY <1>1, <3>2
      <4>2. l[p + 1] = list[p]
        BY <1>1, <1>2, <4>1
      <4> QED
        BY <4>1, <4>2
    <3> QED
      BY <1>1, <3>1, <3>2
  <2> QED
    BY <1>7, <2>1, <2>2
<1> QED
  BY <1>1, <1>6, <1>8, <1>9, <1>10

\* removeAddrFromList finds nothing, because the counter says the bucket is empty or
\* because no entry shares a red zone; or it unlinks the first entry that does.  The
\* counter goes down unless it is 0.
LEMMA RemoveOutcome ==
  ASSUME NEW bucket \in BucketType, NEW e, NEW a, a = removeAddrFromList(bucket, e)
  PROVE  \/ bucket.counter = 0 /\ a.bucket = bucket /\ a.found = NoEntry
         \/ /\ bucket.counter # 0 /\ ~Shares(bucket.list, e) /\ a.found = NoEntry
            /\ a.bucket.counter = bucket.counter - 1 /\ a.bucket.list = bucket.list
         \/ /\ bucket.counter # 0 /\ a.bucket.counter = bucket.counter - 1
            /\ \E at \in 1 .. Len(bucket.list) :
                 /\ a.found = bucket.list[at] /\ SameRedZone(bucket.list[at], e)
                 /\ \A i \in 1 .. Len(bucket.list) : SameRedZone(bucket.list[i], e) => at <= i
                 /\ a.bucket.list = RemoveAt(bucket.list, at)
<1> DEFINE list == bucket.list
           n == Len(list)
           I == {i \in 1 .. n : SameRedZone(list[i], e)}
           at == FirstOf(I)
<1>1. list \in Seq(Block) /\ n \in Nat
  BY DEF BucketType
<1>2. at \in 0 .. n /\ (at # 0 => at \in I) /\ (at = 0 <=> I = {}) /\ \A j \in I : at <= j
  <2>1. I \in SUBSET (1 .. n)
    OBVIOUS
  <2> HIDE DEF I
  <2> QED
    BY <1>1, <2>1, FirstOfType, FirstOfLeast
<1>3. at = Find(list, e)
  BY DEF Find
<1> HIDE DEF at
<1>4. CASE bucket.counter = 0
  BY <1>4 DEF removeAddrFromList
<1>5. CASE bucket.counter # 0 /\ at = 0
  <2>1. a = [found |-> NoEntry, bucket |-> [counter |-> bucket.counter - 1, list |-> list]]
    BY <1>3, <1>5 DEF removeAddrFromList
  <2>2. ~Shares(list, e)
    BY <1>2, <1>5 DEF Shares
  <2> QED
    BY <1>5, <2>1, <2>2
<1>6. CASE bucket.counter # 0 /\ at # 0
  <2>1. a = [found  |-> list[at],
             bucket |-> [counter |-> bucket.counter - 1, list |-> RemoveAt(list, at)]]
    BY <1>3, <1>6 DEF removeAddrFromList
  <2>2. at \in 1 .. n /\ SameRedZone(list[at], e) /\ \A i \in 1 .. n : SameRedZone(list[i], e) => at <= i
    BY <1>1, <1>2, <1>6
  <2> HIDE DEF I
  <2> QED
    BY <1>6, <2>1, <2>2
<1> QED
  BY <1>4, <1>5, <1>6

\* Unlinking an entry keeps the order and what the searches for other blocks come to.
LEMMA UnlinkedKeeps ==
  ASSUME NEW list \in Seq(Block), NEW at \in 1 .. Len(list), Behind(list)
  PROVE  LET l == RemoveAt(list, at)
         IN  /\ Behind(l) /\ Len(l) = Len(list) - 1
             /\ \A c : c # list[at] /\ FoundFirst(list, c) => FoundFirst(l, c)
             /\ \A c : c # list[at] /\ c \in {list[i] : i \in 1 .. Len(list)}
                         => c \in {l[i] : i \in 1 .. Len(l)}
<1> DEFINE n == Len(list)
           l == RemoveAt(list, at)
<1>1. n \in Nat /\ at \in Nat /\ Len(l) = n - 1
      /\ \A j \in 1 .. n - 1 : l[j] = IF j < at THEN list[j] ELSE list[j + 1]
  BY RemoveAtElements
<1> HIDE DEF l
<1>2. ASSUME NEW p \in 1 .. n, p # at
      PROVE  \/ p < at /\ p \in 1 .. n - 1 /\ l[p] = list[p]
             \/ p > at /\ p - 1 \in 1 .. n - 1 /\ l[p - 1] = list[p]
  <2>1. CASE p < at
    <3>1. p \in 1 .. n - 1
      BY <1>1, <2>1
    <3> QED
      BY <1>1, <2>1, <3>1
  <2>2. CASE p > at
    <3>1. p - 1 \in 1 .. n - 1 /\ ~(p - 1 < at) /\ (p - 1) + 1 = p
      BY <1>1, <2>2
    <3>2. l[p - 1] = list[(p - 1) + 1]
      BY <1>1, <3>1
    <3> QED
      BY <2>2, <3>1, <3>2
  <2> QED
    BY <1>1, <1>2, <2>1, <2>2
<1>3. Behind(l)
  <2> SUFFICES ASSUME NEW i \in 1 .. n - 1, NEW j \in 1 .. n - 1, i < j PROVE l[i].L <= l[j].R
    BY <1>1 DEF Behind
  <2>1. PICK p \in 1 .. n, q \in 1 .. n : p < q /\ l[i] = list[p] /\ l[j] = list[q]
    <3>1. i \in 1 .. n /\ j \in 1 .. n /\ i + 1 \in 1 .. n /\ j + 1 \in 1 .. n
          /\ i < j + 1 /\ i + 1 < j + 1
      BY <1>1
    <3>2. CASE j < at
      <4>1. l[i] = list[i] /\ l[j] = list[j]
        BY <1>1, <3>2
      <4> QED
        BY <3>1, <4>1
    <3>3. CASE ~(j < at) /\ i < at
      BY <1>1, <3>1, <3>3
    <3>4. CASE ~(j < at) /\ ~(i < at)
      BY <1>1, <3>1, <3>4
    <3> QED
      BY <3>2, <3>3, <3>4
  <2> QED
    BY <2>1 DEF Behind
<1>4. ASSUME NEW c, c # list[at], FoundFirst(list, c) PROVE FoundFirst(l, c)
  <2> SUFFICES ASSUME NEW i \in 1 .. n - 1, l[i].L = c.L PROVE \E j \in 1 .. i : l[j] = c
    BY <1>1 DEF FoundFirst
  <2>1. PICK p \in 1 .. n : l[i] = list[p] /\ ((p = i /\ i < at) \/ (p = i + 1 /\ at <= i))
    BY <1>1
  <2>2. PICK q \in 1 .. p : list[q] = c
    BY <1>4, <2>1 DEF FoundFirst
  <2>3. q \in 1 .. n /\ q # at
    BY <1>1, <1>4, <2>1, <2>2
  <2>4. CASE q < at
    <3>1. q \in 1 .. i /\ l[q] = list[q]
      BY <1>1, <1>2, <2>1, <2>2, <2>3, <2>4
    <3> QED
      BY <2>2, <3>1
  <2>5. CASE q > at
    <3>1. q - 1 \in 1 .. i /\ l[q - 1] = list[q]
      BY <1>1, <1>2, <2>1, <2>2, <2>3, <2>5
    <3> QED
      BY <2>2, <3>1
  <2> QED
    BY <1>1, <2>3, <2>4, <2>5
<1>5. ASSUME NEW p \in 1 .. n, list[p] # list[at] PROVE list[p] \in {l[i] : i \in 1 .. n - 1}
  BY <1>2, <1>5
<1> QED
  BY <1>1, <1>3, <1>4, <1>5 DEF l

-----------------------------------------------------------------------------

\* Where a call has counted its block in the left bucket, and where a removal has not yet
\* uncounted it in the right one.
CountedLeft == {"reg_swap", "reg_lock2", "reg_add2", "reg_unlock", "reg_undo",
                "rem_lock1", "rem_list1"}
RightAhead  == {"rem_lock1", "rem_list1", "rem_swap", "rem_lock2", "rem_list2"}

InCall(t) == pc[t] \in Registers \cup Removes

\* Every block of the heap is counted in its buckets, but for the one t is working on.
LeftCounts(t, b)  == InCall(t) /\ b = blk[t] => pc[t] \in CountedLeft
RightCounts(t, b) ==
  InCall(t) /\ b = blk[t] => pc[t] = "reg_unlock" \/ (~undo[t] /\ pc[t] \in RightAhead)

\* The blocks counted in bucket k whose entry is not in its list.
Counted(t, k) == {b \in heap : \/ k = leftBucket(b) /\ LeftCounts(t, b)
                               \/ k = rightBucket(b) /\ RightCounts(t, b)}
Unlinked(t, k) == Counted(t, k) \ Entries(table[k])

\* The counter of a bucket covers its list and, with it, the blocks counted and not linked,
\* so that it is not 0 before the list is empty.
BucketGood(t, k) ==
  /\ Behind(table[k].list)
  /\ table[k].counter >= Len(table[k].list) + Cardinality(Unlinked(t, k))
  /\ \A b \in heap : k = leftBucket(b) /\ LeftCounts(t, b) => FoundFirst(table[k].list, b)

HeapApart == \A b, c \in heap : b # c => Disjoint(b, c)
TableGood(t) == IsFiniteSet(heap) /\ HeapApart /\ \A k \in 0 .. (HASHSZ - 1) : BucketGood(t, k)

\* A rollback is under way: the right bucket has refused the entry, and still has the one
\* for which it did.
RollsBack(t) == pc[t] = "reg_undo" \/ (undo[t] /\ pc[t] \in RightAhead)

CallGood(t) ==
  InCall(t) =>
    /\ blk[t] \in heap
    /\ pc[t] \in CrossPCs \/ (undo[t] /\ pc[t] \in Removes) => Cross(blk[t])
    /\ pc[t] \in KnowsRight => right[t] = blk[t].R
    /\ RollsBack(t) => Shares(table[rightBucket(blk[t])].list, blk[t])
    /\ undo[t] => pc[t] # "rem_abort2"

\* t holds the mutex of the section it is in, and no other.
HeldGood(t) == HoldsOnly(t) /\ \A l \in Locks : InSection(t, l) => mutex[l] = t

Sane(t) == TableGood(t) /\ CallGood(t) /\ HeldGood(t)

\* The program frees a block the system did not give it, or no longer: the process dies
\* when the call comes to that.
Doomed(t) == pc[t] \in Removes /\ ~undo[t] /\ blk[t] \notin heap

AloneInv(t) == crashed = "no" => Doomed(t) \/ Sane(t)

-----------------------------------------------------------------------------

\* A counter that covers n entries and the blocks U still covers what an operation leaves.
LEMMA CounterCovers ==
  ASSUME NEW U, IsFiniteSet(U), NEW V, NEW x, NEW c \in Nat, NEW n \in Nat,
         NEW d \in Nat, NEW m \in Nat, c >= n + Cardinality(U),
         \/ V \subseteq U /\ d - m = c - n
         \/ V \subseteq U \cup {x} /\ d = c + 1 /\ m = n
         \/ x \in U /\ V \subseteq U \ {x} /\ d = c - 1 /\ m = n
  PROVE  d >= m + Cardinality(V)
<1>1. Cardinality(U) \in Nat
  BY FS_CardinalityType
<1>2. CASE V \subseteq U /\ d - m = c - n
  <2>1. IsFiniteSet(V) /\ Cardinality(V) <= Cardinality(U)
    BY <1>2, FS_Subset
  <2>2. Cardinality(V) \in Nat
    BY <2>1, FS_CardinalityType
  <2> QED
    BY <1>1, <1>2, <2>1, <2>2
<1>3. CASE V \subseteq U \cup {x} /\ d = c + 1 /\ m = n
  <2>1. IsFiniteSet(U \cup {x}) /\ Cardinality(U \cup {x}) <= Cardinality(U) + 1
    <3>1. /\ IsFiniteSet(U \cup {x})
          /\ Cardinality(U \cup {x}) = IF x \in U THEN Cardinality(U) ELSE Cardinality(U) + 1
      BY FS_AddElement
    <3> QED
      BY <1>1, <3>1
  <2>2. IsFiniteSet(V) /\ Cardinality(V) <= Cardinality(U \cup {x})
    BY <1>3, <2>1, FS_Subset
  <2>3. Cardinality(V) \in Nat /\ Cardinality(U \cup {x}) \in Nat
    BY <2>1, <2>2, FS_CardinalityType
  <2> QED
    BY <1>1, <1>3, <2>1, <2>2, <2>3
<1>4. CASE x \in U /\ V \subseteq U \ {x} /\ d = c - 1 /\ m = n
  <2>1. IsFiniteSet(U \ {x}) /\ Cardinality(U \ {x}) = Cardinality(U) - 1
    BY <1>4, FS_RemoveElement
  <2>2. IsFiniteSet(V) /\ Cardinality(V) <= Cardinality(U \ {x})
    BY <1>4, <2>1, FS_Subset
  <2>3. Cardinality(V) \in Nat /\ Cardinality(U \ {x}) \in Nat
    BY <2>1, <2>2, FS_CardinalityType
  <2> QED
    BY <1>1, <1>4, <2>1, <2>2, <2>3
<1> QED
  BY <1>2, <1>3, <1>4

\* The counted blocks are finitely many.
LEMMA UnlinkedFinite ==
  ASSUME NEW t, TableGood(t), NEW k
  PROVE  IsFiniteSet(Unlinked(t, k)) /\ Cardinality(Unlinked(t, k)) \in Nat
<1>1. Unlinked(t, k) \in SUBSET heap
  BY DEF Unlinked, Counted
<1> QED
  BY <1>1, FS_Subset, FS_CardinalityType DEF TableGood

\* A step that leaves the table as it is, and after which no block counts that did not.
LEMMA TableKept ==
  ASSUME NEW t, TypeOK, TableGood(t), table' = table, IsFiniteSet(heap'), HeapApart',
         \A b \in heap' : /\ LeftCounts(t, b)' => b \in heap /\ LeftCounts(t, b)
                          /\ RightCounts(t, b)' => b \in heap /\ RightCounts(t, b)
  PROVE  TableGood(t)'
<1> SUFFICES ASSUME NEW k \in 0 .. (HASHSZ - 1) PROVE BucketGood(t, k)'
  BY DEF TableGood
<1>1. BucketGood(t, k) /\ table'[k] = table[k] /\ table[k] \in BucketType
  BY DEF TableGood, TypeOK
<1>2. Unlinked(t, k)' \subseteq Unlinked(t, k)
  <2> SUFFICES ASSUME NEW b \in heap', b \in Unlinked(t, k)' PROVE b \in Unlinked(t, k)
    BY DEF Unlinked, Counted
  <2>1. b \notin Entries(table[k])
    BY <1>1 DEF Unlinked
  <2>2. b \in Counted(t, k)
    BY DEF Unlinked, Counted, leftBucket, rightBucket
  <2> QED
    BY <2>1, <2>2 DEF Unlinked
<1>3. table[k].counter >= Len(table[k].list) + Cardinality(Unlinked(t, k)')
  <2>1. table[k].counter \in Nat /\ Len(table[k].list) \in Nat
    BY <1>1 DEF BucketType
  <2>2. table[k].counter >= Len(table[k].list) + Cardinality(Unlinked(t, k))
    BY <1>1 DEF BucketGood
  <2> DEFINE U == Unlinked(t, k)
             V == Unlinked(t, k)'
             c == table[k].counter
             n == Len(table[k].list)
  <2>3. IsFiniteSet(U) /\ V \subseteq U /\ c \in Nat /\ n \in Nat /\ c >= n + Cardinality(U)
    BY <1>2, <2>1, <2>2, UnlinkedFinite
  <2> HIDE DEF U, V, c, n
  <2>4. c >= n + Cardinality(V)
    BY <2>3, CounterCovers
  <2> QED
    BY <2>4 DEF V, c, n
<1>4. \A b \in heap' : k = leftBucket(b) /\ LeftCounts(t, b)' => FoundFirst(table[k].list, b)
  BY <1>1 DEF BucketGood
<1>5. Behind(table[k].list)
  BY <1>1 DEF BucketGood
<1> QED
  BY <1>1, <1>3, <1>4, <1>5 DEF BucketGood, leftBucket

\* Two blocks of the heap share no address.
LEMMA HeapDiffers ==
  ASSUME TypeOK, HeapApart, NEW b \in heap, NEW c \in heap, b # c
  PROVE  b.L # c.L /\ b.R # c.R
<1>1. b \in Block /\ c \in Block /\ Disjoint(b, c)
  BY DEF TypeOK, HeapApart
<1> QED
  BY <1>1, BlockBounds DEF Disjoint

\* A step on the list of bucket k, for the block of t's call.
LEMMA ListKept ==
  ASSUME NEW t, TypeOK, TypeOK', TableGood(t), heap' = heap, blk' = blk,
         NEW k \in 0 .. (HASHSZ - 1), NEW bucket, table' = [table EXCEPT ![k] = bucket],
         Behind(bucket.list),
         bucket.counter >= Len(bucket.list) + Cardinality(Unlinked(t, k)'),
         \A c \in heap \ {blk[t]} : FoundFirst(table[k].list, c) => FoundFirst(bucket.list, c),
         k = leftBucket(blk[t]) /\ LeftCounts(t, blk[t])' => FoundFirst(bucket.list, blk[t]),
         InCall(t),
         \A m \in (0 .. (HASHSZ - 1)) \ {k} :
            /\ m = leftBucket(blk[t]) /\ LeftCounts(t, blk[t])' => LeftCounts(t, blk[t])
            /\ m = rightBucket(blk[t]) /\ RightCounts(t, blk[t])' => RightCounts(t, blk[t])
  PROVE  TableGood(t)'
<1> DEFINE b == blk[t]
<1>1. \A c : c # b => /\ LeftCounts(t, c) /\ LeftCounts(t, c)'
                      /\ RightCounts(t, c) /\ RightCounts(t, c)'
  BY DEF LeftCounts, RightCounts
<1>2. table'[k] = bucket /\ \A m \in (0 .. (HASHSZ - 1)) \ {k} : table'[m] = table[m]
  BY DEF TypeOK
<1>3. IsFiniteSet(heap) /\ HeapApart' /\ \A m \in 0 .. (HASHSZ - 1) : BucketGood(t, m)
  BY DEF TableGood, HeapApart, Disjoint
<1>4. BucketGood(t, k)'
  <2>1. \A c \in heap : k = leftBucket(c) /\ LeftCounts(t, c)' => FoundFirst(bucket.list, c)
    BY <1>1, <1>3 DEF BucketGood
  <2> QED
    BY <1>2, <2>1 DEF BucketGood, leftBucket
<1>5. ASSUME NEW m \in (0 .. (HASHSZ - 1)) \ {k} PROVE BucketGood(t, m)'
  <2>1. BucketGood(t, m) /\ table'[m] = table[m] /\ table[m] \in BucketType
    BY <1>2, <1>3 DEF TypeOK
  <2>2. Unlinked(t, m)' \subseteq Unlinked(t, m)
    <3> SUFFICES ASSUME NEW c \in heap, c \in Unlinked(t, m)' PROVE c \in Unlinked(t, m)
      BY DEF Unlinked, Counted
    <3>1. c \notin Entries(table[m])
      BY <2>1 DEF Unlinked
    <3>2. c \in Counted(t, m)'
      BY DEF Unlinked
    <3>3. c \in Counted(t, m)
      BY <1>1, <3>2 DEF Counted, leftBucket, rightBucket
    <3> QED
      BY <3>1, <3>3 DEF Unlinked
  <2>3. table[m].counter >= Len(table[m].list) + Cardinality(Unlinked(t, m)')
    <3> DEFINE U == Unlinked(t, m)
               V == Unlinked(t, m)'
               c == table[m].counter
               n == Len(table[m].list)
    <3>1. IsFiniteSet(U) /\ V \subseteq U /\ c \in Nat /\ n \in Nat /\ c >= n + Cardinality(U)
      BY <2>1, <2>2, UnlinkedFinite DEF BucketGood, BucketType
    <3> HIDE DEF U, V, c, n
    <3>2. c >= n + Cardinality(V)
      BY <3>1, CounterCovers, SMTT(30)
    <3> QED
      BY <3>2 DEF V, c, n
  <2>4. \A c \in heap : m = leftBucket(c) /\ LeftCounts(t, c)' => FoundFirst(table[m].list, c)
    BY <1>1, <2>1 DEF BucketGood
  <2>5. Behind(table[m].list)
    BY <2>1 DEF BucketGood
  <2> QED
    BY <2>1, <2>3, <2>4, <2>5 DEF BucketGood, leftBucket
<1> QED
  BY <1>3, <1>4, <1>5 DEF TableGood

\* addAddrToList of the block, when it is accepted.
LEMMA AddKept ==
  ASSUME NEW t, TypeOK, TypeOK', TableGood(t), heap' = heap, blk' = blk, InCall(t),
         blk[t] \in heap, NEW k \in 0 .. (HASHSZ - 1),
         addAddrToList(table[k], blk[t]).res = "added",
         table' = [table EXCEPT ![k] = addAddrToList(table[k], blk[t]).bucket],
         \A m \in (0 .. (HASHSZ - 1)) \ {k} :
            /\ m = leftBucket(blk[t]) /\ LeftCounts(t, blk[t])' => LeftCounts(t, blk[t])
            /\ m = rightBucket(blk[t]) /\ RightCounts(t, blk[t])' => RightCounts(t, blk[t])
  PROVE  TableGood(t)'
<1> DEFINE b == blk[t]
           old == table[k]
           a == addAddrToList(old, b)
           new == a.bucket
<1>1. /\ b \in Block /\ old \in BucketType /\ HeapApart /\ BucketGood(t, k)
      /\ old.list \in Seq(Block) /\ old.counter \in Nat /\ Len(old.list) \in Nat
      /\ new \in BucketType
  BY AddKeepsType DEF TypeOK, TableGood, BucketType
<1>2. Behind(old.list) /\ old.counter >= Len(old.list) + Cardinality(Unlinked(t, k))
  BY <1>1 DEF BucketGood
<1>3. new.counter = old.counter + 1
  BY <1>1, <1>2, AddOutcome
<1>4. \/ new.list = old.list /\ ~Shares(old.list, b)
      \/ \E at \in 1 .. Len(old.list) + 1 :
            LinkedAt(new.list, old.list, at, b) /\ PlaceFor(old.list, at, b)
  BY <1>1, <1>2, AddOutcome
<1>5. table'[k] = new
  BY DEF TypeOK
<1> HIDE DEF a, new
<1>6. /\ Behind(new.list) /\ FoundFirst(new.list, b)
      /\ \A c \in heap \ {b} : FoundFirst(old.list, c) => FoundFirst(new.list, c)
      /\ \/ Len(new.list) = Len(old.list) /\ Entries(new) = Entries(old)
         \/ Len(new.list) = Len(old.list) + 1 /\ Entries(new) = Entries(old) \cup {b}
  <2>1. CASE new.list = old.list /\ ~Shares(old.list, b)
    <3>1. FoundFirst(old.list, b)
      BY <2>1 DEF Shares, SameRedZone, FoundFirst
    <3> QED
      BY <1>2, <2>1, <3>1 DEF Entries
  <2>2. ASSUME NEW at \in 1 .. Len(old.list) + 1,
               LinkedAt(new.list, old.list, at, b), PlaceFor(old.list, at, b)
        PROVE  /\ Behind(new.list) /\ FoundFirst(new.list, b)
               /\ \A c \in heap \ {b} : FoundFirst(old.list, c) => FoundFirst(new.list, c)
               /\ Len(new.list) = Len(old.list) + 1 /\ Entries(new) = Entries(old) \cup {b}
    <3>1. \A c \in heap \ {b} : c.L # b.L
      BY <1>1, HeapDiffers
    <3> DEFINE l == new.list
               list == old.list
    <3>2. list \in Seq(Block)
      BY <1>1
    <3>3. LinkedAt(l, list, at, b) /\ PlaceFor(list, at, b) /\ Behind(list) /\ at \in 1 .. Len(list) + 1
      BY <1>2, <2>2
    <3>4. Entries(new) = {l[i] : i \in 1 .. Len(l)} /\ Entries(old) = {list[i] : i \in 1 .. Len(list)}
      BY DEF Entries
    <3> HIDE DEF l, list
    <3>5. /\ Behind(l) /\ FoundFirst(l, b)
          /\ \A c : c.L # b.L /\ FoundFirst(list, c) => FoundFirst(l, c)
          /\ {l[i] : i \in 1 .. Len(l)} = {list[i] : i \in 1 .. Len(list)} \cup {b}
      BY <1>1, <3>2, <3>3, LinkedKeeps
    <3>6. Len(l) = Len(list) + 1
      BY <3>3 DEF LinkedAt
    <3>7. Entries(new) = Entries(old) \cup {b}
      BY <3>4, <3>5, Zenon
    <3>8. \A c \in heap \ {b} : FoundFirst(list, c) => FoundFirst(l, c)
      BY <3>1, <3>5
    <3> QED
      BY <3>5, <3>6, <3>7, <3>8 DEF l, list
  <2> QED
    BY <1>4, <2>1, <2>2
<1>7. \A c : c # b => (c \in Counted(t, k)' <=> c \in Counted(t, k))
  BY DEF Counted, LeftCounts, RightCounts, leftBucket, rightBucket
<1>8. new.counter >= Len(new.list) + Cardinality(Unlinked(t, k)')
  <2> DEFINE U == Unlinked(t, k)
             V == Unlinked(t, k)'
             c == old.counter
             n == Len(old.list)
             d == new.counter
             m == Len(new.list)
  <2>1. V \subseteq U \cup {b}
    BY <1>5, <1>6, <1>7 DEF Unlinked
  <2>2. b \in Entries(new) => b \notin V
    BY <1>5 DEF Unlinked
  <2>3. /\ IsFiniteSet(U) /\ c \in Nat /\ n \in Nat /\ c >= n + Cardinality(U)
        /\ d \in Nat /\ m \in Nat /\ d = c + 1
        /\ (V \subseteq U \cup {b} /\ m = n) \/ (V \subseteq U /\ m = n + 1)
    BY <1>1, <1>2, <1>3, <1>6, <2>1, <2>2, UnlinkedFinite DEF BucketType
  <2> HIDE DEF U, V, c, n, d, m
  <2>4. d - m = c - n \/ m = n
    BY <2>3
  <2>5. d >= m + Cardinality(V)
    BY <2>3, <2>4, CounterCovers
  <2> QED
    BY <2>5 DEF V, d, m
<1> HIDE DEF old
<1>9. \A c \in heap \ {b} : FoundFirst(table[k].list, c) => FoundFirst(new.list, c)
  BY <1>6 DEF old
<1>10. table' = [table EXCEPT ![k] = new]
  BY DEF new, a, old
<1> QED
  BY <1>6, <1>8, <1>9, <1>10, ListKept

\* removeAddrFromList of the block, given its left address, or both, when the block counts
\* in the bucket or an entry stands in its way there.
LEMMA RemoveKept ==
  ASSUME NEW t, TypeOK, TypeOK', TableGood(t), heap' = heap, blk' = blk, InCall(t),
         blk[t] \in heap, NEW k \in 0 .. (HASHSZ - 1), NEW r \in {NULL, blk[t].R},
         table' = [table EXCEPT ![k] = removeAddrFromList(table[k], [L |-> blk[t].L, R |-> r]).bucket],
         blk[t] \in Counted(t, k) \/ Shares(table[k].list, [L |-> blk[t].L, R |-> r]),
         blk[t] \notin Counted(t, k)',
         \A m \in (0 .. (HASHSZ - 1)) \ {k} :
            /\ m = leftBucket(blk[t]) /\ LeftCounts(t, blk[t])' => LeftCounts(t, blk[t])
            /\ m = rightBucket(blk[t]) /\ RightCounts(t, blk[t])' => RightCounts(t, blk[t])
  PROVE  TableGood(t)'
<1> DEFINE b == blk[t]
           e == [L |-> b.L, R |-> r]
           old == table[k]
           a == removeAddrFromList(old, e)
           new == a.bucket
<1>1. /\ b \in Block /\ old \in BucketType /\ HeapApart /\ BucketGood(t, k)
      /\ old.list \in Seq(Block) /\ old.counter \in Nat /\ Len(old.list) \in Nat
      /\ new \in BucketType
  BY RemoveKeepsType DEF TypeOK, TableGood, BucketType
<1>2. Behind(old.list) /\ old.counter >= Len(old.list) + Cardinality(Unlinked(t, k))
  BY <1>1 DEF BucketGood
<1>3. \/ old.counter = 0 /\ new = old
      \/ /\ old.counter # 0 /\ ~Shares(old.list, e)
         /\ new.counter = old.counter - 1 /\ new.list = old.list
      \/ /\ old.counter # 0 /\ new.counter = old.counter - 1
         /\ \E at \in 1 .. Len(old.list) :
              SameRedZone(old.list[at], e) /\ new.list = RemoveAt(old.list, at)
  <2> HIDE DEF e, old
  <2> QED
    BY <1>1, RemoveOutcome
<1>4. table'[k] = new /\ table' = [table EXCEPT ![k] = new]
  BY DEF TypeOK
<1>5. \A c : c # b => (c \in Counted(t, k)' <=> c \in Counted(t, k))
  BY DEF Counted, LeftCounts, RightCounts, leftBucket, rightBucket
<1>6. \A x \in Block : SameRedZone(x, e) => \A c \in heap \ {b} : c # x
  <2> SUFFICES ASSUME NEW x \in Block, SameRedZone(x, e), x \in heap, x # b PROVE FALSE
    OBVIOUS
  <2>1. x.L # b.L /\ x.R # b.R /\ x.R # NULL
    BY <1>1, HeapDiffers, BlockIsRecord
  <2> QED
    BY <2>1 DEF SameRedZone
<1> HIDE DEF a, new
<1> DEFINE U == Unlinked(t, k)
           V == Unlinked(t, k)'
           Kept == /\ Behind(new.list)
                   /\ \A c \in heap \ {b} : FoundFirst(old.list, c) => FoundFirst(new.list, c)
                   /\ new.counter >= Len(new.list) + Cardinality(V)
<1>7. b \notin V /\ U \subseteq heap /\ V \subseteq heap
  BY DEF Unlinked, Counted
<1>8. ASSUME old.counter = 0, new = old PROVE Kept
  <2>1. V \subseteq U
    BY <1>4, <1>5, <1>7, <1>8 DEF Unlinked
  <2>2. old.counter >= Len(old.list) + Cardinality(V)
    <3> DEFINE c == old.counter
               n == Len(old.list)
    <3>1. IsFiniteSet(U) /\ c \in Nat /\ n \in Nat /\ c >= n + Cardinality(U)
      BY <1>1, <1>2, UnlinkedFinite
    <3> HIDE DEF U, V, c, n
    <3>2. c >= n + Cardinality(V)
      BY <2>1, <3>1, CounterCovers
    <3> QED
      BY <3>2 DEF c, n
  <2>3. Behind(new.list) /\ \A c : FoundFirst(old.list, c) => FoundFirst(new.list, c)
    BY <1>2, <1>8
  <2>4. new.counter >= Len(new.list) + Cardinality(V)
    BY <1>8, <2>2
  <2> HIDE DEF V
  <2> QED
    BY <2>3, <2>4 DEF Kept
<1>9. ASSUME old.counter # 0, ~Shares(old.list, e),
             new.counter = old.counter - 1, new.list = old.list
      PROVE  Kept
  <2>1. b \notin Entries(old)
    <3>1. SameRedZone(b, e)
      BY DEF SameRedZone
    <3> QED
      BY <1>9, <3>1 DEF Shares, Entries
  <2>2. b \in U /\ V \subseteq U \ {b}
    <3>1. b \in U
      BY <1>9, <2>1 DEF Unlinked
    <3>2. Entries(new) = Entries(old)
      BY <1>9 DEF Entries
    <3> QED
      BY <1>4, <1>5, <1>7, <3>1, <3>2 DEF Unlinked
  <2>3. new.counter >= Len(new.list) + Cardinality(V)
    <3> DEFINE c == old.counter
               n == Len(old.list)
               d == new.counter
    <3>1. /\ IsFiniteSet(U) /\ c \in Nat /\ n \in Nat /\ c >= n + Cardinality(U)
          /\ d \in Nat /\ d = c - 1
      BY <1>1, <1>2, <1>9, UnlinkedFinite
    <3> HIDE DEF U, V, c, n, d
    <3>2. d >= n + Cardinality(V)
      BY <2>2, <3>1, CounterCovers
    <3> QED
      BY <1>9, <3>2 DEF d, n
  <2>4. Behind(new.list) /\ \A c : FoundFirst(old.list, c) => FoundFirst(new.list, c)
    BY <1>2, <1>9
  <2> HIDE DEF V
  <2> QED
    BY <2>3, <2>4 DEF Kept
<1>10. ASSUME old.counter # 0, new.counter = old.counter - 1, NEW at \in 1 .. Len(old.list),
              SameRedZone(old.list[at], e), new.list = RemoveAt(old.list, at)
       PROVE  Kept
  <2> DEFINE list == old.list
             l == new.list
  <2>1. list \in Seq(Block) /\ at \in 1 .. Len(list) /\ Behind(list) /\ l = RemoveAt(list, at)
    BY <1>1, <1>2, <1>10
  <2>2. \A c \in heap \ {b} : c # list[at]
    BY <1>1, <1>6, <1>10
  <2>3. Entries(new) = {l[i] : i \in 1 .. Len(l)} /\ Entries(old) = {list[i] : i \in 1 .. Len(list)}
    BY DEF Entries
  <2> HIDE DEF list, l
  <2>4. /\ Behind(l) /\ Len(l) = Len(list) - 1
        /\ \A c : c # list[at] /\ FoundFirst(list, c) => FoundFirst(l, c)
        /\ \A c : c # list[at] /\ c \in {list[i] : i \in 1 .. Len(list)}
                    => c \in {l[i] : i \in 1 .. Len(l)}
    <3> DEFINE u == RemoveAt(list, at)
    <3>1. /\ Behind(u) /\ Len(u) = Len(list) - 1
          /\ \A c : c # list[at] /\ FoundFirst(list, c) => FoundFirst(u, c)
          /\ \A c : c # list[at] /\ c \in {list[i] : i \in 1 .. Len(list)}
                      => c \in {u[i] : i \in 1 .. Len(u)}
      BY <2>1, UnlinkedKeeps, Zenon
    <3>2. l = u
      BY <2>1
    <3> HIDE DEF u
    <3> QED
      BY <3>1, <3>2
  <2>5. V \subseteq U
    <3> SUFFICES ASSUME NEW c \in V PROVE c \in U
      OBVIOUS
    <3>1. c # b /\ c \in heap /\ c \in Counted(t, k) /\ c \notin Entries(new)
      BY <1>4, <1>5, <1>7 DEF Unlinked
    <3>2. c \notin Entries(old)
      BY <2>2, <2>3, <2>4, <3>1
    <3> QED
      BY <3>1, <3>2 DEF Unlinked
  <2>6. new.counter >= Len(new.list) + Cardinality(V)
    <3> DEFINE c == old.counter
               n == Len(old.list)
               d == new.counter
               m == Len(new.list)
    <3>1. /\ IsFiniteSet(U) /\ c \in Nat /\ n \in Nat /\ c >= n + Cardinality(U)
          /\ d \in Nat /\ m \in Nat /\ d - m = c - n
      <4>1. IsFiniteSet(U) /\ c \in Nat /\ n \in Nat /\ c >= n + Cardinality(U)
        BY <1>1, <1>2, UnlinkedFinite
      <4>2. d \in Nat /\ m \in Nat
        BY <1>1 DEF BucketType
      <4>3. m = n - 1 /\ d = c - 1
        BY <1>10, <2>4 DEF list, l
      <4> HIDE DEF c, n, d, m, U
      <4> QED
        BY <4>1, <4>2, <4>3
    <3> HIDE DEF U, V, c, n, d, m
    <3>2. d >= m + Cardinality(V)
      BY <2>5, <3>1, CounterCovers
    <3> QED
      BY <3>2 DEF d, m
  <2>7. \A c \in heap \ {b} : FoundFirst(list, c) => FoundFirst(l, c)
    BY <2>2, <2>4
  <2> QED
    BY <2>4, <2>6, <2>7 DEF Kept, list, l
<1>11. Kept
  <2> HIDE DEF Kept, old, e
  <2>1. CASE /\ old.counter # 0 /\ new.counter = old.counter - 1
             /\ \E at \in 1 .. Len(old.list) :
                  SameRedZone(old.list[at], e) /\ new.list = RemoveAt(old.list, at)
    BY <1>10, <2>1
  <2> QED
    BY <1>3, <1>8, <1>9, <2>1
<1>12. ~(k = leftBucket(b) /\ LeftCounts(t, b)')
  BY DEF Counted, leftBucket
<1>13. \A c \in heap \ {b} : FoundFirst(table[k].list, c) => FoundFirst(new.list, c)
  BY <1>11
<1>14. Behind(new.list) /\ new.counter >= Len(new.list) + Cardinality(Unlinked(t, k)')
  BY <1>11
<1> HIDE DEF Kept, old, e, U, V
<1> QED
  BY <1>4, <1>12, <1>13, <1>14, ListKept

-----------------------------------------------------------------------------

\* What is known of a call of a sane thread.
LEMMA CallIs ==
  ASSUME TInv, NEW t \in Thread, CallGood(t), InCall(t)
  PROVE  /\ TypeOK /\ blk[t] \in Block /\ blk[t] \in heap
         /\ leftBucket(blk[t]) \in 0 .. (HASHSZ - 1) /\ rightBucket(blk[t]) \in 0 .. (HASHSZ - 1)
         /\ getRZAddrBucket(blk[t].L) = leftBucket(blk[t])
         /\ getRZAddrBucket(blk[t].R) = rightBucket(blk[t])
         /\ lockL(t) \in Locks /\ lockR(t) \in Locks
         /\ Cross(blk[t]) <=> leftBucket(blk[t]) # rightBucket(blk[t])
         /\ pc[t] \in Registers \cup KnowsRight \/ undo[t] => right[t] = blk[t].R
         /\ pc[t] \in Asks /\ ~undo[t] => right[t] = NULL
<1>1. TypeOK /\ FrameOf(t) /\ blk[t] \in heap /\ (pc[t] \in KnowsRight => right[t] = blk[t].R)
  BY DEF TInv, FrameOK, CallGood
<1>2. blk[t] \in Block
  BY <1>1 DEF TypeOK
<1>3. lockL(t) \in Locks /\ lockR(t) \in Locks
  BY LockExists DEF lockL, lockR
<1> QED
  BY <1>1, <1>2, <1>3, BucketInRange DEF FrameOf, InCall, leftBucket, rightBucket, Cross

\* A move between two sections of one mutex.
LEMMA HeldMoves ==
  ASSUME TypeOK, NEW t \in Thread, HeldGood(t), mutex' = mutex,
         NEW there \in LeftSection \cup RightSection \cup {"rem_unlock"},
         pc' = [pc EXCEPT ![t] = there], NEW m \in Locks, InSection(t, m),
         there \in LeftSection \cup {"rem_unlock"} => lockL(t)' = m,
         there \in RightSection => lockR(t)' = m
  PROVE  HeldGood(t)'
<1>1. pc'[t] = there
  BY DEF TypeOK
<1>2. \A l \in Locks : mutex[l] = t <=> l = m
  BY DEF HeldGood, HoldsOnly, MayHold, InSection, LeftSection, RightSection
<1>3. \A l \in Locks : InSection(t, l)' => l = m
  BY <1>1 DEF InSection, LeftSection, RightSection
<1>4. MayHold(t, m)'
  BY <1>1 DEF MayHold, InSection
<1> QED
  BY <1>2, <1>3, <1>4 DEF HeldGood, HoldsOnly

\* Taking a mutex, with none in the hands.
LEMMA HeldTakes ==
  ASSUME TypeOK, NEW t \in Thread, HeldGood(t), pc[t] \in WaitPCs, NEW m \in Locks, lock(t, m),
         NEW there \in LeftSection \cup RightSection, pc' = [pc EXCEPT ![t] = there],
         there \in LeftSection => lockL(t)' = m,
         there \in RightSection => lockR(t)' = m
  PROVE  HeldGood(t)'
<1>1. pc'[t] = there
  BY DEF TypeOK
<1>2. \A l \in Locks : mutex[l] # t
  BY DEF HeldGood, HoldsOnly, MayHold, InSection, LeftSection, RightSection, WaitPCs
<1>3. \A l \in Locks : mutex'[l] = t <=> l = m
  BY <1>2 DEF lock, TypeOK
<1>4. \A l \in Locks : InSection(t, l)' => l = m
  BY <1>1 DEF InSection, LeftSection, RightSection
<1>5. MayHold(t, m)'
  BY <1>1 DEF MayHold, InSection
<1> QED
  BY <1>3, <1>4, <1>5 DEF HeldGood, HoldsOnly

\* Giving back the only mutex t may hold.
LEMMA HeldGives ==
  ASSUME TypeOK, NEW t \in Thread, NEW m \in Locks, unlock(t, m),
         \A l \in Locks : mutex[l] = t => l = m,
         NEW there, there \notin LeftSection \cup RightSection, pc' = [pc EXCEPT ![t] = there]
  PROVE  HeldGood(t)'
<1>1. pc'[t] = there
  BY DEF TypeOK
<1>2. \A l \in Locks : mutex'[l] # t
  BY ThreadAssumption DEF unlock, Refused, TypeOK
<1> QED
  BY <1>1, <1>2 DEF HeldGood, HoldsOnly, InSection

\* What t holds in a section, or when removeAddr ends.
LEMMA OnlyOne ==
  ASSUME NEW t \in Thread, HeldGood(t)
  PROVE  /\ pc[t] \in LeftSection => \A l \in Locks : mutex[l] = t <=> l = lockL(t)
         /\ pc[t] \in RightSection => \A l \in Locks : mutex[l] = t <=> l = lockR(t)
         /\ pc[t] = "rem_unlock" => \A l \in Locks : mutex[l] = t => l = lockL(t)
         /\ pc[t] \notin LeftSection \cup RightSection \cup {"rem_unlock"}
              => \A l \in Locks : mutex[l] # t
BY DEF HeldGood, HoldsOnly, MayHold, InSection, LeftSection, RightSection

-----------------------------------------------------------------------------

\* registerAddr in the left bucket: added, denied, or added and the second node not
\* allocated.
LEMMA RegAdd1Sane ==
  ASSUME TInv, TInv', NEW t \in Thread, Sane(t), RegAdd1(t), crashed' = "no"
  PROVE  Sane(t)'
<1> DEFINE b == blk[t]
           k == leftBucket(b)
           added == addAddrToList(table[k], b)
<1>1. pc[t] = "reg_add1" /\ InCall(t) /\ TableGood(t) /\ CallGood(t) /\ HeldGood(t) /\ TypeOK'
  BY DEF RegAdd1, At, InCall, Registers, Sane, TInv
<1>2. /\ TypeOK /\ b \in Block /\ b \in heap /\ k \in 0 .. (HASHSZ - 1) /\ right[t] = b.R
      /\ lockL(t) \in Locks /\ (Cross(b) <=> k # rightBucket(b)) /\ [L |-> b.L, R |-> right[t]] = b
      /\ getRZAddrBucket(blk[t].L) = k /\ getRZAddrBucket(b.R) = rightBucket(b)
  BY <1>1, CallIs, BlockIsRecord DEF Registers
<1>3. CrossCall(t) <=> Cross(b)
  BY <1>2 DEF CrossCall, Cross
<1>4. /\ UNCHANGED <<mutex, heap, blk, right, undo>> /\ added.res # "segv"
      /\ table' = [table EXCEPT ![k] = added.bucket]
  BY <1>2 DEF RegAdd1, frames
<1>5. PICK there \in {"reg_deny", "reg_unlock", "reg_swap", "reg_add2"} :
        /\ pc' = [pc EXCEPT ![t] = there]
        /\ there = "reg_deny" \/ added.res = "added"
        /\ there = "reg_unlock" => ~CrossCall(t)
        /\ there \in {"reg_swap", "reg_add2"} => CrossCall(t)
        /\ there = "reg_add2" => ~TwoLocks(t)
  BY <1>2, <1>4 DEF RegAdd1, Goto
<1>6. pc'[t] = there
  BY <1>2, <1>5 DEF TypeOK
<1>7. TableGood(t)'
  <2>1. CASE added.res = "added"
    <3>1. \A m \in (0 .. (HASHSZ - 1)) \ {k} :
             /\ m = leftBucket(b) /\ LeftCounts(t, b)' => LeftCounts(t, b)
             /\ m = rightBucket(b) /\ RightCounts(t, b)' => RightCounts(t, b)
      BY <1>1, <1>2, <1>3, <1>4, <1>5, <1>6 DEF RightCounts, InCall, Registers, RightAhead
    <3> QED
      BY <1>1, <1>2, <1>4, <2>1, <3>1, AddKept
  <2>2. CASE added.res # "added"
    <3>1. table[k] \in BucketType /\ Behind(table[k].list)
      BY <1>1, <1>2 DEF TypeOK, TableGood, BucketGood
    <3>2. added.bucket = table[k] /\ there = "reg_deny"
      BY <1>2, <1>4, <1>5, <2>2, <3>1, AddOutcome
    <3>3. table' = table
      BY <1>2, <1>4, <3>2 DEF TypeOK
    <3>4. \A c \in heap : /\ LeftCounts(t, c)' => LeftCounts(t, c)
                          /\ RightCounts(t, c)' => RightCounts(t, c)
      BY <1>1, <1>4, <1>6, <3>2 DEF LeftCounts, RightCounts, InCall, Registers, CountedLeft, RightAhead
    <3> QED
      BY <1>1, <1>2, <1>4, <3>3, <3>4, TableKept DEF TableGood, HeapApart, Disjoint
  <2> QED
    BY <2>1, <2>2
<1>8. CallGood(t)'
  BY <1>2, <1>3, <1>4, <1>5, <1>6
  DEF CallGood, CrossPCs, Removes, KnowsRight, RollsBack, RightAhead, Cross
<1>9. HeldGood(t)'
  <2>1. InSection(t, lockL(t))
    BY <1>1 DEF InSection, LeftSection
  <2>2. lockL(t)' = lockL(t) /\ lockR(t)' = lockR(t)
    BY <1>4 DEF lockL, lockR
  <2>3. there \in {"reg_unlock", "reg_add2"} => lockR(t) = lockL(t)
    BY <1>2, <1>5 DEF CrossCall, TwoLocks, lockL, lockR, lockOf
  <2>4. there \in LeftSection \cup RightSection \cup {"rem_unlock"}
    BY <1>5 DEF LeftSection, RightSection
  <2>5. there \in RightSection => there \in {"reg_unlock", "reg_add2"}
    BY <1>5 DEF RightSection
  <2> QED
    BY <1>1, <1>2, <1>4, <1>5, <2>1, <2>2, <2>3, <2>4, <2>5, HeldMoves
<1> QED
  BY <1>7, <1>8, <1>9 DEF Sane

\* ... and in the right one.
LEMMA RegAdd2Sane ==
  ASSUME TInv, TInv', NEW t \in Thread, Sane(t), RegAdd2(t), crashed' = "no"
  PROVE  Sane(t)'
<1> DEFINE b == blk[t]
           k == rightBucket(b)
           added == addAddrToList(table[k], b)
<1>1. pc[t] = "reg_add2" /\ InCall(t) /\ TableGood(t) /\ CallGood(t) /\ HeldGood(t) /\ TypeOK'
  BY DEF RegAdd2, At, InCall, Registers, Sane, TInv
<1>2. /\ TypeOK /\ b \in Block /\ b \in heap /\ k \in 0 .. (HASHSZ - 1) /\ right[t] = b.R
      /\ lockR(t) \in Locks /\ Cross(b) /\ k # leftBucket(b) /\ [L |-> b.L, R |-> right[t]] = b
      /\ getRZAddrBucket(right[t]) = k
  BY <1>1, CallIs, BlockIsRecord DEF Registers, CallGood, CrossPCs
<1>3. /\ UNCHANGED <<mutex, heap, blk, right, undo>> /\ added.res # "segv"
      /\ table' = [table EXCEPT ![k] = added.bucket]
  BY <1>2 DEF RegAdd2, frames
<1>4. PICK there \in {"reg_undo", "reg_unlock"} :
        /\ pc' = [pc EXCEPT ![t] = there]
        /\ there = "reg_unlock" => added.res = "added"
        /\ there = "reg_undo" => added.res = "denied"
  BY <1>2, <1>3 DEF RegAdd2, Goto
<1>5. pc'[t] = there
  BY <1>2, <1>4 DEF TypeOK
<1>6. CASE added.res = "added"
  <2>1. there = "reg_unlock"
    BY <1>4, <1>6
  <2>2. \A m \in (0 .. (HASHSZ - 1)) \ {k} :
           /\ m = leftBucket(b) /\ LeftCounts(t, b)' => LeftCounts(t, b)
           /\ m = rightBucket(b) /\ RightCounts(t, b)' => RightCounts(t, b)
    BY <1>1 DEF LeftCounts, CountedLeft
  <2>3. TableGood(t)'
    BY <1>1, <1>2, <1>3, <1>6, <2>2, AddKept
  <2>4. CallGood(t)'
    BY <1>2, <1>3, <1>5, <2>1 DEF CallGood, CrossPCs, Removes, KnowsRight, RollsBack, RightAhead, Cross
  <2>5. HeldGood(t)'
    BY <1>1, <1>2, <1>3, <1>4, <2>1, HeldMoves DEF InSection, RightSection, LeftSection, lockR
  <2> QED
    BY <2>3, <2>4, <2>5 DEF Sane
<1>7. CASE added.res # "added"
  <2>1. table[k] \in BucketType /\ Behind(table[k].list)
    BY <1>1, <1>2 DEF TypeOK, TableGood, BucketGood
  <2>2. added.bucket = table[k] /\ there = "reg_undo" /\ Shares(table[k].list, b)
    BY <1>2, <1>3, <1>4, <1>7, <2>1, AddOutcome
  <2>3. table' = table
    BY <1>2, <1>3, <2>2 DEF TypeOK
  <2>4. \A c \in heap : /\ LeftCounts(t, c)' => LeftCounts(t, c)
                        /\ RightCounts(t, c)' => RightCounts(t, c)
    BY <1>1, <1>3, <1>5, <2>2 DEF LeftCounts, RightCounts, InCall, Registers, CountedLeft, RightAhead
  <2>5. TableGood(t)'
    BY <1>1, <1>2, <1>3, <2>3, <2>4, TableKept DEF TableGood, HeapApart, Disjoint
  <2>6. CallGood(t)'
    <3>1. Shares(table[rightBucket(blk[t])].list, blk[t])'
      BY <1>3, <2>2, <2>3 DEF Shares, SameRedZone, rightBucket
    <3>2. Cross(blk[t])'
      BY <1>2, <1>3 DEF Cross
    <3> QED
      BY <1>2, <1>3, <1>5, <2>2, <3>1, <3>2 DEF CallGood, KnowsRight
  <2>7. HeldGood(t)'
    BY <1>1, <1>2, <1>3, <1>4, <2>2, HeldMoves DEF InSection, RightSection, LeftSection, lockR
  <2> QED
    BY <2>5, <2>6, <2>7 DEF Sane
<1> QED
  BY <1>6, <1>7

\* removeAddr in the left bucket.  A removal that finds an entry there finds the block's own,
\* so that the right red zone it learns is the block's.
LEMMA RemList1Sane ==
  ASSUME TInv, TInv', NEW t \in Thread, Sane(t), RemList1(t)
  PROVE  Sane(t)'
<1> DEFINE b == blk[t]
           k == leftBucket(b)
           r == right[t]
           e == [L |-> b.L, R |-> r]
           list == table[k].list
           removed == removeAddrFromList(table[k], e)
<1>1. pc[t] = "rem_list1" /\ InCall(t) /\ TableGood(t) /\ CallGood(t) /\ HeldGood(t) /\ TypeOK'
  BY DEF RemList1, At, InCall, Removes, Sane, TInv
<1>2. /\ TypeOK /\ b \in Block /\ b \in heap /\ k \in 0 .. (HASHSZ - 1)
      /\ rightBucket(b) \in 0 .. (HASHSZ - 1)
      /\ (undo[t] => r = b.R) /\ (~undo[t] => r = NULL)
      /\ lockL(t) \in Locks /\ (Cross(b) <=> k # rightBucket(b))
      /\ getRZAddrBucket(blk[t].L) = k /\ getRZAddrBucket(b.R) = rightBucket(b)
  BY <1>1, CallIs DEF Asks
<1>3. table[k] \in BucketType /\ list \in Seq(Block) /\ FoundFirst(list, b)
  BY <1>1, <1>2 DEF TypeOK, BucketType, TableGood, BucketGood, LeftCounts, CountedLeft
<1>4. /\ UNCHANGED <<mutex, heap, blk, undo>>
      /\ table' = [table EXCEPT ![k] = removed.bucket]
  BY <1>2 DEF RemList1
<1>5. removed.found # NoEntry => (IF undo[t] THEN r ELSE removed.found.R) = b.R
  <2> SUFFICES ASSUME removed.found # NoEntry, ~undo[t] PROVE removed.found = b
    BY <1>2
  <2>1. PICK at \in 1 .. Len(list) :
          /\ removed.found = list[at] /\ SameRedZone(list[at], e)
          /\ \A i \in 1 .. Len(list) : SameRedZone(list[i], e) => at <= i
    <3> HIDE DEF e
    <3> QED
      BY <1>3, RemoveOutcome
  <2>2. list[at] \in Block
    BY <1>3
  <2>3. list[at].L = b.L
    BY <1>2, <2>1, <2>2, BlockIsRecord DEF SameRedZone
  <2>4. PICK j \in 1 .. at : list[j] = b
    BY <1>3, <2>3 DEF FoundFirst
  <2>5. j \in 1 .. Len(list) /\ SameRedZone(list[j], e)
    BY <1>3, <2>4 DEF SameRedZone
  <2>6. j = at
    BY <2>1, <2>5
  <2> QED
    BY <2>1, <2>4, <2>6
<1> HIDE DEF removed
<1>6. PICK there \in {"rem_abort1", "rem_unlock", "rem_list2", "rem_swap"} :
        /\ pc' = [pc EXCEPT ![t] = there]
        /\ there # "rem_abort1" => right' = [right EXCEPT ![t] = b.R]
        /\ there \in {"rem_list2", "rem_swap"} => rightBucket(b) # k
        /\ there = "rem_list2" => lockOf(b.R) = lockL(t)
  <2>1. CASE removed.found = NoEntry
    BY <1>2, <2>1 DEF RemList1, Goto, removed
  <2>2. CASE removed.found # NoEntry
    <3>1. /\ right' = [right EXCEPT ![t] = b.R]
          /\ pc' = [pc EXCEPT ![t] = IF ~(getRZAddrBucket(b.R) # k) THEN "rem_unlock"
                                     ELSE IF lockOf(b.R) = lockL(t) THEN "rem_list2"
                                     ELSE "rem_swap"]
      BY <1>2, <1>5, <2>2 DEF RemList1, Goto, removed
    <3> QED
      BY <1>2, <3>1
  <2> QED
    BY <2>1, <2>2
<1>7. pc'[t] = there /\ (there # "rem_abort1" => right'[t] = b.R)
  BY <1>2, <1>6 DEF TypeOK
<1>8. TableGood(t)'
  <2>1. b \in Counted(t, k)
    BY <1>1, <1>2 DEF Counted, LeftCounts, CountedLeft
  <2>2. b \notin Counted(t, k)'
    <3>1. InCall(t)' /\ ~LeftCounts(t, b)'
      BY <1>4, <1>6, <1>7 DEF LeftCounts, InCall, Removes, CountedLeft
    <3>2. k = rightBucket(b) => ~RightCounts(t, b)'
      BY <1>4, <1>6, <1>7, <3>1 DEF RightCounts, RightAhead
    <3> QED
      BY <1>4, <3>1, <3>2 DEF Counted, leftBucket, rightBucket
  <2>3. \A m \in (0 .. (HASHSZ - 1)) \ {k} :
           /\ m = leftBucket(b) /\ LeftCounts(t, b)' => LeftCounts(t, b)
           /\ m = rightBucket(b) /\ RightCounts(t, b)' => RightCounts(t, b)
    BY <1>1, <1>4, <1>6, <1>7 DEF RightCounts, RightAhead, InCall, Removes
  <2>4. r \in {NULL, b.R}
    BY <1>2
  <2>5. table' = [table EXCEPT ![k] = removeAddrFromList(table[k], [L |-> blk[t].L, R |-> r]).bucket]
    BY <1>4 DEF removed
  <2> HIDE DEF r
  <2> QED
    BY <1>1, <1>2, <1>4, <2>1, <2>2, <2>3, <2>4, <2>5, RemoveKept
<1>9. CallGood(t)'
  <2>1. undo[t] => Cross(b) /\ Shares(table[rightBucket(b)].list, b)
    BY <1>1 DEF CallGood, RollsBack, RightAhead, Removes
  <2>2. Cross(b) => table'[rightBucket(b)] = table[rightBucket(b)]
    BY <1>2, <1>4 DEF TypeOK
  <2>3. RollsBack(t)' => Shares(table'[rightBucket(b)].list, b)
    BY <1>4, <1>6, <1>7, <2>1, <2>2 DEF RollsBack
  <2>4. there \in CrossPCs \/ undo[t] => Cross(b)
    BY <1>2, <1>6, <2>1 DEF CrossPCs
  <2>5. there \in KnowsRight => right'[t] = b.R
    BY <1>7 DEF KnowsRight
  <2>6. Cross(b)' <=> Cross(b)
    BY <1>4 DEF Cross
  <2>7. (RollsBack(t) => Shares(table[rightBucket(blk[t])].list, blk[t]))'
    BY <1>4, <2>3 DEF Shares, SameRedZone, rightBucket
  <2>8. there # "rem_abort2"
    BY <1>6
  <2> QED
    BY <1>2, <1>4, <1>7, <2>4, <2>5, <2>6, <2>7, <2>8 DEF CallGood, Cross
<1>10. HeldGood(t)'
  <2>1. lockL(t)' = lockL(t) /\ (there = "rem_list2" => lockR(t)' = lockL(t))
    BY <1>4, <1>6, <1>7 DEF lockL, lockR
  <2>2. InSection(t, lockL(t))
    BY <1>1 DEF InSection, LeftSection
  <2>3. /\ there \in LeftSection \cup RightSection \cup {"rem_unlock"}
        /\ there \in RightSection => there = "rem_list2"
    BY <1>6 DEF LeftSection, RightSection
  <2> QED
    BY <1>1, <1>2, <1>4, <1>6, <2>1, <2>2, <2>3, HeldMoves
<1> QED
  BY <1>8, <1>9, <1>10 DEF Sane

\* ... and in the right one: a rollback finds the entry for which the bucket refused the
\* block, because the counter of that bucket is not 0.
LEMMA RemList2Sane ==
  ASSUME TInv, TInv', NEW t \in Thread, Sane(t), RemList2(t)
  PROVE  Sane(t)'
<1> DEFINE b == blk[t]
           k == rightBucket(b)
           e == [L |-> b.L, R |-> b.R]
           removed == removeAddrFromList(table[k], e)
<1>1. pc[t] = "rem_list2" /\ InCall(t) /\ TableGood(t) /\ CallGood(t) /\ HeldGood(t) /\ TypeOK'
  BY DEF RemList2, At, InCall, Removes, Sane, TInv
<1>2. /\ TypeOK /\ b \in Block /\ b \in heap /\ k \in 0 .. (HASHSZ - 1) /\ right[t] = b.R
      /\ lockR(t) \in Locks /\ Cross(b) /\ k # leftBucket(b)
      /\ getRZAddrBucket(right[t]) = k /\ e = b
  BY <1>1, CallIs, BlockIsRecord DEF KnowsRight, CallGood, CrossPCs
<1>3. table[k] \in BucketType /\ table[k].list \in Seq(Block) /\ BucketGood(t, k)
  BY <1>1, <1>2 DEF TypeOK, BucketType, TableGood
<1>4. /\ UNCHANGED <<mutex, heap, blk, right, undo>>
      /\ table' = [table EXCEPT ![k] = removed.bucket]
  BY <1>2 DEF RemList2, frames
<1>5. undo[t] => Shares(table[k].list, b)
  BY <1>1 DEF CallGood, RollsBack, RightAhead
<1>6. undo[t] => removed.found # NoEntry
  <2> SUFFICES ASSUME undo[t] PROVE removed.found # NoEntry
    OBVIOUS
  <2>1. Len(table[k].list) > 0
    BY <1>3, <1>5 DEF Shares
  <2>2. table[k].counter # 0
    <3>1. Cardinality(Unlinked(t, k)) \in Nat /\ Len(table[k].list) \in Nat
      BY <1>1, <1>3, UnlinkedFinite
    <3> QED
      BY <1>3, <2>1, <3>1 DEF BucketGood
  <2>3. PICK at \in 1 .. Len(table[k].list) : removed.found = table[k].list[at]
    <3>1. Shares(table[k].list, e)
      BY <1>2, <1>5
    <3> HIDE DEF e
    <3> QED
      BY <1>3, <2>2, <3>1, RemoveOutcome
  <2>4. table[k].list[at] \in Block
    BY <1>3
  <2> QED
    BY <2>3, <2>4, BlockIsRecord
<1> HIDE DEF removed
<1>7. PICK there \in {"rem_abort2", "rem_unlock2"} :
        pc' = [pc EXCEPT ![t] = there] /\ (undo[t] => there = "rem_unlock2")
  BY <1>2, <1>6 DEF RemList2, Goto, removed
<1>8. pc'[t] = there
  BY <1>2, <1>7 DEF TypeOK
<1>9. TableGood(t)'
  <2>1. b \in Counted(t, k) \/ Shares(table[k].list, e)
    <3>1. CASE undo[t]
      BY <1>2, <1>5, <3>1
    <3>2. CASE ~undo[t]
      BY <1>1, <1>2, <3>2 DEF Counted, RightCounts, RightAhead
    <3> QED
      BY <3>1, <3>2
  <2>2. ~LeftCounts(t, b)' /\ ~RightCounts(t, b)'
    BY <1>4, <1>7, <1>8 DEF LeftCounts, RightCounts, InCall, Removes, CountedLeft, RightAhead
  <2>3. b \notin Counted(t, k)'
    BY <1>4, <2>2 DEF Counted
  <2>4. table' = [table EXCEPT ![k] = removeAddrFromList(table[k], [L |-> blk[t].L, R |-> b.R]).bucket]
    BY <1>4 DEF removed
  <2>5. b.R \in {NULL, blk[t].R}
    OBVIOUS
  <2> QED
    BY <1>1, <1>2, <1>4, <2>1, <2>2, <2>3, <2>4, <2>5, RemoveKept
<1>10. CallGood(t)'
  BY <1>2, <1>4, <1>7, <1>8 DEF CallGood, RollsBack, RightAhead, Cross
<1>11. HeldGood(t)'
  <2>1. lockR(t)' = lockR(t) /\ InSection(t, lockR(t))
    BY <1>1, <1>4 DEF lockR, InSection, RightSection
  <2>2. there \in RightSection /\ there \notin LeftSection \cup {"rem_unlock"}
    BY <1>7 DEF LeftSection, RightSection
  <2> QED
    BY <1>1, <1>2, <1>4, <1>7, <2>1, <2>2, HeldMoves
<1> QED
  BY <1>9, <1>10, <1>11 DEF Sane

-----------------------------------------------------------------------------

\* A step inside a call that leaves the table, the heap and the addresses as they are.
LEMMA MovesSane ==
  ASSUME TInv, NEW t \in Thread, Sane(t), InCall(t), UNCHANGED <<table, heap, blk, right>>,
         NEW there \in Registers \cup Removes, pc' = [pc EXCEPT ![t] = there],
         undo'[t] = undo[t] \/ (pc[t] = "reg_undo" /\ undo'[t] /\ there = "rem_lock1"),
         there \in CountedLeft => pc[t] \in CountedLeft,
         there # "reg_unlock",
         ~undo'[t] /\ there \in RightAhead => pc[t] \in RightAhead,
         there \in CrossPCs \/ (undo'[t] /\ there \in Removes) =>
            pc[t] \in CrossPCs \/ (undo[t] /\ pc[t] \in Removes),
         there \in KnowsRight => pc[t] \in KnowsRight,
         undo'[t] /\ there \in RightAhead => RollsBack(t),
         there \notin {"reg_undo", "rem_abort2"},
         HeldGood(t)'
  PROVE  Sane(t)'
<1>1. TypeOK /\ TableGood(t) /\ CallGood(t)
  BY DEF TInv, Sane
<1>2. pc'[t] = there /\ InCall(t)'
  BY <1>1 DEF TypeOK, InCall
<1>3. ASSUME NEW b \in heap
      PROVE  /\ LeftCounts(t, b)' => LeftCounts(t, b)
             /\ RightCounts(t, b)' => RightCounts(t, b)
  <2>1. LeftCounts(t, b)' => LeftCounts(t, b)
    BY <1>2 DEF LeftCounts
  <2>2. RightCounts(t, b)' => RightCounts(t, b)
    BY <1>2 DEF RightCounts, RightAhead
  <2> QED
    BY <2>1, <2>2
<1>4. TableGood(t)'
  BY <1>1, <1>3, TableKept DEF TableGood, HeapApart, Disjoint
<1>5. CallGood(t)'
  <2>1. blk[t] \in heap /\ (pc[t] \in KnowsRight => right[t] = blk[t].R)
        /\ (pc[t] \in CrossPCs \/ (undo[t] /\ pc[t] \in Removes) => Cross(blk[t]))
        /\ (RollsBack(t) => Shares(table[rightBucket(blk[t])].list, blk[t]))
    BY <1>1 DEF CallGood
  <2>2. RollsBack(t)' => RollsBack(t)
    BY <1>2 DEF RollsBack
  <2>3. /\ Cross(blk[t])' <=> Cross(blk[t])
        /\ Shares(table[rightBucket(blk[t])].list, blk[t])'
             <=> Shares(table[rightBucket(blk[t])].list, blk[t])
    BY DEF Cross, Shares, SameRedZone, rightBucket
  <2> QED
    BY <1>2, <2>1, <2>2, <2>3 DEF CallGood
<1> QED
  BY <1>4, <1>5 DEF Sane

\* Waiting for a mutex ends with this mutex in the hands.
LEMMA LocksSane ==
  ASSUME TInv, NEW t \in Thread, Sane(t),
         RegLock1(t) \/ RegLock2(t) \/ RemLock1(t) \/ RemLock2(t)
  PROVE  Sane(t)'
<1>1. UNCHANGED <<table, heap, blk, right, undo>> /\ TypeOK /\ HeldGood(t)
  BY DEF RegLock1, RegLock2, RemLock1, RemLock2, frames, TInv, Sane
<1>2. lockL(t) \in Locks /\ lockR(t) \in Locks /\ lockL(t)' = lockL(t) /\ lockR(t)' = lockR(t)
  BY <1>1, LockExists DEF lockL, lockR
<1>3. CASE RegLock1(t)
  <2>1. PICK there \in {"reg_add1"} :
        pc[t] = "reg_lock1" /\ pc' = [pc EXCEPT ![t] = there] /\ lock(t, lockL(t))
    BY <1>3 DEF RegLock1, At, Goto
  <2>2. HeldGood(t)'
    BY <1>1, <1>2, <2>1, HeldTakes DEF WaitPCs, LeftSection, RightSection
  <2> QED
    BY <1>1, <2>1, <2>2, MovesSane
    DEF InCall, Registers, Removes, CountedLeft, RightAhead, CrossPCs, KnowsRight
<1>4. CASE RegLock2(t)
  <2>1. PICK there \in {"reg_add2"} :
        pc[t] = "reg_lock2" /\ pc' = [pc EXCEPT ![t] = there] /\ lock(t, lockR(t))
    BY <1>4 DEF RegLock2, At, Goto
  <2>2. HeldGood(t)'
    BY <1>1, <1>2, <2>1, HeldTakes DEF WaitPCs, LeftSection, RightSection
  <2> QED
    BY <1>1, <2>1, <2>2, MovesSane
    DEF InCall, Registers, Removes, CountedLeft, RightAhead, CrossPCs, KnowsRight
<1>5. CASE RemLock1(t)
  <2>1. PICK there \in {"rem_list1"} :
        pc[t] = "rem_lock1" /\ pc' = [pc EXCEPT ![t] = there] /\ lock(t, lockL(t))
    BY <1>5 DEF RemLock1, At, Goto
  <2>2. HeldGood(t)'
    BY <1>1, <1>2, <2>1, HeldTakes DEF WaitPCs, LeftSection, RightSection
  <2> QED
    BY <1>1, <2>1, <2>2, MovesSane
    DEF InCall, Registers, Removes, CountedLeft, RightAhead, CrossPCs, KnowsRight, RollsBack
<1>6. CASE RemLock2(t)
  <2>1. PICK there \in {"rem_list2"} :
        pc[t] = "rem_lock2" /\ pc' = [pc EXCEPT ![t] = there] /\ lock(t, lockR(t))
    BY <1>6 DEF RemLock2, At, Goto
  <2>2. HeldGood(t)'
    BY <1>1, <1>2, <2>1, HeldTakes DEF WaitPCs, LeftSection, RightSection
  <2> QED
    BY <1>1, <2>1, <2>2, MovesSane
    DEF InCall, Registers, Removes, CountedLeft, RightAhead, CrossPCs, KnowsRight, RollsBack
<1> QED
  BY <1>3, <1>4, <1>5, <1>6

\* Each unlock on the way gives back what the thread holds; the one that would not, in the
\* rollback that finds nothing on the right, is not reached.
LEMMA UnlocksSane ==
  ASSUME TInv, NEW t \in Thread, Sane(t),
         \/ RegSwap(t) \/ RegDeny(t) \/ RegUndo(t) \/ RemSwap(t) \/ RemUnlock2(t)
         \/ RemUnlock(t) \/ RemAbort1(t) \/ RemAbort2(t)
  PROVE  Sane(t)'
<1>1. UNCHANGED <<table, heap, blk, right>> /\ TypeOK /\ HeldGood(t) /\ CallGood(t)
  BY DEF RegSwap, RegDeny, RegUndo, RemSwap, RemUnlock2, RemUnlock, RemAbort1, RemAbort2,
         frames, TInv, Sane
<1>2. lockL(t) \in Locks /\ lockR(t) \in Locks
  BY LockExists DEF lockL, lockR
<1>3. CASE RegSwap(t)
  <2>1. pc[t] = "reg_swap" /\ undo' = undo /\ unlock(t, lockL(t))
    BY <1>3 DEF RegSwap, At, frames
  <2>2. PICK there \in {"denied", "reg_lock2"} : pc' = [pc EXCEPT ![t] = there]
    BY <1>3 DEF RegSwap, Goto
  <2>3. \A l \in Locks : mutex[l] = t => l = lockL(t)
    BY <1>1, <2>1, OnlyOne DEF LeftSection
  <2>4. HeldGood(t)'
    BY <1>1, <1>2, <2>1, <2>2, <2>3, HeldGives DEF LeftSection, RightSection
  <2> QED
    BY <1>1, <2>1, <2>2, <2>4, MovesSane
    DEF InCall, Registers, Removes, CountedLeft, RightAhead, CrossPCs, KnowsRight
<1>4. CASE RegDeny(t)
  <2>1. PICK there \in {"denied"} :
        pc[t] = "reg_deny" /\ undo' = undo /\ unlock(t, lockL(t)) /\ pc' = [pc EXCEPT ![t] = there]
    BY <1>4 DEF RegDeny, At, Goto, frames
  <2>2. \A l \in Locks : mutex[l] = t => l = lockL(t)
    BY <1>1, <2>1, OnlyOne DEF LeftSection
  <2>3. HeldGood(t)'
    BY <1>1, <1>2, <2>1, <2>2, HeldGives DEF LeftSection, RightSection
  <2> QED
    BY <1>1, <2>1, <2>3, MovesSane
    DEF InCall, Registers, Removes, CountedLeft, RightAhead, CrossPCs, KnowsRight
<1>5. CASE RegUndo(t)
  <2>1. PICK there \in {"rem_lock1"} :
        /\ pc[t] = "reg_undo" /\ undo'[t] /\ unlock(t, lockR(t))
        /\ pc' = [pc EXCEPT ![t] = there]
    BY <1>1, <1>5 DEF RegUndo, At, Goto, TypeOK
  <2>2. \A l \in Locks : mutex[l] = t => l = lockR(t)
    BY <1>1, <2>1, OnlyOne DEF RightSection
  <2>3. HeldGood(t)'
    BY <1>1, <1>2, <2>1, <2>2, HeldGives DEF LeftSection, RightSection
  <2> QED
    BY <1>1, <2>1, <2>3, MovesSane
    DEF InCall, Registers, Removes, CountedLeft, RightAhead, CrossPCs, KnowsRight, RollsBack
<1>6. CASE RemSwap(t)
  <2>1. PICK there \in {"rem_lock2"} :
        pc[t] = "rem_swap" /\ undo' = undo /\ unlock(t, lockL(t)) /\ pc' = [pc EXCEPT ![t] = there]
    BY <1>6 DEF RemSwap, At, Goto, frames
  <2>2. \A l \in Locks : mutex[l] = t => l = lockL(t)
    BY <1>1, <2>1, OnlyOne DEF LeftSection
  <2>3. HeldGood(t)'
    BY <1>1, <1>2, <2>1, <2>2, HeldGives DEF LeftSection, RightSection
  <2> QED
    BY <1>1, <2>1, <2>3, MovesSane
    DEF InCall, Registers, Removes, CountedLeft, RightAhead, CrossPCs, KnowsRight, RollsBack
<1>7. CASE RemUnlock2(t)
  <2>1. pc[t] = "rem_unlock2" /\ undo' = undo /\ unlock(t, lockR(t))
    BY <1>7 DEF RemUnlock2, At, frames
  <2>2. PICK there \in {"removed", "rem_unlock"} : pc' = [pc EXCEPT ![t] = there]
    BY <1>7 DEF RemUnlock2, Goto
  <2>3. \A l \in Locks : mutex[l] = t => l = lockR(t)
    BY <1>1, <2>1, OnlyOne DEF RightSection
  <2>4. HeldGood(t)'
    BY <1>1, <1>2, <2>1, <2>2, <2>3, HeldGives DEF LeftSection, RightSection
  <2> QED
    BY <1>1, <2>1, <2>2, <2>4, MovesSane
    DEF InCall, Registers, Removes, CountedLeft, RightAhead, CrossPCs, KnowsRight
<1>8. CASE RemUnlock(t)
  <2>1. PICK there \in {"removed"} :
        pc[t] = "rem_unlock" /\ undo' = undo /\ unlock(t, lockL(t)) /\ pc' = [pc EXCEPT ![t] = there]
    BY <1>8 DEF RemUnlock, At, Goto, frames
  <2>2. \A l \in Locks : mutex[l] = t => l = lockL(t)
    BY <1>1, <2>1, OnlyOne
  <2>3. HeldGood(t)'
    BY <1>1, <1>2, <2>1, <2>2, HeldGives DEF LeftSection, RightSection
  <2> QED
    BY <1>1, <2>1, <2>3, MovesSane
    DEF InCall, Registers, Removes, CountedLeft, RightAhead, CrossPCs, KnowsRight
<1>9. CASE RemAbort1(t)
  <2>1. PICK there \in {"removed"} :
        pc[t] = "rem_abort1" /\ undo' = undo /\ unlock(t, lockL(t)) /\ pc' = [pc EXCEPT ![t] = there]
    BY <1>9 DEF RemAbort1, At, Goto, frames
  <2>2. \A l \in Locks : mutex[l] = t => l = lockL(t)
    BY <1>1, <2>1, OnlyOne DEF LeftSection
  <2>3. HeldGood(t)'
    BY <1>1, <1>2, <2>1, <2>2, HeldGives DEF LeftSection, RightSection
  <2> QED
    BY <1>1, <2>1, <2>3, MovesSane
    DEF InCall, Registers, Removes, CountedLeft, RightAhead, CrossPCs, KnowsRight
<1>10. CASE RemAbort2(t)
  <2>1. PICK there \in {"removed"} :
        pc[t] = "rem_abort2" /\ undo' = undo /\ pc' = [pc EXCEPT ![t] = there]
    BY <1>10 DEF RemAbort2, At, Goto, frames
  <2>2. ~undo[t]
    BY <1>1, <2>1 DEF CallGood, InCall, Removes
  <2>3. unlock(t, lockR(t))
    BY <1>10, <2>2 DEF RemAbort2
  <2>4. \A l \in Locks : mutex[l] = t => l = lockR(t)
    BY <1>1, <2>1, OnlyOne DEF RightSection
  <2>5. HeldGood(t)'
    BY <1>1, <1>2, <2>1, <2>3, <2>4, HeldGives DEF LeftSection, RightSection
  <2> QED
    BY <1>1, <2>1, <2>5, MovesSane
    DEF InCall, Registers, Removes, CountedLeft, RightAhead, CrossPCs, KnowsRight
<1> QED
  BY <1>3, <1>4, <1>5, <1>6, <1>7, <1>8, <1>9, <1>10

\* A thread that is in no call holds nothing and has all blocks counted.
LEMMA OutsideSane ==
  ASSUME TInv, NEW t \in Thread, Sane(t), table' = table, heap' = heap,
         NEW there \in {"idle", "initLib", "called"}, pc' = [pc EXCEPT ![t] = there],
         ~InCall(t) \/ (pc[t] = "reg_unlock" /\ blk' = blk),
         \A l \in Locks : mutex'[l] # t
  PROVE  Sane(t)'
<1>1. TypeOK /\ TableGood(t)
  BY DEF TInv, Sane
<1>2. pc'[t] = there /\ ~InCall(t)'
  BY <1>1 DEF TypeOK, InCall, Registers, Removes
<1>3. \A b \in heap : LeftCounts(t, b) /\ RightCounts(t, b)
  BY DEF LeftCounts, RightCounts, CountedLeft
<1>4. TableGood(t)'
  BY <1>1, <1>3, TableKept DEF TableGood, HeapApart, Disjoint
<1>5. CallGood(t)'
  BY <1>2 DEF CallGood
<1>6. HeldGood(t)'
  BY <1>2 DEF HeldGood, HoldsOnly, InSection, LeftSection, RightSection
<1> QED
  BY <1>4, <1>5, <1>6 DEF Sane

\* The first call, and registerAddr's last unlock.
LEMMA ReturnsSane ==
  ASSUME TInv, NEW t \in Thread, Sane(t),
         EnterUninitialised(t) \/ initLib(t) \/ ReturnAtOnce(t) \/ RegUnlock(t)
  PROVE  Sane(t)'
<1>1. TypeOK /\ HeldGood(t) /\ table' = table /\ heap' = heap
  BY DEF TInv, Sane, EnterUninitialised, initLib, ReturnAtOnce, RegUnlock, library
<1>2. CASE EnterUninitialised(t) \/ initLib(t) \/ ReturnAtOnce(t)
  <2>1. PICK there \in {"idle", "initLib", "called"} : pc' = [pc EXCEPT ![t] = there]
    BY <1>2 DEF EnterUninitialised, initLib, ReturnAtOnce, Goto
  <2>2. pc[t] \in {"idle", "initLib", "called"}
    BY <1>2 DEF EnterUninitialised, initLib, ReturnAtOnce, At
  <2>3. ~InCall(t)
    BY <2>2 DEF InCall, Registers, Removes
  <2>4. \A l \in Locks : mutex[l] # t
    BY <1>1, <2>2, OnlyOne DEF LeftSection, RightSection
  <2>5. \A l \in Locks : mutex'[l] # t
    BY <1>2, <2>4, ThreadAssumption DEF EnterUninitialised, initLib, ReturnAtOnce, library
  <2> QED
    BY <1>1, <2>1, <2>3, <2>5, OutsideSane
<1>3. CASE RegUnlock(t)
  <2>1. pc[t] = "reg_unlock" /\ unlock(t, lockR(t)) /\ UNCHANGED <<blk, right, undo>>
    BY <1>3 DEF RegUnlock, At, frames
  <2>2. \A l \in Locks : mutex[l] = t <=> l = lockR(t)
    BY <1>1, <2>1, OnlyOne DEF RightSection
  <2>3. lockR(t) \in Locks
    BY LockExists DEF lockR
  <2>4. ~Refused(t, lockR(t))
    BY <2>2, <2>3 DEF Refused
  <2>5. PICK there \in {"idle"} : pc' = [pc EXCEPT ![t] = there]
    BY <1>3, <2>4 DEF RegUnlock, Goto
  <2>6. \A l \in Locks : mutex'[l] # t
    BY <1>1, <2>1, <2>2, <2>4, ThreadAssumption DEF unlock, TypeOK
  <2> QED
    BY <1>1, <2>1, <2>5, <2>6, OutsideSane
<1> QED
  BY <1>2, <1>3

\* A call begins: the block it gets is disjoint from the others and counted nowhere; the
\* block it gives back is counted, unless the program never had it from the system.
LEMMA CallsSane ==
  ASSUME TInv, NEW t \in Thread, Sane(t), NEW b \in Block, Dlib_malloc(t, b) \/ Dlib_free(t, b)
  PROVE  Sane(t)' \/ Doomed(t)'
<1>1. TypeOK /\ TableGood(t) /\ HeldGood(t) /\ table' = table /\ mutex' = mutex
  BY DEF TInv, Sane, Dlib_malloc, Dlib_free, library
<1>2. pc[t] \in {"idle", "called"} /\ blk' = [blk EXCEPT ![t] = b] /\ undo' = [undo EXCEPT ![t] = FALSE]
  BY DEF Dlib_malloc, Dlib_free, At
<1>3. blk'[t] = b /\ ~undo'[t]
  BY <1>1, <1>2 DEF TypeOK
<1>4. \A c \in heap : LeftCounts(t, c) /\ RightCounts(t, c)
  BY <1>2 DEF LeftCounts, RightCounts, InCall, Registers, Removes
<1>5. \A l \in Locks : mutex[l] # t
  BY <1>1, <1>2, OnlyOne DEF LeftSection, RightSection
<1>6. CASE Dlib_malloc(t, b)
  <2>1. PICK there \in {"reg_lock1", "denied"} : pc' = [pc EXCEPT ![t] = there]
    BY <1>6 DEF Dlib_malloc, Goto
  <2>2. pc'[t] = there /\ InCall(t)'
    BY <1>1, <2>1 DEF TypeOK, InCall, Registers
  <2>3. heap' = heap \cup {b} /\ \A c \in heap : Disjoint(b, c)
    BY <1>6 DEF Dlib_malloc
  <2>4. TableGood(t)'
    <3>1. IsFiniteSet(heap')
      BY <1>1, <2>3, FS_AddElement DEF TableGood
    <3>2. HeapApart'
      BY <1>1, <2>3 DEF TableGood, HeapApart, Disjoint
    <3>3. ~LeftCounts(t, b)' /\ ~RightCounts(t, b)'
      BY <1>3, <2>1, <2>2 DEF LeftCounts, RightCounts, CountedLeft, RightAhead
    <3>4. \A c \in heap' : /\ LeftCounts(t, c)' => c \in heap /\ LeftCounts(t, c)
                           /\ RightCounts(t, c)' => c \in heap /\ RightCounts(t, c)
      BY <1>4, <2>3, <3>3
    <3> QED
      BY <1>1, <3>1, <3>2, <3>4, TableKept
  <2>5. CallGood(t)'
    BY <1>3, <2>1, <2>2, <2>3
    DEF CallGood, CrossPCs, KnowsRight, Removes, RollsBack, RightAhead
  <2>6. HeldGood(t)'
    BY <1>1, <1>5, <2>1, <2>2 DEF HeldGood, HoldsOnly, InSection, LeftSection, RightSection
  <2> QED
    BY <2>4, <2>5, <2>6 DEF Sane
<1>7. CASE Dlib_free(t, b)
  <2>1. PICK there \in {"rem_lock1"} : pc' = [pc EXCEPT ![t] = there]
    BY <1>7 DEF Dlib_free, Goto
  <2>2. pc'[t] = there /\ InCall(t)'
    BY <1>1, <2>1 DEF TypeOK, InCall, Removes
  <2>3. heap' = heap
    BY <1>7 DEF Dlib_free
  <2>4. CASE b \notin heap
    BY <1>3, <2>1, <2>2, <2>3, <2>4 DEF Doomed, Removes
  <2>5. CASE b \in heap
    <3>1. TableGood(t)'
      BY <1>1, <1>4, <2>3, TableKept DEF TableGood, HeapApart, Disjoint
    <3>2. CallGood(t)'
      BY <1>3, <2>2, <2>1, <2>3, <2>5 DEF CallGood, CrossPCs, KnowsRight, RollsBack
    <3>3. HeldGood(t)'
      BY <1>1, <1>5, <2>1, <2>2 DEF HeldGood, HoldsOnly, InSection, LeftSection, RightSection
    <3> QED
      BY <3>1, <3>2, <3>3 DEF Sane
  <2> QED
    BY <2>4, <2>5
<1> QED
  BY <1>6, <1>7

\* A call ends by giving its block back to the system; a rollback by having it denied.
LEMMA EndsSane ==
  ASSUME TInv, NEW t \in Thread, Sane(t), Denied(t) \/ Removed(t)
  PROVE  Sane(t)'
<1>1. /\ TypeOK /\ TableGood(t) /\ HeldGood(t) /\ CallGood(t) /\ table' = table /\ mutex' = mutex
      /\ UNCHANGED <<blk, right, undo>>
  BY DEF TInv, Sane, Denied, Removed, library, frames
<1>2. pc[t] \in {"denied", "removed"}
  BY DEF Denied, Removed, At
<1>3. \A l \in Locks : mutex'[l] # t
  BY <1>1, <1>2, OnlyOne DEF LeftSection, RightSection
<1>4. CASE Removed(t) /\ undo[t]
  <2>1. PICK there \in {"denied"} : pc' = [pc EXCEPT ![t] = there] /\ heap' = heap
    BY <1>4 DEF Removed, Goto
  <2>2. HeldGood(t)'
    BY <1>1, <1>3, <2>1 DEF HeldGood, HoldsOnly, InSection, LeftSection, RightSection, TypeOK
  <2> QED
    BY <1>1, <1>2, <2>1, <2>2, MovesSane
    DEF InCall, Registers, Removes, CountedLeft, RightAhead, CrossPCs, KnowsRight
<1>5. CASE Denied(t) \/ ~undo[t]
  <2>1. pc' = [pc EXCEPT ![t] = "idle"] /\ heap' = heap \ {blk[t]}
    BY <1>5 DEF Denied, Removed, Goto
  <2>2. pc'[t] = "idle" /\ ~InCall(t)'
    BY <1>1, <2>1 DEF TypeOK, InCall, Registers, Removes
  <2>3. TableGood(t)'
    <3>1. IsFiniteSet(heap')
      BY <1>1, <2>1, FS_RemoveElement DEF TableGood
    <3>2. HeapApart'
      BY <1>1, <2>1 DEF TableGood, HeapApart, Disjoint
    <3>3. \A c \in heap' : c \in heap /\ LeftCounts(t, c) /\ RightCounts(t, c)
      BY <2>1 DEF LeftCounts, RightCounts
    <3> QED
      BY <1>1, <3>1, <3>2, <3>3, TableKept
  <2>4. CallGood(t)'
    BY <2>2 DEF CallGood
  <2>5. HeldGood(t)'
    BY <1>3, <2>2 DEF HeldGood, HoldsOnly, InSection, LeftSection, RightSection
  <2> QED
    BY <2>3, <2>4, <2>5 DEF Sane
<1> QED
  BY <1>4, <1>5

\* Nothing keeps a doomed call from its end, where free aborts the process.
LEMMA DoomedStays ==
  ASSUME TInv, NEW t \in Thread, Doomed(t), Call(t) \/ Proceed(t), crashed' = "no"
  PROVE  Doomed(t)'
<1>1. TypeOK /\ pc[t] \in Removes /\ ~undo[t] /\ blk[t] \notin heap
  BY DEF TInv, Doomed
<1>2. Removing(t)
  BY <1>1 DEF Call, Proceed, Registering, EnterUninitialised, Dlib_malloc, Dlib_free, initLib,
              ReturnAtOnce, RegLock1, RegAdd1, RegSwap, RegLock2, RegAdd2, RegUnlock, RegDeny,
              RegUndo, Denied, At, Removes
<1>3. ~Removed(t)
  BY <1>1 DEF Removed
<1>4. UNCHANGED <<heap, blk, undo>>
  BY <1>2, <1>3 DEF Removing, RemLock1, RemList1, RemSwap, RemLock2, RemList2, RemUnlock2,
                    RemUnlock, RemAbort1, RemAbort2, frames
<1>5. PICK there \in Removes : pc' = [pc EXCEPT ![t] = there]
  BY <1>2, <1>3 DEF Removing, RemLock1, RemList1, RemSwap, RemLock2, RemList2, RemUnlock2,
                    RemUnlock, RemAbort1, RemAbort2, Goto, Removes
<1>6. pc'[t] = there
  BY <1>1, <1>5 DEF TypeOK
<1> QED
  BY <1>1, <1>4, <1>6 DEF Doomed

\* At first the lists and the heap are empty and the mutexes free.
LEMMA InitSane ==
  ASSUME NEW t \in Thread, Init
  PROVE  Sane(t)
<1>1. pc[t] = "idle" /\ heap = {} /\ \A l \in Locks : mutex[l] # t
  BY ThreadAssumption DEF Init
<1>2. \A k \in 0 .. (HASHSZ - 1) : BucketGood(t, k)
  <2> TAKE k \in 0 .. (HASHSZ - 1)
  <2>1. table[k] = EmptyBucket
    BY DEF Init
  <2>2. table[k].counter = 0 /\ table[k].list = <<>> /\ Len(table[k].list) = 0
    BY <2>1 DEF EmptyBucket
  <2>3. Unlinked(t, k) = {}
    BY <1>1 DEF Unlinked, Counted
  <2>4. Cardinality(Unlinked(t, k)) = 0
    BY <2>3, FS_EmptySet
  <2> QED
    BY <1>1, <2>2, <2>4 DEF BucketGood, Behind
<1>3. TableGood(t)
  BY <1>1, <1>2, FS_EmptySet DEF TableGood, HeapApart
<1>4. CallGood(t) /\ HeldGood(t)
  BY <1>1 DEF CallGood, InCall, Registers, Removes, HeldGood, HoldsOnly, InSection, LeftSection,
              RightSection
<1> QED
  BY <1>3, <1>4 DEF Sane

\* A program of one thread: no call returns with a mutex held, on any path and however many
\* allocations of nodes fail, whether or not unlock checks the owner.  (The unlock of memL
\* in place of memR, dhash.c:580, is of no consequence here: a rollback always finds the
\* entry on the right that made it necessary.)
THEOREM AloneNoLockKept ==
  ASSUME NEW me, Thread = {me}
  PROVE  Spec => []IdleHoldsNoLock
<1>1. Init => AloneInv(me)
  BY InitSane DEF AloneInv
<1>2. TInv /\ TInv' /\ AloneInv(me) /\ [Next]_vars => AloneInv(me)'
  <2> SUFFICES ASSUME TInv, TInv', AloneInv(me), [Next]_vars, crashed' = "no"
               PROVE  Doomed(me)' \/ Sane(me)'
    BY DEF AloneInv
  <2>1. CASE UNCHANGED vars
    <3>1. Doomed(me) \/ Sane(me)
      BY <2>1 DEF AloneInv, vars
    <3>2. Doomed(me)' <=> Doomed(me)
      BY <2>1 DEF vars, Doomed
    <3>3. TableGood(me) => TableGood(me)'
      <4>1. UNCHANGED <<table, heap, pc, blk, undo>> /\ TypeOK
        BY <2>1 DEF vars, TInv
      <4>2. \A b : /\ LeftCounts(me, b)' <=> LeftCounts(me, b)
                   /\ RightCounts(me, b)' <=> RightCounts(me, b)
        BY <4>1 DEF LeftCounts, RightCounts, InCall
      <4> QED
        BY <4>1, <4>2, TableKept DEF TableGood, HeapApart, Disjoint
    <3>4. CallGood(me) => CallGood(me)'
      BY <2>1 DEF vars, CallGood, InCall, RollsBack, Shares, SameRedZone, rightBucket, Cross
    <3>5. HeldGood(me) => HeldGood(me)'
      BY <2>1 DEF vars, HeldGood, HoldsOnly, MayHold, InSection, lockL, lockR
    <3> QED
      BY <3>1, <3>2, <3>3, <3>4, <3>5 DEF Sane
  <2>2. CASE Call(me) \/ Proceed(me)
    <3>1. me \in Thread /\ crashed = "no"
      BY <2>2 DEF Call, Proceed, Registering, Removing, EnterUninitialised, Dlib_malloc, Dlib_free,
         initLib, ReturnAtOnce, RegLock1, RegAdd1, RegSwap, RegLock2, RegAdd2, RegUnlock, RegDeny,
         RegUndo, Denied, RemLock1, RemList1, RemSwap, RemLock2, RemList2, RemUnlock2,
         RemUnlock, RemAbort1, RemAbort2, Removed, At
    <3>2. CASE Doomed(me)
      BY <2>2, <3>1, <3>2, DoomedStays
    <3>3. CASE Sane(me)
      <4>1. CASE Call(me)
        BY <3>1, <3>3, <4>1, ReturnsSane, CallsSane DEF Call
      <4>2. CASE Proceed(me)
        BY <3>1, <3>3, <4>2, ReturnsSane, EndsSane, LocksSane, UnlocksSane, RegAdd1Sane,
           RegAdd2Sane, RemList1Sane, RemList2Sane DEF Proceed, Registering, Removing
      <4> QED
        BY <2>2, <4>1, <4>2
    <3> QED
      BY <3>1, <3>2, <3>3 DEF AloneInv
  <2> QED
    BY <2>1, <2>2 DEF Next
<1>3. AloneInv(me) => IdleHoldsNoLock
  BY DEF AloneInv, Doomed, Removes, Sane, HeldGood, HoldsOnly, MayHold, InSection, LeftSection,
         RightSection, IdleHoldsNoLock
<1>4. Spec => []TInv
  BY TypeCorrect
<1> QED
  BY <1>1, <1>2, <1>3, <1>4, PTL DEF Spec

===============================================================================
