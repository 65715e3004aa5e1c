--------------------------- MODULE FreeListsProofs ---------------------------
(***************************************************************************)
(* The custom allocator, for any number and length of the free lists: no   *)
(* block is lost or given out twice, the red zones neighbours share stay   *)
(* out of bounds whichever of the two is freed, and a freed block is       *)
(* reported until it is in use again.                                      *)
(***************************************************************************)
EXTENDS FreeLists, FiniteSetTheorems, WellFoundedInduction, TLAPS

\* Sizes --------------------------------------------------------------------------------

\* A set of naturals that is not empty has a least element.
LEMMA Least ==
  ASSUME NEW T, T \subseteq Nat, T # {}
  PROVE  \E m \in T : \A k \in T : m <= k
<1> DEFINE R == {p \in Nat \X Nat : p[1] < p[2]}
<1>1. IsWellFoundedOn(R, Nat)
  BY NatLessThanWellFounded DEF OpToRel
<1> HIDE DEF R
<1>2. \E m \in T : \A y \in T : ~(<<y, m>> \in R)
  BY <1>1, WFMin
<1>3. \A m, y \in T : ~(<<y, m>> \in R) => m <= y
  BY DEF R
<1> QED
  BY <1>2, <1>3

\* Induction, for a set that is given.
LEMMA Induction ==
  ASSUME NEW T, 0 \in T, \A n \in Nat : n \in T => n + 1 \in T
  PROVE  Nat \subseteq T
<1> SUFFICES ASSUME Nat \ T # {} PROVE FALSE
  OBVIOUS
<1>1. PICK m \in Nat \ T : \A k \in Nat \ T : m <= k
  BY Least
<1>2. m - 1 \in Nat /\ m - 1 \in T /\ m = (m - 1) + 1
  BY <1>1
<1> QED
  BY <1>1, <1>2

\* f agrees with the recursion of BlockSize up to n.
Approximates(f, n) == \A i \in 0 .. n : f[i] = IF i = 0 THEN 8 ELSE 2 * f[i - 1]

\* BlockSize is what its recursion says.
LEMMA BlockSizeDef ==
  BlockSize = [i \in Nat |-> IF i = 0 THEN 8 ELSE 2 * BlockSize[i - 1]]
<1>1. \A n \in Nat : \E f : Approximates(f, n)
  <2> DEFINE T == {n \in Nat : \E f : Approximates(f, n)}
  <2>1. 0 \in T
    <3> DEFINE f == [i \in Nat |-> 8]
    <3>1. Approximates(f, 0)
      BY DEF Approximates
    <3> QED
      BY <3>1
  <2>2. ASSUME NEW n \in Nat, n \in T PROVE n + 1 \in T
    <3>1. PICK f : Approximates(f, n)
      BY <2>2
    <3> DEFINE g == [i \in 0 .. (n + 1) |-> IF i = n + 1 THEN 2 * f[n] ELSE f[i]]
    <3>2. Approximates(g, n + 1)
      <4> SUFFICES ASSUME NEW i \in 0 .. (n + 1)
                   PROVE  g[i] = IF i = 0 THEN 8 ELSE 2 * g[i - 1]
        BY DEF Approximates
      <4>1. CASE i = n + 1
        <5>1. g[i] = 2 * f[n] /\ i # 0 /\ i - 1 = n
          BY <4>1
        <5>2. g[i - 1] = f[n]
          BY <5>1
        <5> QED
          BY <5>1, <5>2
      <4>2. CASE i # n + 1
        <5>1. i \in 0 .. n /\ g[i] = f[i] /\ (i # 0 => g[i - 1] = f[i - 1])
          BY <4>2
        <5> QED
          BY <3>1, <5>1 DEF Approximates
      <4> QED
        BY <4>1, <4>2
    <3> QED
      BY <3>2
  <2> HIDE DEF T
  <2>3. Nat \subseteq T
    BY <2>1, <2>2, Induction
  <2> QED
    BY <2>3 DEF T
<1>2. \A k \in Nat : \A n, m \in Nat : \A f, g :
        k <= n /\ k <= m /\ Approximates(f, n) /\ Approximates(g, m) => f[k] = g[k]
  <2> DEFINE T == {k \in Nat : \A n, m \in Nat : \A f, g :
        k <= n /\ k <= m /\ Approximates(f, n) /\ Approximates(g, m) => f[k] = g[k]}
  <2>1. 0 \in T
    BY DEF Approximates
  <2>2. ASSUME NEW k \in Nat, k \in T PROVE k + 1 \in T
    <3>1. ASSUME NEW n \in Nat, NEW m \in Nat, NEW f, NEW g,
                 k + 1 <= n, k + 1 <= m, Approximates(f, n), Approximates(g, m)
          PROVE  f[k + 1] = g[k + 1]
      <4>1. f[k] = g[k]
        BY <2>2, <3>1
      <4>2. k + 1 \in 0 .. n /\ k + 1 \in 0 .. m /\ k + 1 # 0 /\ (k + 1) - 1 = k
        BY <3>1
      <4>3. f[k + 1] = 2 * f[k] /\ g[k + 1] = 2 * g[k]
        BY <3>1, <4>2 DEF Approximates
      <4> QED
        BY <4>1, <4>3
    <3>2. k + 1 \in Nat
      OBVIOUS
    <3> QED
      BY <3>1, <3>2
  <2> HIDE DEF T
  <2>3. Nat \subseteq T
    BY <2>1, <2>2, Induction
  <2> QED
    BY <2>3 DEF T
<1> DEFINE F(n) == CHOOSE f : Approximates(f, n)
           h == [n \in Nat |-> F(n)[n]]
<1>3. \A n \in Nat : Approximates(F(n), n)
  BY <1>1
<1> HIDE DEF F
<1>4. h = [i \in Nat |-> IF i = 0 THEN 8 ELSE 2 * h[i - 1]]
  <2> SUFFICES ASSUME NEW i \in Nat
               PROVE  F(i)[i] = IF i = 0 THEN 8 ELSE 2 * h[i - 1]
    OBVIOUS
  <2>1. F(i)[i] = IF i = 0 THEN 8 ELSE 2 * F(i)[i - 1]
    BY <1>3 DEF Approximates
  <2>2. ASSUME i # 0 PROVE F(i)[i - 1] = h[i - 1]
    <3>1. i - 1 \in Nat /\ i - 1 <= i
      BY <2>2
    <3>2. F(i)[i - 1] = F(i - 1)[i - 1]
      BY <1>2, <1>3, <3>1
    <3> QED
      BY <3>1, <3>2
  <2> QED
    BY <2>1, <2>2
<1> HIDE DEF h
<1> QED
  BY <1>4 DEF BlockSize

\* The sizes of the lists are multiples of 8, and they grow with the index.
LEMMA Sizes ==
  /\ \A i \in Nat : BlockSize[i] \in Nat \ {0} /\ BlockSize[i] % 8 = 0
  /\ \A i, j \in Nat : BlockSize[i] = BlockSize[j] => i = j
<1>1. BlockSize[0] = 8 /\ \A n \in Nat : BlockSize[n + 1] = 2 * BlockSize[n]
  <2>1. \A i \in Nat : BlockSize[i] = IF i = 0 THEN 8 ELSE 2 * BlockSize[i - 1]
    BY BlockSizeDef
  <2>2. \A n \in Nat : n + 1 \in Nat /\ n + 1 # 0 /\ (n + 1) - 1 = n
    OBVIOUS
  <2> QED
    BY <2>1, <2>2
<1>2. \A i \in Nat : BlockSize[i] \in Nat \ {0} /\ BlockSize[i] % 8 = 0
  <2> DEFINE T == {i \in Nat : BlockSize[i] \in Nat \ {0} /\ BlockSize[i] % 8 = 0}
  <2>1. 0 \in T
    BY <1>1
  <2>2. \A n \in Nat : n \in T => n + 1 \in T
    BY <1>1
  <2> HIDE DEF T
  <2>3. Nat \subseteq T
    BY <2>1, <2>2, Induction
  <2> QED
    BY <2>3 DEF T
<1>3. \A j \in Nat : \A i \in Nat : i < j => BlockSize[i] < BlockSize[j]
  <2> DEFINE T == {j \in Nat : \A i \in Nat : i < j => BlockSize[i] < BlockSize[j]}
  <2>1. 0 \in T
    OBVIOUS
  <2>2. ASSUME NEW n \in Nat, n \in T PROVE n + 1 \in T
    <3> SUFFICES ASSUME NEW i \in Nat, i < n + 1 PROVE BlockSize[i] < BlockSize[n + 1]
      OBVIOUS
    <3>1. BlockSize[n] < BlockSize[n + 1] /\ BlockSize[n + 1] \in Nat
      BY <1>1, <1>2
    <3>2. i = n \/ BlockSize[i] < BlockSize[n]
      BY <2>2
    <3> QED
      BY <1>2, <3>1, <3>2
  <2> HIDE DEF T
  <2>3. Nat \subseteq T
    BY <2>1, <2>2, Induction
  <2> QED
    BY <2>3 DEF T
<1>4. ASSUME NEW i \in Nat, NEW j \in Nat, BlockSize[i] = BlockSize[j] PROVE i = j
  BY <1>2, <1>3, <1>4
<1> QED
  BY <1>2, <1>4

\* The list of a size is the one whose blocks have that size.
LEMMA IndexOfSize ==
  ASSUME NEW i \in Index PROVE getFreeListArrayIndex(BlockSize[i]) = i
<1>1. Index \subseteq Nat
  BY ListAssumption DEF Index
<1> QED
  BY <1>1, Sizes DEF getFreeListArrayIndex

\* A request is padded to a size that has a list and is large enough.
LEMMA PaddedFits ==
  ASSUME NEW sz \in Request
  PROVE  \E i \in Index : Padded(sz) = BlockSize[i] /\ sz <= BlockSize[i]
<1>1. Index \subseteq Nat
  BY ListAssumption DEF Index
<1> DEFINE T == {p \in Nat : p >= sz /\ \E i \in Index : p = BlockSize[i]}
<1>2. T # {} /\ T \subseteq Nat /\ sz \in Nat
  BY <1>1, RequestAssumption, Sizes
<1>3. PICK m \in T : \A k \in T : m <= k
  BY <1>2, Least
<1>4. /\ m \in {BlockSize[i] : i \in Index} /\ m >= sz
      /\ \A q \in {BlockSize[i] : i \in Index} : q >= sz => m <= q
  BY <1>1, <1>3, Sizes
<1> HIDE DEF T
<1>5. /\ Padded(sz) \in {BlockSize[i] : i \in Index} /\ Padded(sz) >= sz
  BY <1>4 DEF Padded
<1>6. PICK i \in Index : Padded(sz) = BlockSize[i]
  BY <1>5
<1> QED
  BY <1>1, <1>2, <1>5, <1>6, Sizes

\* Lists --------------------------------------------------------------------------------

NoRepeat(s) == \A j, k \in DOMAIN s : s[j] = s[k] => j = k

\* What a list holds without its first block.
LEMMA TailOfList ==
  ASSUME NEW s \in Seq(Nat), s # <<>>, NoRepeat(s)
  PROVE  /\ Tail(s) \in Seq(Nat) /\ Len(Tail(s)) = Len(s) - 1 /\ NoRepeat(Tail(s))
         /\ Head(s) \in Nat /\ Head(s) \in ToSet(s)
         /\ ToSet(Tail(s)) = ToSet(s) \ {Head(s)}
<1>1. /\ Tail(s) \in Seq(Nat) /\ Len(Tail(s)) = Len(s) - 1 /\ Len(s) \in Nat \ {0}
      /\ DOMAIN s = 1 .. Len(s) /\ DOMAIN Tail(s) = 1 .. (Len(s) - 1)
      /\ \A k \in 1 .. (Len(s) - 1) : Tail(s)[k] = s[k + 1]
      /\ Head(s) = s[1] /\ s[1] \in Nat
  OBVIOUS
<1>2. NoRepeat(Tail(s))
  BY <1>1 DEF NoRepeat
<1>3. Head(s) \in ToSet(s)
  BY <1>1 DEF ToSet
<1>4. ASSUME NEW m \in ToSet(Tail(s)) PROVE m \in ToSet(s) \ {Head(s)}
  <2>1. PICK k \in 1 .. (Len(s) - 1) : m = s[k + 1]
    BY <1>1 DEF ToSet
  <2>2. k + 1 \in DOMAIN s /\ 1 \in DOMAIN s /\ k + 1 # 1
    BY <1>1
  <2> QED
    BY <1>1, <2>1, <2>2 DEF ToSet, NoRepeat
<1>5. ASSUME NEW m \in ToSet(s) \ {Head(s)} PROVE m \in ToSet(Tail(s))
  <2>1. PICK k \in 1 .. Len(s) : m = s[k]
    BY <1>1 DEF ToSet
  <2>2. k # 1
    BY <1>1, <2>1
  <2>3. k - 1 \in DOMAIN Tail(s) /\ Tail(s)[k - 1] = m
    BY <1>1, <2>1, <2>2
  <2> QED
    BY <2>3 DEF ToSet
<1> QED
  BY <1>1, <1>2, <1>3, <1>4, <1>5

\* What a list holds with one more block in front.
LEMMA FrontOfList ==
  ASSUME NEW s \in Seq(Nat), NoRepeat(s), NEW m \in Nat, m \notin ToSet(s)
  PROVE  /\ <<m>> \o s \in Seq(Nat) /\ Len(<<m>> \o s) = Len(s) + 1
         /\ NoRepeat(<<m>> \o s)
         /\ ToSet(<<m>> \o s) = ToSet(s) \cup {m}
<1> DEFINE t == <<m>> \o s
<1>1. /\ t \in Seq(Nat) /\ Len(t) = Len(s) + 1 /\ Len(s) \in Nat
      /\ DOMAIN s = 1 .. Len(s) /\ DOMAIN t = 1 .. (Len(s) + 1)
      /\ t[1] = m /\ \A k \in 1 .. Len(s) : t[k + 1] = s[k]
      /\ \A k \in 2 .. (Len(s) + 1) : k - 1 \in DOMAIN s /\ t[k] = s[k - 1]
  OBVIOUS
<1> HIDE DEF t
<1>2. /\ \A k \in DOMAIN s : s[k] # m /\ s[k] \in ToSet(s)
      /\ \A k \in DOMAIN t : k = 1 \/ k \in 2 .. (Len(s) + 1)
  BY <1>1 DEF ToSet
<1>3. NoRepeat(t)
  <2> SUFFICES ASSUME NEW j \in DOMAIN t, NEW k \in DOMAIN t, t[j] = t[k] PROVE j = k
    BY DEF NoRepeat
  <2>1. CASE j = 1 \/ k = 1
    BY <1>1, <1>2, <2>1, ZenonT(60)
  <2>2. CASE j # 1 /\ k # 1
    <3>1. j \in 2 .. (Len(s) + 1) /\ k \in 2 .. (Len(s) + 1)
      BY <1>1, <2>2, SMTT(30)
    <3>2. s[j - 1] = s[k - 1] /\ j - 1 \in DOMAIN s /\ k - 1 \in DOMAIN s
      BY <1>1, <3>1
    <3>3. j - 1 = k - 1
      BY <3>2 DEF NoRepeat
    <3> QED
      BY <3>1, <3>3
  <2> QED
    BY <2>1, <2>2
<1>4. ASSUME NEW x \in ToSet(t) PROVE x \in ToSet(s) \cup {m}
  <2>1. PICK k \in DOMAIN t : x = t[k]
    BY DEF ToSet
  <2> QED
    BY <1>1, <1>2, <2>1
<1>5. ASSUME NEW x \in ToSet(s) \cup {m} PROVE x \in ToSet(t)
  <2>1. CASE x = m
    BY <1>1, <2>1 DEF ToSet
  <2>2. CASE x \in ToSet(s)
    <3>1. PICK k \in 1 .. Len(s) : x = s[k]
      BY <1>1, <2>2 DEF ToSet
    <3>2. k + 1 \in DOMAIN t /\ t[k + 1] = x
      BY <1>1, <3>1
    <3> QED
      BY <3>2 DEF ToSet
  <2> QED
    BY <2>1, <2>2
<1> QED
  BY <1>1, <1>3, <1>4, <1>5 DEF t

\* A block of a region, and the distance to the next.
LEMMA Steps ==
  ASSUME NEW c \in Nat, c % 8 = 0
  PROVE  /\ \A n \in Nat : n * c \in Nat /\ (n * c) % 8 = 0
         /\ \A j, k \in Nat : j < k => (j * c) + c <= k * c
<1>1. PICK q \in Nat : c = 8 * q
  <2>1. c \div 8 \in Nat /\ c = 8 * (c \div 8)
    OBVIOUS
  <2> QED
    BY <2>1
<1>2. ASSUME NEW n \in Nat PROVE n * c \in Nat /\ (n * c) % 8 = 0
  <2>1. n * c = 8 * (n * q) /\ n * q \in Nat
    BY <1>1
  <2>2. \A x \in Nat : (8 * x) % 8 = 0 /\ 8 * x \in Nat
    OBVIOUS
  <2> QED
    BY <2>1, <2>2
<1>3. ASSUME NEW j \in Nat, NEW k \in Nat, j < k PROVE (j * c) + c <= k * c
  <2>1. PICK d \in Nat : k = (j + 1) + d
    <3>1. k - (j + 1) \in Nat /\ k = (j + 1) + (k - (j + 1))
      BY <1>3
    <3> QED
      BY <3>1
  <2>2. k * c = ((j * c) + c) + (d * c) /\ d * c \in Nat /\ j * c \in Nat
    BY <2>1, <1>2
  <2> QED
    BY <2>2
<1> QED
  BY <1>2, <1>3

\* The blocks cut from a region: they lie in the region, with a red zone before and
\* after each, at a distance, and the list has each of them once.
LEMMA RegionCut ==
  ASSUME NEW start \in Nat, start % 8 = 0, NEW sz \in Nat \ {0}, sz % 8 = 0, NEW i
  PROVE  LET s == Filled(i, sz).first IN
         LET end == start + RegionSize(sz) IN
         mapped = start =>
         /\ end \in Nat /\ end % 8 = 0 /\ start <= end
         /\ s \in Seq(Nat) /\ NoRepeat(s) /\ Len(s) = standardPreAllocSize /\ s # <<>>
         /\ \A m \in ToSet(s) : /\ m \in Nat /\ m % 8 = 0 /\ start + RZ <= m
                                /\ m + sz + RZ <= end
         /\ \A m, n \in ToSet(s) : m < n => m + sz + RZ <= n
<1> SUFFICES ASSUME mapped = start
             PROVE  LET s == Filled(i, sz).first IN
                    LET end == start + RegionSize(sz) IN
         /\ end \in Nat /\ end % 8 = 0 /\ start <= end
         /\ s \in Seq(Nat) /\ NoRepeat(s) /\ Len(s) = standardPreAllocSize /\ s # <<>>
         /\ \A m \in ToSet(s) : /\ m \in Nat /\ m % 8 = 0 /\ start + RZ <= m
                                /\ m + sz + RZ <= end
         /\ \A m, n \in ToSet(s) : m < n => m + sz + RZ <= n
  OBVIOUS
<1> DEFINE P == standardPreAllocSize
           c == sz + RZ
           s == Filled(i, sz).first
           end == start + RegionSize(sz)
<1>1. P \in Nat \ {0} /\ c \in Nat \ {0} /\ c % 8 = 0 /\ RZ \in Nat \ {0} /\ RZ % 8 = 0
  BY ListAssumption, ZoneAssumption
<1>2. /\ \A n \in Nat : n * c \in Nat /\ (n * c) % 8 = 0
      /\ \A j, k \in Nat : j < k => (j * c) + c <= k * c
  BY <1>1, Steps
<1>3. end = (start + RZ) + (P * c)
  BY <1>1 DEF RegionSize
<1>4. \A k \in 1 .. P : P - k \in Nat /\ P - k < P
  BY <1>1
<1>5. s = [k \in 1 .. P |-> (start + RZ) + ((P - k) * c)]
  <2>1. setFreeList(start, sz) = [n \in 1 .. P |-> (start + RZ) + ((n - 1) * c)]
    BY DEF setFreeList
  <2>2. /\ Len(setFreeList(start, sz)) = P /\ setFreeList(start, sz) \in Seq(Nat)
    <3>1. \A n \in 1 .. P : n - 1 \in Nat
      BY <1>1
    <3>2. \A n \in 1 .. P : (start + RZ) + ((n - 1) * c) \in Nat
      BY <1>1, <1>2, <3>1
    <3> QED
      BY <1>1, <2>1, <3>2
  <2>3. \A k \in 1 .. P : (P - k) + 1 \in 1 .. P /\ ((P - k) + 1) - 1 = P - k
    BY <1>1
  <2>4. s = [k \in 1 .. P |-> setFreeList(start, sz)[(P - k) + 1]]
    BY <2>2 DEF Filled, Reverse
  <2> HIDE DEF s
  <2>5. \A k \in 1 .. P : setFreeList(start, sz)[(P - k) + 1] = (start + RZ) + ((P - k) * c)
    BY <2>1, <2>3
  <2> QED
    BY <2>4, <2>5
<1> HIDE DEF P, c, s, end
<1>6. end \in Nat /\ end % 8 = 0 /\ start <= end
  BY <1>1, <1>2, <1>3
<1>7. s \in Seq(Nat) /\ Len(s) = P /\ s # <<>> /\ DOMAIN s = 1 .. P
  <2>1. \A k \in 1 .. P : (start + RZ) + ((P - k) * c) \in Nat
    BY <1>1, <1>2, <1>4
  <2> QED
    BY <1>1, <1>5, <2>1
<1>8. \A m \in ToSet(s) : \E k \in Nat : k < P /\ m = (start + RZ) + (k * c)
  BY <1>4, <1>5, <1>7 DEF ToSet
<1>9. ASSUME NEW m \in ToSet(s)
      PROVE  m \in Nat /\ m % 8 = 0 /\ start + RZ <= m /\ m + sz + RZ <= end
  <2>1. PICK k \in Nat : k < P /\ m = (start + RZ) + (k * c)
    BY <1>8
  <2>2. k * c \in Nat /\ (k * c) % 8 = 0 /\ (k * c) + c <= P * c /\ P * c \in Nat
    BY <1>1, <1>2, <2>1
  <2> QED
    BY <1>1, <1>3, <2>1, <2>2 DEF c
<1>10. ASSUME NEW m \in ToSet(s), NEW n \in ToSet(s), m < n PROVE m + sz + RZ <= n
  <2>1. PICK j \in Nat : m = (start + RZ) + (j * c)
    BY <1>8
  <2>2. PICK k \in Nat : n = (start + RZ) + (k * c)
    BY <1>8
  <2>3. j * c \in Nat /\ k * c \in Nat /\ (k < j => (k * c) + c <= j * c)
        /\ (j < k => (j * c) + c <= k * c)
    BY <1>2
  <2>4. j < k
    BY <1>1, <1>10, <2>1, <2>2, <2>3
  <2> QED
    BY <1>1, <2>1, <2>2, <2>3, <2>4 DEF c
<1>11. NoRepeat(s)
  <2> SUFFICES ASSUME NEW j \in 1 .. P, NEW k \in 1 .. P, s[j] = s[k] PROVE j = k
    BY <1>7 DEF NoRepeat
  <2> DEFINE x == P - j
             y == P - k
  <2>1. x \in Nat /\ y \in Nat /\ (x = y => j = k)
    BY <1>1, <1>4
  <2> DEFINE xc == x * c
             yc == y * c
  <2>2. s[j] = (start + RZ) + xc /\ s[k] = (start + RZ) + yc
    BY <1>5
  <2> HIDE DEF x, y
  <2>3. xc \in Nat /\ yc \in Nat /\ (x < y => xc + c <= yc) /\ (y < x => yc + c <= xc)
    BY <1>2, <2>1
  <2> HIDE DEF xc, yc
  <2>4. xc = yc
    <3>1. (start + RZ) + xc = (start + RZ) + yc
      BY <2>2
    <3>2. RZ \in Nat
      BY <1>1
    <3> QED
      BY <2>3, <3>1, <3>2
  <2> QED
    BY <1>1, <2>1, <2>3, <2>4
<1> QED
  BY <1>6, <1>7, <1>9, <1>10, <1>11 DEF s, end, P

\* The invariant ------------------------------------------------------------------------

\* The blocks that were cut: whole words, of the size of some list, in the memory mmap
\* gave, with at least a red zone between them and at both ends.
BlocksApart(sizes, end) ==
  /\ end \in Nat /\ end % 8 = 0 /\ end <= Arena
  /\ \A m \in DOMAIN sizes :
       /\ m \in Nat /\ m % 8 = 0 /\ RZ <= m /\ m + sizes[m] + RZ <= end
       /\ \E i \in Index : sizes[m] = BlockSize[i]
  /\ \A m, n \in DOMAIN sizes : m < n => m + sizes[m] + RZ <= n

\* A list holds blocks of its size, each once, and counts them.
ListsRight(sizes, lists) ==
  /\ lists \in [Index -> [first : Seq(Nat), counter : Nat, size : Nat]]
  /\ \A i \in Index :
       /\ lists[i].counter = Len(lists[i].first)
       /\ NoRepeat(lists[i].first)
       /\ \A m \in ToSet(lists[i].first) : m \in DOMAIN sizes /\ sizes[m] = BlockSize[i]

InList(lists, m) == \E i \in Index : m \in ToSet(lists[i].first)

\* A block is either in a list or held by the program, at most once, and large enough.
HeldRight(sizes, lists, held) ==
  /\ IsFiniteSet(held)
  /\ \A b \in held :
       /\ b.mem \in DOMAIN sizes /\ ~InList(lists, b.mem)
       /\ b.sz \in Nat \ {0} /\ b.sz <= sizes[b.mem]
  /\ \A b, c \in held : b.mem = c.mem => b = c
  /\ \A m \in DOMAIN sizes : InList(lists, m) \/ \E b \in held : b.mem = m

OutOfBounds(v) == v = POISONED \/ v = FREED

\* The words of a block and those of the two zones around it.
BlockWord(sizes, m, w) == m \div 8 <= w /\ w < (m + sizes[m]) \div 8
ZoneWord(sizes, m, w) ==
  \/ (m - RZ) \div 8 <= w /\ w < m \div 8
  \/ (m + sizes[m]) \div 8 <= w /\ w < (m + sizes[m] + RZ) \div 8

\* The shadow memory lets the program use the blocks it holds and nothing around them,
Guarded(sizes, sh, held) ==
  \A b \in held : \A w \in Words :
    /\ BlockWord(sizes, b.mem, w) => sh[w] = 0
    /\ ZoneWord(sizes, b.mem, w) => OutOfBounds(sh[w])

\* nor those it gave back, which are in the lists.
FreedShut(sizes, lists, sh, back) ==
  \A m \in back :
    /\ InList(lists, m)
    /\ \A w \in Words : BlockWord(sizes, m, w) => OutOfBounds(sh[w])

FInv ==
  /\ build \in Builds
  /\ BlocksApart(sizeOf, mapped)
  /\ ListsRight(sizeOf, memoryArray)
  /\ HeldRight(sizeOf, memoryArray, live)
  /\ Guarded(sizeOf, shadow, live)
  /\ FreedShut(sizeOf, memoryArray, shadow, returned)

\* Nothing was cut and nothing is held at first.
LEMMA InitHolds == Init => FInv
<1> SUFFICES ASSUME Init PROVE FInv
  OBVIOUS
<1>1. DOMAIN sizeOf = {}
  BY DEF Init
<1>2. BlocksApart(sizeOf, mapped)
  BY <1>1, ArenaAssumption DEF Init, BlocksApart
<1>3. ListsRight(sizeOf, memoryArray)
  <2>1. EmptyList \in [first : Seq(Nat), counter : Nat, size : Nat]
    BY DEF EmptyList
  <2>2. /\ EmptyList.first = <<>> /\ EmptyList.counter = 0 /\ Len(<<>>) = 0
        /\ DOMAIN <<>> = {}
    BY DEF EmptyList
  <2>3. NoRepeat(<<>>) /\ ToSet(<<>>) = {}
    BY <2>2 DEF NoRepeat, ToSet
  <2> QED
    BY <2>1, <2>2, <2>3 DEF Init, ListsRight
<1> QED
  BY <1>1, <1>2, <1>3, FS_EmptySet DEF Init, FInv, HeldRight, Guarded, FreedShut

\* A list with another first block and another count.
LEMMA RecordSet ==
  ASSUME NEW l \in [first : Seq(Nat), counter : Nat, size : Nat], NEW x \in Seq(Nat), NEW n \in Nat
  PROVE  LET r == [l EXCEPT !.first = x, !.counter = n] IN
         /\ r \in [first : Seq(Nat), counter : Nat, size : Nat]
         /\ r.first = x /\ r.counter = n
OBVIOUS

\* The first block of a list goes from the list to the program.
LEMMA PopKeeps ==
  ASSUME NEW sizes, NEW lists, NEW held, ListsRight(sizes, lists), HeldRight(sizes, lists, held),
         NEW i \in Index, lists[i].first # <<>>, NEW sz \in Nat \ {0}, sz <= BlockSize[i]
  PROVE  LET mem == Head(lists[i].first) IN
         LET after == [lists EXCEPT ![i] = Popped(lists[i])] IN
         /\ mem \in DOMAIN sizes /\ sizes[mem] = BlockSize[i]
         /\ \A b \in held : b.mem # mem
         /\ \A m : InList(after, m) <=> InList(lists, m) /\ m # mem
         /\ ListsRight(sizes, after)
         /\ HeldRight(sizes, after, held \cup {[mem |-> mem, sz |-> sz]})
<1> DEFINE l == lists[i]
           mem == Head(l.first)
           after == [lists EXCEPT ![i] = Popped(l)]
           new == [mem |-> mem, sz |-> sz]
<1>1. /\ l \in [first : Seq(Nat), counter : Nat, size : Nat]
      /\ l.first \in Seq(Nat) /\ l.counter = Len(l.first) /\ NoRepeat(l.first)
      /\ Index \subseteq Nat
  BY ListAssumption DEF ListsRight, Index
<1>2. /\ Tail(l.first) \in Seq(Nat) /\ Len(Tail(l.first)) = Len(l.first) - 1
      /\ NoRepeat(Tail(l.first)) /\ mem \in Nat /\ mem \in ToSet(l.first)
      /\ ToSet(Tail(l.first)) = ToSet(l.first) \ {mem}
  BY <1>1, TailOfList
<1>3. /\ Popped(l) \in [first : Seq(Nat), counter : Nat, size : Nat]
      /\ Popped(l).first = Tail(l.first) /\ Popped(l).counter = Len(Tail(l.first))
  <2>1. l.counter - 1 \in Nat /\ l.counter - 1 = Len(Tail(l.first))
    BY <1>1, <1>2
  <2> HIDE DEF l
  <2> QED
    BY <1>1, <1>2, <2>1, RecordSet DEF Popped
<1>4. mem \in DOMAIN sizes /\ sizes[mem] = BlockSize[i]
  BY <1>2 DEF ListsRight
<1>5. InList(lists, mem) /\ \A b \in held : b.mem # mem
  BY <1>2 DEF InList, HeldRight
<1>6. \A j \in Index : ToSet(after[j].first) = ToSet(lists[j].first) \ {mem}
  <2> SUFFICES ASSUME NEW j \in Index PROVE ToSet(after[j].first) = ToSet(lists[j].first) \ {mem}
    OBVIOUS
  <2>1. CASE j = i
    BY <1>2, <1>3, <2>1 DEF ListsRight
  <2>2. CASE j # i
    <3>1. after[j] = lists[j]
      BY <2>2 DEF ListsRight
    <3>2. mem \notin ToSet(lists[j].first)
      BY <1>1, <1>4, <2>2, Sizes DEF ListsRight
    <3> QED
      BY <3>1, <3>2
  <2> QED
    BY <2>1, <2>2
<1>7. after \in [Index -> [first : Seq(Nat), counter : Nat, size : Nat]]
  BY <1>3 DEF ListsRight
<1>8. \A j \in Index : after[j].counter = Len(after[j].first) /\ NoRepeat(after[j].first)
  BY <1>2, <1>3 DEF ListsRight
<1> HIDE DEF l, mem, after, new
<1>9. \A m : InList(after, m) <=> InList(lists, m) /\ m # mem
  BY <1>6 DEF InList
<1>10. ListsRight(sizes, after)
  BY <1>6, <1>7, <1>8 DEF ListsRight
<1>11. HeldRight(sizes, after, held \cup {new})
  <2>1. IsFiniteSet(held \cup {new})
    BY FS_AddElement DEF HeldRight
  <2>2. new.mem = mem /\ new.sz = sz
    BY DEF new
  <2>3. \A b \in held \cup {new} :
          /\ b.mem \in DOMAIN sizes /\ ~InList(after, b.mem)
          /\ b.sz \in Nat \ {0} /\ b.sz <= sizes[b.mem]
    BY <1>4, <1>9, <2>2 DEF HeldRight
  <2>4. \A b, c \in held \cup {new} : b.mem = c.mem => b = c
    BY <1>5, <2>2 DEF HeldRight
  <2>5. \A m \in DOMAIN sizes : InList(after, m) \/ \E b \in held \cup {new} : b.mem = m
    BY <1>9, <2>2 DEF HeldRight
  <2> QED
    BY <2>1, <2>3, <2>4, <2>5 DEF HeldRight
<1> QED
  BY <1>4, <1>5, <1>9, <1>10, <1>11 DEF l, mem, after, new

\* A block goes from the program to the list of its size.
LEMMA PushKeeps ==
  ASSUME NEW sizes, NEW lists, NEW held, ListsRight(sizes, lists), HeldRight(sizes, lists, held),
         NEW b \in held, NEW i \in Index, sizes[b.mem] = BlockSize[i], b.mem \in Nat
  PROVE  LET after == [lists EXCEPT ![i] = Pushed(lists[i], b.mem)] IN
         /\ \A m : InList(after, m) <=> InList(lists, m) \/ m = b.mem
         /\ ListsRight(sizes, after)
         /\ HeldRight(sizes, after, held \ {b})
<1> DEFINE l == lists[i]
           mem == b.mem
           after == [lists EXCEPT ![i] = Pushed(l, mem)]
<1>1. /\ l \in [first : Seq(Nat), counter : Nat, size : Nat]
      /\ l.first \in Seq(Nat) /\ l.counter = Len(l.first) /\ NoRepeat(l.first)
  BY DEF ListsRight
<1>2. mem \in DOMAIN sizes /\ ~InList(lists, mem) /\ mem \notin ToSet(l.first) /\ mem \in Nat
  BY DEF HeldRight, InList
<1>3. /\ <<mem>> \o l.first \in Seq(Nat) /\ Len(<<mem>> \o l.first) = Len(l.first) + 1
      /\ NoRepeat(<<mem>> \o l.first)
      /\ ToSet(<<mem>> \o l.first) = ToSet(l.first) \cup {mem}
  BY <1>1, <1>2, FrontOfList
<1>4. /\ Pushed(l, mem) \in [first : Seq(Nat), counter : Nat, size : Nat]
      /\ Pushed(l, mem).first = <<mem>> \o l.first
      /\ Pushed(l, mem).counter = Len(<<mem>> \o l.first)
  <2>1. l.counter + 1 \in Nat /\ l.counter + 1 = Len(<<mem>> \o l.first)
    BY <1>1, <1>3
  <2> HIDE DEF l, mem
  <2> QED
    BY <1>1, <1>3, <2>1, RecordSet DEF Pushed
<1>5. after \in [Index -> [first : Seq(Nat), counter : Nat, size : Nat]]
  BY <1>4 DEF ListsRight
<1>6. \A j \in Index : /\ after[j].counter = Len(after[j].first) /\ NoRepeat(after[j].first)
                       /\ ToSet(after[j].first) = IF j = i THEN ToSet(lists[j].first) \cup {mem}
                                                  ELSE ToSet(lists[j].first)
  BY <1>3, <1>4 DEF ListsRight
<1> HIDE DEF l, after
<1>7. \A m : InList(after, m) <=> InList(lists, m) \/ m = mem
  BY <1>6 DEF InList
<1>8. ListsRight(sizes, after)
  <2>1. ASSUME NEW j \in Index, NEW m \in ToSet(after[j].first)
        PROVE  m \in DOMAIN sizes /\ sizes[m] = BlockSize[j]
    <3>1. m \in ToSet(lists[j].first) \/ (j = i /\ m = mem)
      BY <1>6, <2>1
    <3> QED
      BY <1>2, <3>1 DEF ListsRight
  <2> QED
    BY <1>5, <1>6, <2>1 DEF ListsRight
<1>9. HeldRight(sizes, after, held \ {b})
  <2>1. IsFiniteSet(held \ {b})
    BY FS_RemoveElement DEF HeldRight
  <2>2. \A c \in held \ {b} : c.mem # mem
    BY DEF HeldRight
  <2>3. \A m \in DOMAIN sizes : InList(after, m) \/ \E c \in held \ {b} : c.mem = m
    BY <1>7, <2>2 DEF HeldRight
  <2> QED
    BY <1>7, <2>1, <2>2, <2>3 DEF HeldRight
<1> QED
  BY <1>7, <1>8, <1>9 DEF l, after

\* Shadow words -------------------------------------------------------------------------

\* The words of a block are neither words of another block nor of the zones around it.
LEMMA WordsApart ==
  ASSUME NEW sizes, NEW end, BlocksApart(sizes, end),
         NEW m \in DOMAIN sizes, NEW n \in DOMAIN sizes, m # n, NEW w \in Words
  PROVE  BlockWord(sizes, m, w) => ~BlockWord(sizes, n, w) /\ ~ZoneWord(sizes, n, w)
<1> DEFINE p == sizes[m]
           q == sizes[n]
<1>1. /\ m \in Nat /\ m % 8 = 0 /\ n \in Nat /\ n % 8 = 0
      /\ p \in Nat /\ p % 8 = 0 /\ q \in Nat /\ q % 8 = 0
      /\ RZ <= m /\ RZ <= n /\ (m + p + RZ <= n \/ n + q + RZ <= m)
  <2>1. Index \subseteq Nat
    BY ListAssumption DEF Index
  <2> QED
    BY <2>1, Sizes DEF BlocksApart
<1> HIDE DEF p, q
<1>2. w \in Nat /\ RZ \in Nat /\ RZ % 8 = 0
  BY ZoneAssumption DEF Words
<1>3. /\ BlockWord(sizes, m, w) <=> m \div 8 <= w /\ w < (m + p) \div 8
      /\ BlockWord(sizes, n, w) <=> n \div 8 <= w /\ w < (n + q) \div 8
      /\ ZoneWord(sizes, n, w) <=> ((n - RZ) \div 8 <= w /\ w < n \div 8) \/
                                    ((n + q) \div 8 <= w /\ w < (n + q + RZ) \div 8)
  BY Zenon DEF BlockWord, ZoneWord, p, q
<1>4. \A a \in Nat : a % 8 = 0 => (a \div 8 <= w <=> a <= 8 * w) /\ (w < a \div 8 <=> 8 * w < a)
  BY <1>2
<1>5. /\ m + p \in Nat /\ (m + p) % 8 = 0 /\ n + q \in Nat /\ (n + q) % 8 = 0
      /\ n - RZ \in Nat /\ (n - RZ) % 8 = 0
      /\ n + q + RZ \in Nat /\ (n + q + RZ) % 8 = 0
  <2>1. \A a, b \in Nat : a % 8 = 0 /\ b % 8 = 0 => a + b \in Nat /\ (a + b) % 8 = 0
    OBVIOUS
  <2>2. n + q \in Nat /\ (n + q) % 8 = 0 /\ m + p \in Nat /\ (m + p) % 8 = 0
    BY <1>1, <2>1
  <2>3. n - RZ \in Nat /\ (n - RZ) % 8 = 0
    BY <1>1, <1>2
  <2>4. (n + q) + RZ \in Nat /\ ((n + q) + RZ) % 8 = 0
    BY <1>2, <2>1, <2>2
  <2> QED
    BY <2>2, <2>3, <2>4
<1>6. /\ BlockWord(sizes, m, w) <=> m <= 8 * w /\ 8 * w < m + p
      /\ BlockWord(sizes, n, w) <=> n <= 8 * w /\ 8 * w < n + q
      /\ ZoneWord(sizes, n, w) <=> (n - RZ <= 8 * w /\ 8 * w < n) \/
                                   (n + q <= 8 * w /\ 8 * w < n + q + RZ)
  BY <1>1, <1>3, <1>4, <1>5
<1> QED
  BY <1>1, <1>2, <1>6

\* What the proofs need of a block: it lies in memory with its zones, in whole words.
LEMMA InMemory ==
  ASSUME NEW sizes, NEW end, BlocksApart(sizes, end), NEW m \in DOMAIN sizes
  PROVE  /\ m \in Nat /\ m % 8 = 0 /\ sizes[m] \in Nat \ {0} /\ sizes[m] % 8 = 0
         /\ RZ <= m /\ m + sizes[m] + RZ <= Arena
<1>1. Index \subseteq Nat
  BY ListAssumption DEF Index
<1>2. m \in Nat /\ m % 8 = 0 /\ sizes[m] \in Nat \ {0} /\ sizes[m] % 8 = 0 /\ RZ <= m
      /\ m + sizes[m] + RZ <= end /\ end \in Nat /\ end <= Arena
  BY <1>1, Sizes DEF BlocksApart
<1> QED
  BY <1>2, ZoneAssumption, ArenaAssumption

\* registerAddr opens the block and poisons both zones.
LEMMA RegisterWords ==
  ASSUME NEW sizes, NEW end, BlocksApart(sizes, end), NEW m \in DOMAIN sizes, NEW sh, NEW b
  PROVE  LET s == registerAddr(sh, b, m - RZ, m + sizes[m]) IN
         \A w \in Words :
           /\ BlockWord(sizes, m, w) => s[w] = 0
           /\ ZoneWord(sizes, m, w) => s[w] = POISONED
           /\ ~BlockWord(sizes, m, w) /\ ~ZoneWord(sizes, m, w) => s[w] = sh[w]
<1> DEFINE l == (m - RZ) \div 8
           o == m \div 8
           r == (m + sizes[m]) \div 8
           e == (m + sizes[m] + RZ) \div 8
           s == registerAddr(sh, b, m - RZ, m + sizes[m])
<1>1. /\ m \in Nat /\ m % 8 = 0 /\ sizes[m] \in Nat \ {0} /\ sizes[m] % 8 = 0
      /\ RZ <= m /\ m + sizes[m] + RZ <= Arena /\ RZ \in Nat \ {0} /\ RZ % 8 = 0
  BY InMemory, ZoneAssumption
<1>2. /\ {l, o, r, e} \subseteq Nat /\ l < o /\ o < r /\ r < e
      /\ RZ \div 8 = o - l /\ RZ \div 8 = e - r /\ sizes[m] \div 8 = r - o
      /\ (m + sizes[m]) - (m - RZ) - RZ = sizes[m] /\ m - RZ + RZ = m
  BY <1>1
<1>3. \A w \in Words : /\ BlockWord(sizes, m, w) <=> o <= w /\ w < r
                       /\ ZoneWord(sizes, m, w) <=> (l <= w /\ w < o) \/ (r <= w /\ w < e)
  BY Zenon DEF BlockWord, ZoneWord
<1>4. s = memset(memset(memset(sh, l, POISONED, o - l), r, POISONED, e - r), o, 0, r - o)
  BY <1>1, <1>2, Zenon DEF registerAddr, getShadowMemoryAddress
<1> HIDE DEF l, o, r, e
<1>5. \A w \in Words : s[w] = IF o <= w /\ w < r THEN 0
                              ELSE IF (l <= w /\ w < o) \/ (r <= w /\ w < e) THEN POISONED ELSE sh[w]
  <2>1. Words \subseteq Nat
    BY DEF Words
  <2> QED
    BY <1>2, <1>4, <2>1 DEF memset
<1> QED
  BY <1>2, <1>3, <1>5 DEF Words

\* removeAddr shuts the block and both zones.
LEMMA RemoveWords ==
  ASSUME NEW sizes, NEW end, BlocksApart(sizes, end), NEW m \in DOMAIN sizes, NEW sh
  PROVE  LET s == removeAddr(sh, m - RZ, sizes[m] + 2 * RZ) IN
         \A w \in Words :
           s[w] = IF BlockWord(sizes, m, w) \/ ZoneWord(sizes, m, w) THEN FREED ELSE sh[w]
<1> DEFINE l == (m - RZ) \div 8
           o == m \div 8
           r == (m + sizes[m]) \div 8
           e == (m + sizes[m] + RZ) \div 8
<1>1. /\ m \in Nat /\ m % 8 = 0 /\ sizes[m] \in Nat \ {0} /\ sizes[m] % 8 = 0
      /\ RZ <= m /\ m + sizes[m] + RZ <= Arena /\ RZ \in Nat \ {0} /\ RZ % 8 = 0
  BY InMemory, ZoneAssumption
<1> DEFINE n == 2 * (RZ \div 8) + ((sizes[m] + 2 * RZ) - 2 * RZ + 7) \div 8
<1>2. {l, o, r, e} \subseteq Nat /\ l < o /\ o < r /\ r < e /\ n = e - l
  <2>1. {l, o, r, e} \subseteq Nat /\ l < o /\ o < r /\ r < e
    BY <1>1
  <2>2. RZ \div 8 = o - l /\ RZ \div 8 = e - r /\ sizes[m] \div 8 = r - o
    BY <1>1
  <2>3. (sizes[m] + 2 * RZ) - 2 * RZ + 7 = sizes[m] + 7 /\ (sizes[m] + 7) \div 8 = sizes[m] \div 8
    BY <1>1
  <2> HIDE DEF l, o, r, e
  <2> QED
    BY <2>1, <2>2, <2>3
<1>3. \A w \in Words : /\ BlockWord(sizes, m, w) <=> o <= w /\ w < r
                       /\ ZoneWord(sizes, m, w) <=> (l <= w /\ w < o) \/ (r <= w /\ w < e)
  BY Zenon DEF BlockWord, ZoneWord
<1>4. removeAddr(sh, m - RZ, sizes[m] + 2 * RZ) = memset(sh, l, FREED, n)
  BY DEF removeAddr, getShadowMemoryAddress
<1> HIDE DEF l, o, r, e, n
<1>5. \A w \in Words : (w \in l .. (l + n - 1)) <=> (BlockWord(sizes, m, w) \/ ZoneWord(sizes, m, w))
  BY <1>2, <1>3 DEF Words
<1> QED
  BY <1>4, <1>5, Zenon DEF memset

\* Steps --------------------------------------------------------------------------------

\* The first block of a list is given to the program: the other blocks stay as they are,
\* although this one's zones are theirs, too.
LEMMA HandOutKeeps ==
  ASSUME NEW sizes, NEW end, NEW lists,
         BlocksApart(sizes, end), ListsRight(sizes, lists), HeldRight(sizes, lists, live),
         Guarded(sizes, shadow, live), FreedShut(sizes, lists, shadow, returned),
         NEW i \in Index, lists[i].first # <<>>, NEW sz \in Nat \ {0}, sz <= BlockSize[i],
         HandOut(i, lists[i], sz),
         \A l : [memoryArray EXCEPT ![i] = l] = [lists EXCEPT ![i] = l]
  PROVE  /\ ListsRight(sizes, memoryArray')
         /\ HeldRight(sizes, memoryArray', live')
         /\ Guarded(sizes, shadow', live')
         /\ FreedShut(sizes, memoryArray', shadow', returned')
<1> DEFINE mem == Head(lists[i].first)
           new == [mem |-> mem, sz |-> sz]
<1>1. /\ memoryArray' = [lists EXCEPT ![i] = Popped(lists[i])]
      /\ shadow' = registerAddr(shadow, build, mem - RZ, mem + BlockSize[i])
      /\ live' = live \cup {new} /\ returned' = returned \ {mem}
  BY DEF HandOut
<1>2. /\ mem \in DOMAIN sizes /\ sizes[mem] = BlockSize[i]
      /\ \A b \in live : b.mem # mem
      /\ \A m : InList(memoryArray', m) <=> InList(lists, m) /\ m # mem
      /\ ListsRight(sizes, memoryArray')
      /\ HeldRight(sizes, memoryArray', live')
  <2> DEFINE after == [lists EXCEPT ![i] = Popped(lists[i])]
  <2>1. /\ mem \in DOMAIN sizes /\ sizes[mem] = BlockSize[i]
        /\ \A b \in live : b.mem # mem
        /\ \A m : InList(after, m) <=> InList(lists, m) /\ m # mem
        /\ ListsRight(sizes, after)
        /\ HeldRight(sizes, after, live \cup {new})
    BY PopKeeps, Zenon
  <2> HIDE DEF mem, new, after
  <2>2. memoryArray' = after /\ live' = live \cup {new}
    BY <1>1 DEF after
  <2> QED
    BY <2>1, <2>2
<1>3. new.mem = mem
  OBVIOUS
<1> HIDE DEF mem, new
<1>4. \A w \in Words :
        /\ BlockWord(sizes, mem, w) => shadow'[w] = 0
        /\ ZoneWord(sizes, mem, w) => shadow'[w] = POISONED
        /\ ~BlockWord(sizes, mem, w) /\ ~ZoneWord(sizes, mem, w) => shadow'[w] = shadow[w]
  BY <1>1, <1>2, RegisterWords
<1>5. Guarded(sizes, shadow', live')
  <2> SUFFICES ASSUME NEW b \in live', NEW w \in Words
               PROVE  /\ BlockWord(sizes, b.mem, w) => shadow'[w] = 0
                      /\ ZoneWord(sizes, b.mem, w) => OutOfBounds(shadow'[w])
    BY DEF Guarded
  <2>1. CASE b = new
    BY <1>3, <1>4, <2>1 DEF OutOfBounds
  <2>2. CASE b \in live
    <3>1. b.mem \in DOMAIN sizes /\ b.mem # mem
      BY <1>2, <2>2 DEF HeldRight
    <3>2. /\ BlockWord(sizes, b.mem, w) => ~BlockWord(sizes, mem, w) /\ ~ZoneWord(sizes, mem, w)
          /\ BlockWord(sizes, mem, w) => ~ZoneWord(sizes, b.mem, w)
      BY <1>2, <3>1, WordsApart
    <3>3. /\ BlockWord(sizes, b.mem, w) => shadow[w] = 0
          /\ ZoneWord(sizes, b.mem, w) => OutOfBounds(shadow[w])
      BY <2>2 DEF Guarded
    <3> QED
      BY <1>4, <3>2, <3>3 DEF OutOfBounds
  <2> QED
    BY <1>1, <2>1, <2>2
<1>6. FreedShut(sizes, memoryArray', shadow', returned')
  <2> SUFFICES ASSUME NEW m \in returned, m # mem
               PROVE  /\ InList(memoryArray', m)
                      /\ \A w \in Words : BlockWord(sizes, m, w) => OutOfBounds(shadow'[w])
    BY <1>1 DEF FreedShut
  <2>1. InList(lists, m) /\ \A w \in Words : BlockWord(sizes, m, w) => OutOfBounds(shadow[w])
    BY DEF FreedShut
  <2>2. m \in DOMAIN sizes
    BY <2>1 DEF InList, ListsRight
  <2>3. \A w \in Words : BlockWord(sizes, m, w) => ~BlockWord(sizes, mem, w) /\ ~ZoneWord(sizes, mem, w)
    BY <1>2, <2>2, WordsApart
  <2> QED
    BY <1>2, <1>4, <2>1, <2>3
<1> QED
  BY <1>2, <1>5, <1>6

\* A request is served from the list of its padded size.
LEMMA FromListKeeps ==
  ASSUME FInv, NEW sz \in Request, MallocFromList(sz)
  PROVE  FInv'
<1>1. PICK i \in Index : Padded(sz) = BlockSize[i] /\ sz <= BlockSize[i]
  BY PaddedFits
<1>2. getFreeListArrayIndex(Padded(sz)) = i
  BY <1>1, IndexOfSize
<1>3. /\ memoryArray[i].first # <<>> /\ HandOut(i, memoryArray[i], sz)
      /\ build' = build /\ sizeOf' = sizeOf /\ mapped' = mapped
  BY <1>2, Zenon DEF MallocFromList
<1>4. sz \in Nat \ {0}
  BY RequestAssumption
<1>5. /\ ListsRight(sizeOf, memoryArray') /\ HeldRight(sizeOf, memoryArray', live')
      /\ Guarded(sizeOf, shadow', live') /\ FreedShut(sizeOf, memoryArray', shadow', returned')
  BY <1>1, <1>3, <1>4, HandOutKeeps DEF FInv
<1> QED
  BY <1>3, <1>5 DEF FInv

\* The blocks of a new region lie behind those that were cut before; the list has them all.
LEMMA RegionKeeps ==
  ASSUME FInv, NEW i \in Index, memoryArray[i].first = <<>>,
         mapped + RegionSize(BlockSize[i]) <= Arena,
         NEW sizes,
         sizes = [a \in Block \cup ToSet(Filled(i, BlockSize[i]).first) |->
                    IF a \in Block THEN sizeOf[a] ELSE BlockSize[i]]
  PROVE  LET lists == [memoryArray EXCEPT ![i] = Filled(i, BlockSize[i])] IN
         /\ BlocksApart(sizes, mapped + RegionSize(BlockSize[i]))
         /\ ListsRight(sizes, lists)
         /\ HeldRight(sizes, lists, live)
         /\ Guarded(sizes, shadow, live)
         /\ FreedShut(sizes, lists, shadow, returned)
         /\ lists[i].first # <<>>
<1> DEFINE p == BlockSize[i]
           s == Filled(i, p).first
           end == mapped + RegionSize(p)
           lists == [memoryArray EXCEPT ![i] = Filled(i, p)]
<1> USE DEF FInv, Block
<1>1. p \in Nat \ {0} /\ p % 8 = 0 /\ Index \subseteq Nat
  BY Sizes, ListAssumption DEF Index
<1>2. mapped \in Nat /\ mapped % 8 = 0 /\ RZ \in Nat \ {0}
  BY ZoneAssumption DEF BlocksApart
<1> HIDE DEF p
<1>3. /\ end \in Nat /\ end % 8 = 0 /\ mapped <= end
      /\ s \in Seq(Nat) /\ NoRepeat(s) /\ Len(s) = standardPreAllocSize /\ s # <<>>
      /\ \A m \in ToSet(s) : m \in Nat /\ m % 8 = 0 /\ mapped + RZ <= m /\ m + p + RZ <= end
      /\ \A m, n \in ToSet(s) : m < n => m + p + RZ <= n
  BY <1>1, <1>2, RegionCut
<1>4. /\ Filled(i, p).counter = Len(s) /\ Len(s) \in Nat
      /\ Filled(i, p) \in [first : Seq(Nat), counter : Nat, size : Nat]
  BY <1>1, <1>3, ListAssumption DEF Filled
<1>5. /\ lists \in [Index -> [first : Seq(Nat), counter : Nat, size : Nat]]
      /\ lists[i] = Filled(i, p) /\ \A j \in Index : j # i => lists[j] = memoryArray[j]
  BY <1>4 DEF ListsRight
<1> HIDE DEF s, end, lists
<1>6. DOMAIN sizes = Block \cup ToSet(s)
  BY DEF s, p
<1>7. \A m \in Block : sizes[m] = sizeOf[m] /\ m \in Nat /\ m + sizeOf[m] + RZ <= mapped
  BY DEF BlocksApart
<1>8. \A m \in Block : sizeOf[m] \in Nat
  BY <1>1, Sizes DEF BlocksApart
<1>9. \A m \in ToSet(s) : m \notin Block /\ sizes[m] = p
  <2> SUFFICES ASSUME NEW m \in ToSet(s) PROVE m \notin Block
    BY DEF s, p
  <2>1. m \in Nat /\ mapped + RZ <= m
    BY <1>3
  <2> QED
    BY <1>2, <1>7, <1>8, <2>1
<1>10. BlocksApart(sizes, end)
  <2>1. ASSUME NEW m \in DOMAIN sizes
        PROVE  /\ m \in Nat /\ m % 8 = 0 /\ RZ <= m /\ m + sizes[m] + RZ <= end
               /\ \E j \in Index : sizes[m] = BlockSize[j]
    <3>1. CASE m \in Block
      <4>1. /\ m \in Nat /\ m % 8 = 0 /\ RZ <= m /\ m + sizeOf[m] + RZ <= mapped
            /\ sizes[m] = sizeOf[m] /\ \E j \in Index : sizeOf[m] = BlockSize[j]
        BY <1>7, <3>1 DEF BlocksApart
      <4>2. \A x \in Nat : m + x + RZ <= mapped => m + x + RZ <= end
        <5>1. m \in Nat /\ mapped \in Nat /\ RZ \in Nat /\ end \in Nat /\ mapped <= end
          BY <1>2, <1>3, <4>1
        <5> QED
          BY <5>1
      <4>3. m + sizes[m] + RZ <= end
        BY <1>8, <3>1, <4>1, <4>2
      <4> QED
        BY <4>1, <4>3
    <3>2. CASE m \in ToSet(s)
      <4>1. /\ m \in Nat /\ m % 8 = 0 /\ mapped + RZ <= m /\ m + p + RZ <= end
            /\ sizes[m] = p
        BY <1>3, <1>9, <3>2
      <4>2. RZ <= m
        BY <1>2, <4>1
      <4>3. m + sizes[m] + RZ <= end /\ \E j \in Index : sizes[m] = BlockSize[j]
        BY <4>1 DEF p
      <4> QED
        BY <4>1, <4>2, <4>3
    <3> QED
      BY <1>6, <3>1, <3>2
  <2>2. ASSUME NEW m \in DOMAIN sizes, NEW n \in DOMAIN sizes, m < n
        PROVE  m + sizes[m] + RZ <= n
    <3>1. CASE m \in Block /\ n \in Block
      BY <1>7, <2>2, <3>1 DEF BlocksApart
    <3>2. CASE m \in Block /\ n \in ToSet(s)
      <4>1. /\ m \in Nat /\ sizes[m] \in Nat /\ m + sizes[m] + RZ <= mapped
            /\ n \in Nat /\ mapped + RZ <= n
        BY <1>3, <1>7, <1>8, <3>2
      <4> QED
        BY <1>2, <4>1
    <3>3. CASE m \in ToSet(s) /\ n \in Block
      <4>1. n \in Nat /\ sizeOf[n] \in Nat /\ n + sizeOf[n] + RZ <= mapped
        BY <1>7, <1>8, <3>3
      <4>2. m \in Nat /\ mapped + RZ <= m
        BY <1>3, <3>3
      <4> QED
        BY <1>2, <2>2, <4>1, <4>2
    <3>4. CASE m \in ToSet(s) /\ n \in ToSet(s)
      BY <1>3, <1>9, <2>2, <3>4
    <3> QED
      BY <1>6, <3>1, <3>2, <3>3, <3>4
  <2>3. end <= Arena
    BY DEF end, p
  <2> QED
    BY <1>3, <2>1, <2>2, <2>3 DEF BlocksApart
<1>11. ListsRight(sizes, lists)
  <2> SUFFICES ASSUME NEW j \in Index
               PROVE  /\ lists[j].counter = Len(lists[j].first) /\ NoRepeat(lists[j].first)
                      /\ \A m \in ToSet(lists[j].first) :
                           m \in DOMAIN sizes /\ sizes[m] = BlockSize[j]
    BY <1>5 DEF ListsRight
  <2>1. CASE j = i
    <3>1. lists[j].first = s /\ lists[j].counter = Len(s)
      BY <1>4, <1>5, <2>1 DEF s
    <3> QED
      BY <1>3, <1>6, <1>9, <2>1, <3>1 DEF p
  <2>2. CASE j # i
    BY <1>5, <1>6, <1>7, <2>2 DEF ListsRight
  <2> QED
    BY <2>1, <2>2
<1>12. \A m : InList(lists, m) <=> InList(memoryArray, m) \/ m \in ToSet(s)
  <2>1. lists[i].first = s /\ ToSet(memoryArray[i].first) = {}
    BY <1>5 DEF s, ToSet
  <2> QED
    BY <1>5, <2>1 DEF InList
<1>13. HeldRight(sizes, lists, live)
  BY <1>6, <1>7, <1>9, <1>12 DEF HeldRight
<1>14. Guarded(sizes, shadow, live)
  <2>1. \A b \in live : sizes[b.mem] = sizeOf[b.mem]
    BY <1>7 DEF HeldRight
  <2> QED
    BY <2>1 DEF Guarded, BlockWord, ZoneWord
<1>15. FreedShut(sizes, lists, shadow, returned)
  <2>1. \A m \in returned : sizes[m] = sizeOf[m]
    BY <1>7 DEF FreedShut, InList, ListsRight
  <2> QED
    BY <1>12, <2>1 DEF FreedShut, BlockWord
<1>16. lists[i].first # <<>>
  BY <1>3, <1>5 DEF s
<1> QED
  BY <1>10, <1>11, <1>13, <1>14, <1>15, <1>16 DEF end, lists, p

\* ... or, when that is empty, from a new region.
LEMMA FromRegionKeeps ==
  ASSUME FInv, NEW sz \in Request, MallocFromRegion(sz)
  PROVE  FInv'
<1>1. PICK i \in Index : Padded(sz) = BlockSize[i] /\ sz <= BlockSize[i]
  BY PaddedFits
<1>2. getFreeListArrayIndex(Padded(sz)) = i
  BY <1>1, IndexOfSize
<1> DEFINE p == BlockSize[i]
           lists == [memoryArray EXCEPT ![i] = Filled(i, p)]
<1>3. /\ memoryArray[i].first = <<>> /\ mapped + RegionSize(p) <= Arena
      /\ mapped' = mapped + RegionSize(p) /\ build' = build
      /\ sizeOf' = [a \in Block \cup ToSet(Filled(i, p).first) |->
                      IF a \in Block THEN sizeOf[a] ELSE p]
      /\ HandOut(i, Filled(i, p), sz)
  BY <1>1, <1>2, Zenon DEF MallocFromRegion, Block
<1>4. /\ BlocksApart(sizeOf', mapped') /\ ListsRight(sizeOf', lists)
      /\ HeldRight(sizeOf', lists, live) /\ Guarded(sizeOf', shadow, live)
      /\ FreedShut(sizeOf', lists, shadow, returned) /\ lists[i].first # <<>>
  BY <1>3, RegionKeeps
<1>5. /\ memoryArray \in [Index -> [first : Seq(Nat), counter : Nat, size : Nat]]
      /\ lists[i] = Filled(i, p)
      /\ \A l : [memoryArray EXCEPT ![i] = l] = [lists EXCEPT ![i] = l]
  BY DEF FInv, ListsRight
<1>6. sz \in Nat \ {0}
  BY RequestAssumption
<1> HIDE DEF lists
<1>7. HandOut(i, lists[i], sz)
  BY <1>3, <1>5
<1>8. /\ ListsRight(sizeOf', memoryArray') /\ HeldRight(sizeOf', memoryArray', live')
      /\ Guarded(sizeOf', shadow', live') /\ FreedShut(sizeOf', memoryArray', shadow', returned')
  BY <1>1, <1>4, <1>5, <1>6, <1>7, HandOutKeeps
<1> QED
  BY <1>3, <1>4, <1>8 DEF FInv

\* Without memory nothing changes but the size an empty list remembers.
LEMMA FailedKeeps ==
  ASSUME FInv, NEW sz \in Request, MallocFails(sz)
  PROVE  FInv'
<1>1. PICK i \in Index : Padded(sz) = BlockSize[i] /\ sz <= BlockSize[i]
  BY PaddedFits
<1>2. getFreeListArrayIndex(Padded(sz)) = i
  BY <1>1, IndexOfSize
<1> DEFINE empty == [EmptyList EXCEPT !.size = BlockSize[i]]
<1>3. /\ memoryArray[i].first = <<>>
      /\ memoryArray' = [memoryArray EXCEPT ![i] = empty]
      /\ build' = build /\ shadow' = shadow /\ sizeOf' = sizeOf /\ mapped' = mapped
      /\ live' = live /\ returned' = returned
  BY <1>1, <1>2, Zenon DEF MallocFails
<1>4. /\ empty \in [first : Seq(Nat), counter : Nat, size : Nat]
      /\ empty.first = <<>> /\ empty.counter = 0
  <2>1. BlockSize[i] \in Nat
    BY Sizes, ListAssumption DEF Index
  <2>2. /\ EmptyList \in [first : Seq(Nat), counter : Nat, size : Nat]
        /\ EmptyList.first = <<>> /\ EmptyList.counter = 0
    BY DEF EmptyList
  <2> QED
    BY <2>1, <2>2
<1> HIDE DEF empty
<1>5. \A j \in Index : /\ memoryArray'[j].first = memoryArray[j].first
                       /\ memoryArray'[j].counter = memoryArray[j].counter
  BY <1>3, <1>4 DEF FInv, ListsRight
<1>6. ListsRight(sizeOf, memoryArray')
  <2>1. memoryArray' \in [Index -> [first : Seq(Nat), counter : Nat, size : Nat]]
    BY <1>3, <1>4 DEF FInv, ListsRight
  <2> QED
    BY <1>5, <2>1 DEF FInv, ListsRight
<1>7. \A m : InList(memoryArray', m) <=> InList(memoryArray, m)
  BY <1>5 DEF InList
<1>8. HeldRight(sizeOf, memoryArray', live) /\ FreedShut(sizeOf, memoryArray', shadow, returned)
  BY <1>7 DEF FInv, HeldRight, FreedShut
<1> QED
  BY <1>3, <1>6, <1>8 DEF FInv

\* A freed block goes back to its list, and the zones around it are shut as well: a
\* neighbour that is in use keeps its own words, and has its zones shut either way.
LEMMA FreeKeeps ==
  ASSUME FInv, NEW b \in live, Dlib_free(b)
  PROVE  FInv'
<1> DEFINE m == b.mem
<1>1. m \in Block /\ m \in Nat /\ \A c \in live : c.mem = m => c = b
  BY DEF FInv, HeldRight, BlocksApart, Block
<1>2. PICK i \in Index : sizeOf[m] = BlockSize[i]
  BY <1>1 DEF FInv, BlocksApart, Block
<1>3. getFreeListArrayIndex(sizeOf[m]) = i
  BY <1>2, IndexOfSize
<1>4. /\ memoryArray' = [memoryArray EXCEPT ![i] = Pushed(memoryArray[i], m)]
      /\ shadow' = removeAddr(shadow, m - RZ, sizeOf[m] + 2 * RZ)
      /\ live' = live \ {b} /\ returned' = returned \cup {m}
      /\ build' = build /\ sizeOf' = sizeOf /\ mapped' = mapped
  BY <1>3, Zenon DEF Dlib_free
<1>5. /\ \A n : InList(memoryArray', n) <=> InList(memoryArray, n) \/ n = m
      /\ ListsRight(sizeOf, memoryArray')
      /\ HeldRight(sizeOf, memoryArray', live')
  <2> DEFINE after == [memoryArray EXCEPT ![i] = Pushed(memoryArray[i], b.mem)]
  <2>1. /\ \A n : InList(after, n) <=> InList(memoryArray, n) \/ n = b.mem
        /\ ListsRight(sizeOf, after)
        /\ HeldRight(sizeOf, after, live \ {b})
    <3>1. ListsRight(sizeOf, memoryArray) /\ HeldRight(sizeOf, memoryArray, live)
      BY DEF FInv
    <3> QED
      BY <1>1, <1>2, <3>1, PushKeeps, Zenon
  <2>2. memoryArray' = after /\ live' = live \ {b}
    BY <1>4
  <2> HIDE DEF after
  <2> QED
    BY <2>1, <2>2
<1> HIDE DEF m
<1>6. \A w \in Words : shadow'[w] = IF BlockWord(sizeOf, m, w) \/ ZoneWord(sizeOf, m, w)
                                    THEN FREED ELSE shadow[w]
  BY <1>1, <1>4, RemoveWords DEF FInv, Block
<1>7. Guarded(sizeOf, shadow', live')
  <2> SUFFICES ASSUME NEW c \in live, c # b, NEW w \in Words
               PROVE  /\ BlockWord(sizeOf, c.mem, w) => shadow'[w] = 0
                      /\ ZoneWord(sizeOf, c.mem, w) => OutOfBounds(shadow'[w])
    BY <1>4 DEF Guarded
  <2>1. c.mem \in Block /\ c.mem # m
    BY <1>1 DEF FInv, HeldRight, Block
  <2>2. BlockWord(sizeOf, c.mem, w) => ~BlockWord(sizeOf, m, w) /\ ~ZoneWord(sizeOf, m, w)
    BY <1>1, <2>1, WordsApart DEF FInv, Block
  <2>3. /\ BlockWord(sizeOf, c.mem, w) => shadow[w] = 0
        /\ ZoneWord(sizeOf, c.mem, w) => OutOfBounds(shadow[w])
    BY DEF FInv, Guarded
  <2> QED
    BY <1>6, <2>2, <2>3 DEF OutOfBounds
<1>8. FreedShut(sizeOf, memoryArray', shadow', returned')
  <2> SUFFICES ASSUME NEW n \in returned \cup {m}
               PROVE  /\ InList(memoryArray', n)
                      /\ \A w \in Words : BlockWord(sizeOf, n, w) => OutOfBounds(shadow'[w])
    BY <1>4 DEF FreedShut
  <2>1. CASE n = m
    BY <1>5, <1>6, <2>1 DEF OutOfBounds
  <2>2. CASE n \in returned
    <3>1. InList(memoryArray, n) /\ \A w \in Words : BlockWord(sizeOf, n, w) => OutOfBounds(shadow[w])
      BY <2>2 DEF FInv, FreedShut
    <3> QED
      BY <1>5, <1>6, <3>1 DEF OutOfBounds
  <2> QED
    BY <2>1, <2>2
<1> QED
  BY <1>4, <1>5, <1>7, <1>8 DEF FInv

\* Every step keeps the invariant.  That a realloc has yet to free its old block does not
\* matter to it: both blocks are the program's until then.
LEMMA StepHolds == FInv /\ [Next]_vars => FInv'
<1> SUFFICES ASSUME FInv, [Next]_vars PROVE FInv'
  OBVIOUS
<1>1. CASE UNCHANGED vars
  BY <1>1, Zenon DEF vars, FInv
<1>2. CASE \E sz \in Request : Dlib_malloc(sz)
  BY <1>2, FromListKeeps, FromRegionKeeps, FailedKeeps, Zenon DEF Dlib_malloc
<1>3. CASE \E b \in live : Dlib_free(b)
  BY <1>3, FreeKeeps
<1>4. CASE \E b \in live : \E sz \in Request : Dlib_realloc(b, sz)
  BY <1>4, FromListKeeps, FromRegionKeeps, FailedKeeps, Zenon DEF Dlib_realloc
<1> QED
  BY <1>1, <1>2, <1>3, <1>4, Zenon DEF Next

\* The blocks, the lists and the shadow memory agree, for any requests and lists.
THEOREM FreeListsCorrect == Spec => []FInv
<1> QED
  BY InitHolds, StepHolds, PTL DEF Spec

\* Properties ---------------------------------------------------------------------------

\* A list without repetition has as many blocks as it is long.
LEMMA NoRepeatLength ==
  ASSUME NEW s \in Seq(Nat), NoRepeat(s)
  PROVE  Cardinality(ToSet(s)) = Len(s)
<1>1. Len(s) \in Nat /\ DOMAIN s = 1 .. Len(s)
  OBVIOUS
<1>2. IsFiniteSet(1 .. Len(s)) /\ Cardinality(1 .. Len(s)) = Len(s)
  BY <1>1, FS_Interval, SMTT(30)
<1> DEFINE f == [k \in 1 .. Len(s) |-> s[k]]
<1>3. f \in Bijection(1 .. Len(s), ToSet(s))
  BY <1>1 DEF Bijection, Injection, Surjection, IsInjective, ToSet, NoRepeat
<1> QED
  BY <1>2, <1>3, FS_Bijection, ZenonT(60) DEF ExistsBijection

\* The invariant accounts for every block.
LEMMA InvAccounts == FInv => EveryBlockOnce
<1> SUFFICES ASSUME FInv PROVE EveryBlockOnce
  OBVIOUS
<1> DEFINE held == {b.mem : b \in live}
<1>1. \A m : InList(memoryArray, m) <=> \E i \in Index : m \in Listed(i)
  BY DEF InList, Listed
<1>2. Block = held \cup UNION {Listed(i) : i \in Index}
  <2>1. ASSUME NEW m \in Block PROVE m \in held \/ \E i \in Index : m \in Listed(i)
    BY <1>1 DEF FInv, HeldRight, Block
  <2>2. ASSUME NEW m \in held PROVE m \in Block
    BY DEF FInv, HeldRight, Block
  <2>3. ASSUME NEW i \in Index, NEW m \in Listed(i) PROVE m \in Block
    BY DEF FInv, ListsRight, Block, Listed
  <2> QED
    BY <2>1, <2>2, <2>3
<1>3. Cardinality(held) = Cardinality(live)
  <2> DEFINE f == [b \in live |-> b.mem]
  <2>1. f \in Bijection(live, held)
    BY DEF FInv, HeldRight, Bijection, Injection, Surjection, IsInjective
  <2>2. IsFiniteSet(live)
    BY DEF FInv, HeldRight
  <2> QED
    BY <2>1, <2>2, FS_Bijection, ZenonT(60) DEF ExistsBijection
<1>4. ASSUME NEW i \in Index
      PROVE  /\ memoryArray[i].counter = Len(memoryArray[i].first)
             /\ Cardinality(Listed(i)) = Len(memoryArray[i].first)
             /\ Listed(i) \cap held = {}
             /\ \A mem \in Listed(i) : sizeOf[mem] = BlockSize[i]
  <2>1. memoryArray[i].first \in Seq(Nat) /\ NoRepeat(memoryArray[i].first)
    BY DEF FInv, ListsRight
  <2>2. Cardinality(Listed(i)) = Len(memoryArray[i].first)
    BY <2>1, NoRepeatLength DEF Listed
  <2>3. Listed(i) \cap held = {}
    BY <1>1 DEF FInv, HeldRight
  <2> QED
    BY <2>2, <2>3 DEF FInv, ListsRight, Listed
<1> QED
  BY <1>2, <1>3, <1>4 DEF EveryBlockOnce

\* EveryBlockOnce for any lists: no block is lost, none is in two places.
THEOREM NoBlockLost == Spec => []EveryBlockOnce
<1> QED
  BY FreeListsCorrect, InvAccounts, PTL

\* What the check answers, when registration is on and the fast check off.
LEMMA CheckAsks ==
  ASSUME FInv, NEW a, NEW n
  PROVE  check(a, n) = checkRegistration(shadow, build, a, n) /\ build \in Build
BY BuildAssumption DEF FInv, check, checkMemoryAccess

\* An access is accepted when its first and its last word are open, where accessible bytes
\* are counted.
LEMMA OpenAccepts ==
  ASSUME NEW sh, NEW b, b.ASANCheck, NEW a \in Nat, NEW n \in Nat \ {0},
         sh[a \div 8] = 0, sh[(a + n - 1) \div 8] = 0
  PROVE  checkRegistration(sh, b, a, n) = 0
BY DEF checkRegistration, getShadowMemoryAddress

\* There, a byte of a word that is out of bounds is reported.
LEMMA ShutReports ==
  ASSUME NEW sh, NEW b, b.ASANCheck, NEW a \in 0 .. (Arena - 1),
         OutOfBounds(sh[a \div 8])
  PROVE  checkRegistration(sh, b, a, 1) = 1
BY DEF checkRegistration, getShadowMemoryAddress, OutOfBounds, FREED, POISONED

\* The invariant keeps every block in use accessible and its surroundings not.
LEMMA InvGuards ==
  ASSUME FInv, build.ASANCheck PROVE LiveBlockGuarded
<1> SUFFICES ASSUME NEW b \in live
             PROVE  /\ \A a \in b.mem .. (b.mem + b.sz - 1) :
                         \A n \in 1 .. (b.mem + b.sz - a) : check(a, n) = 0
                    /\ \A z \in 1 .. RZ : /\ check(b.mem - z, 1) = 1
                                          /\ check(b.mem + sizeOf[b.mem] + z - 1, 1) = 1
  BY DEF LiveBlockGuarded
<1> DEFINE m == b.mem
           p == sizeOf[m]
<1>1. m \in Block /\ b.sz \in Nat \ {0} /\ b.sz <= p
  BY DEF FInv, HeldRight, Block
<1>2. /\ m \in Nat /\ m % 8 = 0 /\ p \in Nat \ {0} /\ p % 8 = 0
      /\ RZ <= m /\ m + p + RZ <= Arena
  BY <1>1, InMemory DEF FInv, Block
<1>3. RZ \in Nat \ {0} /\ RZ % 8 = 0 /\ Arena \in Nat /\ Arena % 8 = 0
  BY ZoneAssumption, ArenaAssumption
<1>4. \A w \in Words : /\ m \div 8 <= w /\ w < (m + p) \div 8 => shadow[w] = 0
                       /\ (m - RZ) \div 8 <= w /\ w < m \div 8 => OutOfBounds(shadow[w])
                       /\ (m + p) \div 8 <= w /\ w < (m + p + RZ) \div 8 => OutOfBounds(shadow[w])
  BY DEF FInv, Guarded, BlockWord, ZoneWord
<1> HIDE DEF m, p
<1>5. ASSUME NEW a \in m .. (m + b.sz - 1), NEW n \in 1 .. (m + b.sz - a)
      PROVE  check(a, n) = 0
  <2>1. /\ a \in Nat /\ n \in Nat \ {0} /\ m <= a /\ a < m + p
        /\ a + n - 1 \in Nat /\ m <= a + n - 1 /\ a + n - 1 < m + p
    BY <1>1, <1>2
  <2>2. \A x \in Nat : m <= x /\ x < m + p =>
          x \div 8 \in Words /\ m \div 8 <= x \div 8 /\ x \div 8 < (m + p) \div 8
    BY <1>2, <1>3 DEF Words
  <2>3. shadow[a \div 8] = 0 /\ shadow[(a + n - 1) \div 8] = 0
    BY <1>4, <2>1, <2>2
  <2> QED
    BY <2>1, <2>3, OpenAccepts, CheckAsks
<1>6. ASSUME NEW z \in 1 .. RZ PROVE check(m - z, 1) = 1
  <2>1. m - z \in 0 .. (Arena - 1) /\ (m - z) \div 8 \in Words
        /\ (m - RZ) \div 8 <= (m - z) \div 8 /\ (m - z) \div 8 < m \div 8
    BY <1>2, <1>3 DEF Words
  <2> QED
    BY <1>4, <2>1, ShutReports, CheckAsks
<1>7. ASSUME NEW z \in 1 .. RZ PROVE check(m + p + z - 1, 1) = 1
  <2> DEFINE x == m + p + z - 1
  <2>1. x \in 0 .. (Arena - 1) /\ x \div 8 \in Words
        /\ (m + p) \div 8 <= x \div 8 /\ x \div 8 < (m + p + RZ) \div 8
    BY <1>2, <1>3 DEF Words
  <2> HIDE DEF x
  <2>2. check(x, 1) = 1
    BY <1>4, <2>1, ShutReports, CheckAsks
  <2> QED
    BY <2>2 DEF x
<1> QED
  BY <1>5, <1>6, <1>7 DEF m, p

\* ... and reports the blocks that were given back.
LEMMA InvShuts ==
  ASSUME FInv, build.ASANCheck PROVE FreedBlockReported
<1> SUFFICES ASSUME NEW m \in returned, NEW a \in m .. (m + sizeOf[m] - 1)
             PROVE  check(a, 1) = 1
  BY DEF FreedBlockReported
<1> DEFINE p == sizeOf[m]
<1>1. m \in Block
  BY DEF FInv, FreedShut, InList, ListsRight, Block
<1>2. /\ m \in Nat /\ m % 8 = 0 /\ p \in Nat \ {0} /\ p % 8 = 0
      /\ RZ <= m /\ m + p + RZ <= Arena
  BY <1>1, InMemory DEF FInv, Block
<1>3. \A w \in Words : m \div 8 <= w /\ w < (m + p) \div 8 => OutOfBounds(shadow[w])
  BY DEF FInv, FreedShut, BlockWord
<1>4. a \in m .. (m + p - 1)
  OBVIOUS
<1> HIDE DEF p
<1>5. /\ a \in 0 .. (Arena - 1) /\ a \div 8 \in Words
      /\ m \div 8 <= a \div 8 /\ a \div 8 < (m + p) \div 8
  BY <1>2, <1>4, ZoneAssumption, ArenaAssumption DEF Words
<1> QED
  BY <1>3, <1>5, ShutReports, CheckAsks

\* LiveBlockGuarded for any lists, where accessible bytes are counted (ASANCheckInit):
\* one bit for each byte takes some of the bytes of a freed neighbour's zone for open.
THEOREM BlocksGuarded ==
  ASSUME \A b \in Builds : b.ASANCheck
  PROVE  Spec => []LiveBlockGuarded
<1>1. FInv => LiveBlockGuarded
  BY InvGuards DEF FInv
<1> QED
  BY <1>1, FreeListsCorrect, PTL

\* FreedBlockReported likewise: a freed block is reported while it is in its list.
THEOREM UseAfterFreeReported ==
  ASSUME \A b \in Builds : b.ASANCheck
  PROVE  Spec => []FreedBlockReported
<1>1. FInv => FreedBlockReported
  BY InvShuts DEF FInv
<1> QED
  BY <1>1, FreeListsCorrect, PTL
=============================================================================
