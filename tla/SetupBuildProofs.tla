--------------------------- MODULE SetupBuildProofs ---------------------------
(***************************************************************************)
(* The setup, for any project: any packages, targets and instances, any    *)
(* dependencies without a cycle, and any command lines.                    *)
(***************************************************************************)
EXTENDS SetupBuild, SequenceTheorems, FiniteSetTheorems, WellFoundedInduction, TLAPS

\* Numbers and sequences -------------------------------------------------------------------

\* Induction, for a set that is given.
LEMMA Induction ==
  ASSUME NEW T, 0 \in T, \A n \in Nat : n \in T => n + 1 \in T
  PROVE  Nat \subseteq T
<1> DEFINE R == {p \in Nat \X Nat : p[1] < p[2]}
<1> SUFFICES ASSUME Nat \ T # {} PROVE FALSE
  OBVIOUS
<1>1. IsWellFoundedOn(R, Nat)
  BY NatLessThanWellFounded DEF OpToRel
<1> HIDE DEF R
<1>2. PICK m \in Nat \ T : \A y \in Nat \ T : ~(<<y, m>> \in R)
  BY <1>1, WFMin
<1>3. \A y \in Nat \ T : ~(y < m)
  BY <1>2 DEF R
<1>4. m - 1 \in Nat /\ m - 1 \in T /\ m = (m - 1) + 1
  BY <1>3
<1> QED
  BY <1>4

\* g has the beginnings of the flattened list.
Flattens(g, seqs) ==
  \A i \in 1 .. Len(seqs) : g[i] = IF i = 1 THEN seqs[i] ELSE g[i - 1] \o seqs[i]

LEMMA FlattensExists ==
  ASSUME NEW S, NEW seqs \in Seq(S)
  PROVE  \E g : Flattens(g, seqs) /\ g = [i \in 1 .. Len(seqs) |-> g[i]]
<1> DEFINE Upto(n) == \E g : \A i \in 1 .. n : g[i] = IF i = 1 THEN seqs[i] ELSE g[i - 1] \o seqs[i]
           T == {n \in Nat : Upto(n)}
<1>1. 0 \in T
  OBVIOUS
<1>2. ASSUME NEW n \in Nat, n \in T PROVE n + 1 \in T
  <2>1. PICK g : \A i \in 1 .. n : g[i] = IF i = 1 THEN seqs[i] ELSE g[i - 1] \o seqs[i]
    BY <1>2
  <2> DEFINE v == IF n + 1 = 1 THEN seqs[n + 1] ELSE g[n] \o seqs[n + 1]
             h == [i \in 1 .. (n + 1) |-> IF i = n + 1 THEN v ELSE g[i]]
  <2>2. ASSUME NEW i \in 1 .. (n + 1)
        PROVE  h[i] = IF i = 1 THEN seqs[i] ELSE h[i - 1] \o seqs[i]
    <3>1. CASE i = n + 1
      <4>1. h[i] = v /\ (i # 1 => h[i - 1] = g[n])
        BY <3>1
      <4> QED
        BY <3>1, <4>1
    <3>2. CASE i # n + 1
      <4>1. i \in 1 .. n /\ h[i] = g[i] /\ (i # 1 => h[i - 1] = g[i - 1])
        BY <3>2
      <4> QED
        BY <2>1, <4>1
    <3> QED
      BY <3>1, <3>2
  <2> HIDE DEF h
  <2>3. Upto(n + 1)
    BY <2>2
  <2> QED
    BY <2>3
<1> HIDE DEF T
<1>3. Len(seqs) \in T
  BY <1>1, <1>2, Induction, LenProperties
<1>4. PICK g : \A i \in 1 .. Len(seqs) : g[i] = IF i = 1 THEN seqs[i] ELSE g[i - 1] \o seqs[i]
  BY <1>3 DEF T
<1> DEFINE h == [i \in 1 .. Len(seqs) |-> g[i]]
<1>5. Len(seqs) \in Nat
  BY LenProperties
<1>6. ASSUME NEW i \in 1 .. Len(seqs)
      PROVE  h[i] = IF i = 1 THEN seqs[i] ELSE h[i - 1] \o seqs[i]
  <2>1. h[i] = g[i] /\ (i # 1 => h[i - 1] = g[i - 1])
    BY <1>5
  <2> QED
    BY <1>4, <2>1
<1> QED
  BY <1>6 DEF Flattens

\* A list of lists is flattened from left to right.
LEMMA FlattenIs ==
  ASSUME NEW S, NEW seqs \in Seq(S)
  PROVE  /\ seqs = <<>> => FlattenSeq(seqs) = <<>>
         /\ seqs # <<>> => \E g : Flattens(g, seqs) /\ FlattenSeq(seqs) = g[Len(seqs)]
<1>1. Len(seqs) \in Nat /\ (Len(seqs) = 0 <=> seqs = <<>>)
  BY LenProperties, EmptySeq
<1>2. CASE seqs = <<>>
  BY <1>1, <1>2 DEF FlattenSeq
<1>3. CASE seqs # <<>>
  <2> DEFINE P(g) == g = [i \in 1 .. Len(seqs) |-> IF i = 1 THEN seqs[i] ELSE g[i - 1] \o seqs[i]]
             c == CHOOSE g : P(g)
  <2>1. \E g : P(g)
    <3>1. PICK g : Flattens(g, seqs) /\ g = [i \in 1 .. Len(seqs) |-> g[i]]
      BY FlattensExists
    <3>2. [i \in 1 .. Len(seqs) |-> g[i]]
            = [i \in 1 .. Len(seqs) |-> IF i = 1 THEN seqs[i] ELSE g[i - 1] \o seqs[i]]
      BY <3>1 DEF Flattens
    <3> QED
      BY <3>1, <3>2
  <2>2. P(c)
    BY <2>1
  <2>3. FlattenSeq(seqs) = c[Len(seqs)]
    BY <1>1, <1>3 DEF FlattenSeq
  <2> HIDE DEF c
  <2>4. Flattens(c, seqs)
    BY <2>2 DEF Flattens
  <2> QED
    BY <1>3, <2>3, <2>4
<1> QED
  BY <1>2, <1>3

\* What holds of the empty list and, with the first lists, of one more, holds of all of
\* them flattened: T has the pairs of a number of lists and what they are together.
LEMMA FlattenInduction ==
  ASSUME NEW S, NEW seqs \in Seq(Seq(S)), NEW T, <<0, <<>>>> \in T,
         \A i \in 1 .. Len(seqs) : \A w \in Seq(S) : <<i - 1, w>> \in T => <<i, w \o seqs[i]>> \in T
  PROVE  FlattenSeq(seqs) \in Seq(S) /\ <<Len(seqs), FlattenSeq(seqs)>> \in T
<1>1. Len(seqs) \in Nat /\ (Len(seqs) = 0 <=> seqs = <<>>)
  BY LenProperties, EmptySeq
<1>2. CASE seqs = <<>>
  BY <1>1, <1>2, FlattenIs, EmptySeq
<1>3. CASE seqs # <<>>
  <2>1. PICK g : Flattens(g, seqs) /\ FlattenSeq(seqs) = g[Len(seqs)]
    BY <1>3, FlattenIs
  <2> DEFINE U == {n \in Nat : n + 1 \in 1 .. Len(seqs) =>
                                 g[n + 1] \in Seq(S) /\ <<n + 1, g[n + 1]>> \in T}
  <2>2. 0 \in U
    <3>1. 1 \in 1 .. Len(seqs) /\ g[1] = seqs[1] /\ seqs[1] \in Seq(S)
      BY <1>1, <1>3, <2>1, ElementOfSeq DEF Flattens
    <3>2. <<>> \in Seq(S) /\ <<>> \o seqs[1] = seqs[1]
      BY <3>1, EmptySeq, ConcatEmptySeq
    <3>3. <<1 - 1, <<>>>> \in T => <<1, <<>> \o seqs[1]>> \in T
      BY <3>1, <3>2
    <3>4. 1 - 1 = 0 /\ 0 + 1 = 1
      OBVIOUS
    <3>5. <<1, seqs[1]>> \in T
      BY <3>2, <3>3, <3>4
    <3> QED
      BY <3>1, <3>4, <3>5
  <2>3. ASSUME NEW n \in Nat, n \in U PROVE n + 1 \in U
    <3> SUFFICES ASSUME n + 2 \in 1 .. Len(seqs)
                 PROVE  g[n + 2] \in Seq(S) /\ <<n + 2, g[n + 2]>> \in T
      OBVIOUS
    <3>1. n + 1 \in 1 .. Len(seqs) /\ n + 2 # 1 /\ (n + 2) - 1 = n + 1
      BY <1>1
    <3>2. g[n + 1] \in Seq(S) /\ <<n + 1, g[n + 1]>> \in T
      BY <2>3, <3>1
    <3>3. g[n + 2] = g[n + 1] \o seqs[n + 2] /\ seqs[n + 2] \in Seq(S)
      BY <2>1, <3>1, ElementOfSeq DEF Flattens
    <3> QED
      BY <3>1, <3>2, <3>3, ConcatProperties
  <2> HIDE DEF U
  <2>4. Nat \subseteq U
    BY <2>2, <2>3, Induction
  <2>5. Len(seqs) - 1 \in U
    BY <1>1, <1>3, <2>4
  <2> QED
    BY <1>1, <1>3, <2>1, <2>5 DEF U
<1> QED
  BY <1>2, <1>3

\* The elements of lists that are put together.
LEMMA ConcatElements ==
  ASSUME NEW S, NEW u \in Seq(S), NEW v \in Seq(S)
  PROVE  u \o v \in Seq(S) /\ ToSet(u \o v) = ToSet(u) \cup ToSet(v)
<1>1. /\ u \o v \in Seq(S) /\ Len(u) \in Nat /\ Len(v) \in Nat /\ Len(u \o v) = Len(u) + Len(v)
      /\ DOMAIN u = 1 .. Len(u) /\ DOMAIN v = 1 .. Len(v) /\ DOMAIN (u \o v) = 1 .. Len(u \o v)
      /\ \A i \in 1 .. Len(u) + Len(v) : (u \o v)[i] = IF i <= Len(u) THEN u[i] ELSE v[i - Len(u)]
  BY ConcatProperties, LenProperties
<1>2. ASSUME NEW i \in 1 .. Len(u) PROVE u[i] \in ToSet(u \o v)
  <2>1. i \in 1 .. Len(u) + Len(v) /\ (u \o v)[i] = u[i]
    BY <1>1
  <2> QED
    BY <1>1, <2>1 DEF ToSet
<1>3. ASSUME NEW i \in 1 .. Len(v) PROVE v[i] \in ToSet(u \o v)
  <2>1. Len(u) + i \in 1 .. Len(u) + Len(v) /\ (u \o v)[Len(u) + i] = v[i]
    BY <1>1
  <2> QED
    BY <1>1, <2>1 DEF ToSet
<1>4. ASSUME NEW i \in 1 .. Len(u) + Len(v) PROVE (u \o v)[i] \in ToSet(u) \cup ToSet(v)
  BY <1>1 DEF ToSet
<1> QED
  BY <1>1, <1>2, <1>3, <1>4 DEF ToSet

LEMMA OneElement ==
  ASSUME NEW S, NEW e \in S
  PROVE  <<e>> \in Seq(S) /\ Len(<<e>>) = 1 /\ <<e>>[1] = e /\ ToSet(<<e>>) = {e}
BY DEF ToSet

\* Dependency lists --------------------------------------------------------------------------

\* A list has every package after those it depends on, ...
ClosedList(w) == \A i \in 1 .. Len(w) : \A q \in ToSet(graph[w[i]]) : \E j \in 1 .. i - 1 : w[j] = q

\* ... and a set has them all.
ClosedSet(C) == \A p \in C \cap Package : ToSet(graph[p]) \subseteq C

Listed == Package \cup {Recursive}

\* The walk w from the packages R, if it met no cycle, lists what they need.
GoodWalk(w, R) ==
  /\ w \in Seq(Listed)
  /\ Recursive \notin ToSet(w) =>
       ClosedList(w) /\ R \subseteq ToSet(w) /\ \A C : ClosedSet(C) /\ R \subseteq C => ToSet(w) \subseteq C

LEMMA EmptyWalk == GoodWalk(<<>>, {})
BY EmptySeq DEF GoodWalk, ClosedList, ToSet

LEMMA WalksOneAfterAnother ==
  ASSUME NEW u, NEW v, NEW R, NEW Q, GoodWalk(u, R), GoodWalk(v, Q)
  PROVE  GoodWalk(u \o v, R \cup Q)
<1>1. u \in Seq(Listed) /\ v \in Seq(Listed)
  BY DEF GoodWalk
<1>2. u \o v \in Seq(Listed) /\ ToSet(u \o v) = ToSet(u) \cup ToSet(v)
  BY <1>1, ConcatElements
<1>3. ASSUME Recursive \notin ToSet(u \o v)
      PROVE  ClosedList(u \o v)
  <2>1. ClosedList(u) /\ ClosedList(v)
    BY <1>2, <1>3 DEF GoodWalk
  <2>2. /\ Len(u) \in Nat /\ Len(v) \in Nat /\ Len(u \o v) = Len(u) + Len(v)
        /\ \A i \in 1 .. Len(u) + Len(v) : (u \o v)[i] = IF i <= Len(u) THEN u[i] ELSE v[i - Len(u)]
    BY <1>1, ConcatProperties, LenProperties
  <2> SUFFICES ASSUME NEW i \in 1 .. Len(u) + Len(v), NEW q \in ToSet(graph[(u \o v)[i]])
               PROVE  \E j \in 1 .. i - 1 : (u \o v)[j] = q
    BY <2>2 DEF ClosedList
  <2>3. CASE i <= Len(u)
    <3>1. i \in 1 .. Len(u) /\ (u \o v)[i] = u[i]
      BY <2>2, <2>3
    <3>2. PICK j \in 1 .. i - 1 : u[j] = q
      BY <2>1, <3>1 DEF ClosedList
    <3>3. (u \o v)[j] = u[j]
      BY <2>2, <3>1, <3>2
    <3> QED
      BY <3>2, <3>3
  <2>4. CASE i > Len(u)
    <3>1. i - Len(u) \in 1 .. Len(v) /\ (u \o v)[i] = v[i - Len(u)]
      BY <2>2, <2>4
    <3>2. PICK j \in 1 .. (i - Len(u)) - 1 : v[j] = q
      BY <2>1, <3>1 DEF ClosedList
    <3>3. Len(u) + j \in 1 .. i - 1 /\ (u \o v)[Len(u) + j] = v[j]
      BY <2>2, <3>1, <3>2
    <3> QED
      BY <3>2, <3>3
  <2> QED
    BY <2>2, <2>3, <2>4
<1> QED
  BY <1>2, <1>3 DEF GoodWalk

LEMMA FlattenedWalks ==
  ASSUME NEW ws \in Seq(Seq(Listed)), NEW rs,
         \A i \in 1 .. Len(ws) : GoodWalk(ws[i], rs[i])
  PROVE  GoodWalk(FlattenSeq(ws), UNION {rs[i] : i \in 1 .. Len(ws)})
<1> DEFINE T == {t \in (0 .. Len(ws)) \X Seq(Listed) : GoodWalk(t[2], UNION {rs[i] : i \in 1 .. t[1]})}
<1>1. Len(ws) \in Nat
  BY LenProperties
<1>2. <<0, <<>>>> \in T
  <2>1. UNION {rs[k] : k \in 1 .. 0} = {}
    OBVIOUS
  <2>2. GoodWalk(<<>>, UNION {rs[k] : k \in 1 .. 0})
    BY <2>1, EmptyWalk
  <2>3. <<0, <<>>>> \in (0 .. Len(ws)) \X Seq(Listed)
    <3>1. 0 \in 0 .. Len(ws)
      BY <1>1
    <3>2. <<>> \in Seq(Listed)
      BY EmptySeq
    <3> HIDE DEF T
    <3> QED
      BY <3>1, <3>2
  <2> QED
    BY <2>2, <2>3
<1>3. ASSUME NEW i \in 1 .. Len(ws), NEW w \in Seq(Listed), <<i - 1, w>> \in T
      PROVE  <<i, w \o ws[i]>> \in T
  <2> DEFINE U == UNION {rs[k] : k \in 1 .. i - 1}
  <2>1. GoodWalk(w \o ws[i], U \cup rs[i])
    <3>1. GoodWalk(w, U) /\ GoodWalk(ws[i], rs[i])
      BY <1>3
    <3> HIDE DEF U, T
    <3> QED
      BY <3>1, WalksOneAfterAnother
  <2>2. U \cup rs[i] = UNION {rs[k] : k \in 1 .. i}
    <3>1. 1 .. i = (1 .. i - 1) \cup {i}
      BY <1>1
    <3> QED
      BY <3>1, Zenon
  <2>3. w \o ws[i] \in Seq(Listed)
    BY <2>1 DEF GoodWalk
  <2>4. <<i, w \o ws[i]>> \in (0 .. Len(ws)) \X Seq(Listed)
    <3>1. i \in 0 .. Len(ws)
      BY <1>1
    <3> HIDE DEF T
    <3> QED
      BY <2>3, <3>1
  <2>5. GoodWalk(w \o ws[i], UNION {rs[k] : k \in 1 .. i})
    BY <2>1, <2>2
  <2> QED
    BY <2>4, <2>5
<1> HIDE DEF T
<1>4. <<Len(ws), FlattenSeq(ws)>> \in T
  BY <1>2, <1>3, FlattenInduction
<1> QED
  BY <1>4 DEF T

\* The greatest of a set of numbers.
LEMMA MaxIs ==
  ASSUME NEW n \in Nat, NEW s \in SUBSET (1 .. n), n \in s
  PROVE  Max(s) = n
<1>1. n \in s /\ \A y \in s : n >= y
  OBVIOUS
<1>2. \A x \in s : (\A y \in s : x >= y) => x = n
  OBVIOUS
<1> QED
  BY <1>1, <1>2, Zenon DEF Max

\* it has the lists without repetitions of the parts of w.
Dedups(it, w, n) ==
  \A s \in SUBSET (1 .. n) :
    it[s] = IF s = {} THEN <<>> ELSE AppendNew(it[s \ {Max(s)}], w[Max(s)])

LEMMA DedupsExists ==
  ASSUME NEW w, NEW n \in Nat
  PROVE  \E it : Dedups(it, w, n)
<1> DEFINE T == {k \in Nat : \E it : Dedups(it, w, k)}
<1>1. 0 \in T
  <2> DEFINE it == [s \in SUBSET (1 .. 0) |-> <<>>]
  <2>1. \A s \in SUBSET (1 .. 0) : s = {}
    OBVIOUS
  <2>2. Dedups(it, w, 0)
    BY <2>1 DEF Dedups
  <2> QED
    BY <2>2
<1>2. ASSUME NEW k \in Nat, k \in T PROVE k + 1 \in T
  <2>1. PICK f : Dedups(f, w, k)
    BY <1>2
  <2> DEFINE it == [s \in SUBSET (1 .. (k + 1)) |->
                     IF k + 1 \in s THEN AppendNew(f[s \ {k + 1}], w[k + 1]) ELSE f[s]]
  <2>2. ASSUME NEW s \in SUBSET (1 .. (k + 1))
        PROVE  it[s] = IF s = {} THEN <<>> ELSE AppendNew(it[s \ {Max(s)}], w[Max(s)])
    <3>1. CASE k + 1 \in s
      <4>1. Max(s) = k + 1
        BY <3>1, MaxIs
      <4>2. s \ {k + 1} \in SUBSET (1 .. (k + 1)) /\ k + 1 \notin s \ {k + 1} /\ s # {}
        BY <3>1
      <4>3. it[s \ {k + 1}] = f[s \ {k + 1}]
        BY <4>2
      <4> QED
        BY <3>1, <4>1, <4>2, <4>3
    <3>2. CASE k + 1 \notin s
      <4>1. s \in SUBSET (1 .. k)
        BY <3>2
      <4>2. s \ {Max(s)} \in SUBSET (1 .. (k + 1)) /\ k + 1 \notin s \ {Max(s)}
        BY <3>2
      <4>3. it[s] = f[s] /\ it[s \ {Max(s)}] = f[s \ {Max(s)}]
        BY <3>2, <4>2
      <4> QED
        BY <2>1, <4>1, <4>3 DEF Dedups
    <3> QED
      BY <3>1, <3>2
  <2> HIDE DEF it
  <2>3. Dedups(it, w, k + 1)
    BY <2>2 DEF Dedups
  <2> QED
    BY <2>3
<1> HIDE DEF T
<1>3. n \in T
  BY <1>1, <1>2, Induction
<1> QED
  BY <1>3 DEF T

\* The list that get_deps makes of a walk, package by package.
LEMMA DedupIs ==
  ASSUME NEW S, NEW w \in Seq(S)
  PROVE  \E h : /\ h[0] = <<>> /\ h[Len(w)] = FoldLeft(AppendNew, <<>>, w)
                /\ \A i \in 1 .. Len(w) : h[i] = AppendNew(h[i - 1], w[i])
<1>1. Len(w) \in Nat /\ DOMAIN w = 1 .. Len(w)
  BY LenProperties
<1> DEFINE P(it) == it = [s \in SUBSET (1 .. Len(w)) |->
                        IF s = {} THEN <<>> ELSE AppendNew(it[s \ {Max(s)}], w[Max(s)])]
           c == CHOOSE it : P(it)
<1>2. \E it : P(it)
  <2>1. PICK f : Dedups(f, w, Len(w))
    BY <1>1, DedupsExists
  <2> DEFINE it == [s \in SUBSET (1 .. Len(w)) |-> f[s]]
  <2>2. it = [s \in SUBSET (1 .. Len(w)) |->
               IF s = {} THEN <<>> ELSE AppendNew(it[s \ {Max(s)}], w[Max(s)])]
    <3>1. \A s \in SUBSET (1 .. Len(w)) : it[s] = f[s] /\ it[s \ {Max(s)}] = f[s \ {Max(s)}]
      OBVIOUS
    <3> QED
      BY <2>1, <3>1 DEF Dedups
  <2> HIDE DEF it
  <2> QED
    BY <2>2
<1>3. P(c)
  BY <1>2
<1>4. FoldLeft(AppendNew, <<>>, w) = c[1 .. Len(w)]
  BY <1>1 DEF FoldLeft, MapThenFoldSet
<1> HIDE DEF c
<1>5. \A s \in SUBSET (1 .. Len(w)) :
        c[s] = IF s = {} THEN <<>> ELSE AppendNew(c[s \ {Max(s)}], w[Max(s)])
  BY <1>3
<1> DEFINE h == [i \in 0 .. Len(w) |-> c[1 .. i]]
<1>6. h[0] = <<>>
  <2>1. 1 .. 0 = {} /\ 0 \in 0 .. Len(w)
    BY <1>1
  <2> QED
    BY <1>5, <2>1
<1>7. ASSUME NEW i \in 1 .. Len(w) PROVE h[i] = AppendNew(h[i - 1], w[i])
  <2>1. i \in Nat /\ i \in 1 .. i /\ 1 .. i \in SUBSET (1 .. Len(w)) /\ (1 .. i) \ {i} = 1 .. (i - 1)
    BY <1>1
  <2>2. Max(1 .. i) = i
    BY <2>1, MaxIs
  <2>3. c[1 .. i] = AppendNew(c[1 .. (i - 1)], w[i])
    BY <1>5, <2>1, <2>2
  <2>4. i \in 0 .. Len(w) /\ i - 1 \in 0 .. Len(w)
    BY <1>1
  <2> QED
    BY <2>3, <2>4
<1>8. h[Len(w)] = FoldLeft(AppendNew, <<>>, w)
  BY <1>1, <1>4
<1> HIDE DEF h
<1> QED
  BY <1>6, <1>7, <1>8

\* get_deps keeps what a walk lists and how it is ordered.
LEMMA DedupedWalk ==
  ASSUME NEW w, NEW R, GoodWalk(w, R)
  PROVE  GoodWalk(FoldLeft(AppendNew, <<>>, w), R)
<1>1. w \in Seq(Listed) /\ Len(w) \in Nat /\ DOMAIN w = 1 .. Len(w)
  BY LenProperties DEF GoodWalk
<1>2. PICK h : /\ h[0] = <<>> /\ h[Len(w)] = FoldLeft(AppendNew, <<>>, w)
               /\ \A i \in 1 .. Len(w) : h[i] = AppendNew(h[i - 1], w[i])
  BY <1>1, DedupIs
<1> DEFINE Beginning(i) == {w[j] : j \in 1 .. i}
           T == {i \in Nat : i <= Len(w) =>
                   /\ h[i] \in Seq(Listed) /\ ToSet(h[i]) = Beginning(i)
                   /\ Recursive \notin ToSet(w) => ClosedList(h[i])}
<1>3. 0 \in T
  <2>1. ToSet(<<>>) = {} /\ Beginning(0) = {} /\ ClosedList(<<>>) /\ <<>> \in Seq(Listed)
    BY EmptySeq DEF ToSet, ClosedList
  <2> HIDE DEF Beginning
  <2> QED
    BY <1>2, <2>1
<1>4. ASSUME NEW k \in Nat, k \in T PROVE k + 1 \in T
  <2> SUFFICES ASSUME k + 1 <= Len(w)
               PROVE  /\ h[k + 1] \in Seq(Listed) /\ ToSet(h[k + 1]) = Beginning(k + 1)
                      /\ Recursive \notin ToSet(w) => ClosedList(h[k + 1])
    OBVIOUS
  <2> DEFINE u == h[k]
             e == w[k + 1]
  <2>1. /\ u \in Seq(Listed) /\ ToSet(u) = Beginning(k)
        /\ Recursive \notin ToSet(w) => ClosedList(u)
    BY <1>1, <1>4
  <2>2. e \in Listed /\ e \in ToSet(w)
    BY <1>1, ElementOfSeq DEF ToSet
  <2>3. h[k + 1] = AppendNew(u, e)
    <3>1. k + 1 \in 1 .. Len(w) /\ (k + 1) - 1 = k
      BY <1>1
    <3> QED
      BY <1>2, <3>1
  <2>4. Beginning(k + 1) = Beginning(k) \cup {e}
    <3>1. \A j \in 1 .. (k + 1) : j = k + 1 \/ j \in 1 .. k
      OBVIOUS
    <3>2. 1 .. k \subseteq 1 .. (k + 1) /\ k + 1 \in 1 .. (k + 1)
      OBVIOUS
    <3> QED
      BY <3>1, <3>2
  <2>5. Len(u) \in Nat /\ DOMAIN u = 1 .. Len(u)
    BY <2>1, LenProperties
  <2>6. CASE Contains(u, e)
    <3>1. e \in ToSet(u)
      BY <2>5, <2>6 DEF Contains, ToSet
    <3>2. h[k + 1] = u
      BY <2>3, <2>6 DEF AppendNew
    <3> HIDE DEF Beginning
    <3> QED
      BY <2>1, <2>4, <3>1, <3>2
  <2>7. CASE ~Contains(u, e)
    <3>1. h[k + 1] = Append(u, e)
      BY <2>3, <2>7 DEF AppendNew
    <3>2. Append(u, e) = u \o <<e>> /\ <<e>> \in Seq(Listed) /\ ToSet(<<e>>) = {e}
      BY <2>1, <2>2, OneElement, AppendIsConcat
    <3>3. h[k + 1] \in Seq(Listed) /\ ToSet(h[k + 1]) = ToSet(u) \cup {e}
      <4> HIDE DEF u, e, T, Beginning
      <4>1. ToSet(u \o <<e>>) = ToSet(u) \cup ToSet(<<e>>) /\ u \o <<e>> \in Seq(Listed)
        BY <2>1, <3>2, ConcatElements, ZenonT(30)
      <4> QED
        BY <3>1, <3>2, <4>1
    <3>4. ASSUME Recursive \notin ToSet(w) PROVE ClosedList(h[k + 1])
      <4>1. Len(h[k + 1]) = Len(u) + 1
        BY <2>1, <2>2, <3>1, AppendProperties
      <4>2. h[k + 1][Len(u) + 1] = e /\ \A j \in 1 .. Len(u) : h[k + 1][j] = u[j]
        BY <2>1, <2>2, <2>5, <3>1, AppendProperties
      <4> SUFFICES ASSUME NEW i \in 1 .. Len(u) + 1, NEW q \in ToSet(graph[h[k + 1][i]])
                   PROVE  \E j \in 1 .. i - 1 : h[k + 1][j] = q
        BY <4>1 DEF ClosedList
      <4>3. CASE i \in 1 .. Len(u)
        <5>1. PICK j \in 1 .. i - 1 : u[j] = q
          BY <2>1, <3>4, <4>2, <4>3 DEF ClosedList
        <5>2. j \in 1 .. Len(u)
          BY <2>5, <4>3, <5>1
        <5> QED
          BY <4>2, <5>1, <5>2
      <4>4. CASE i = Len(u) + 1
        <5>1. ClosedList(w) /\ k + 1 \in 1 .. Len(w) /\ q \in ToSet(graph[w[k + 1]])
          BY <1>1, <3>4, <4>2, <4>4 DEF GoodWalk
        <5>2. PICK j \in 1 .. (k + 1) - 1 : w[j] = q
          BY <5>1 DEF ClosedList
        <5>3. q \in Beginning(k)
          BY <5>2
        <5>4. PICK l \in 1 .. Len(u) : u[l] = q
          BY <2>1, <2>5, <5>3, ZenonT(30) DEF ToSet
        <5>5. l \in 1 .. i - 1 /\ h[k + 1][l] = q
          BY <2>5, <4>2, <4>4, <5>4
        <5> QED
          BY <5>5
      <4> QED
        BY <2>5, <4>3, <4>4
    <3> HIDE DEF Beginning
    <3> QED
      BY <2>1, <2>4, <3>3, <3>4
  <2> QED
    BY <2>6, <2>7
<1> HIDE DEF T
<1>5. Len(w) \in T
  BY <1>1, <1>3, <1>4, Induction
<1>6. ToSet(w) = {w[j] : j \in 1 .. Len(w)}
  BY <1>1 DEF ToSet
<1> QED
  BY <1>1, <1>2, <1>5, <1>6 DEF T, GoodWalk

Objects == DOMAIN graph
Unseen(visited) == Cardinality(Objects \ visited)

LEMMA UnseenShrinks ==
  /\ IsFiniteSet(Objects) /\ Package \subseteq Objects
  /\ \A d \in Objects : graph[d] \in Seq(Package)
  /\ \A v \in SUBSET Objects : Unseen(v) \in Nat
  /\ \A v \in SUBSET Objects : \A d \in Objects \ v :
       v \cup {d} \in SUBSET Objects /\ Unseen(v \cup {d}) = Unseen(v) - 1
<1>1. /\ IsFiniteSet(Objects) /\ Package \subseteq Objects
      /\ \A d \in Objects : graph[d] \in Seq(Package)
  BY SetupAssumption DEF Objects
<1>2. ASSUME NEW v \in SUBSET Objects PROVE IsFiniteSet(Objects \ v) /\ Unseen(v) \in Nat
  <2>1. IsFiniteSet(Objects \ v)
    BY <1>1, FS_Difference
  <2> QED
    BY <2>1, FS_CardinalityType DEF Unseen
<1>3. ASSUME NEW v \in SUBSET Objects, NEW d \in Objects \ v
      PROVE  v \cup {d} \in SUBSET Objects /\ Unseen(v \cup {d}) = Unseen(v) - 1
  <2>1. Objects \ (v \cup {d}) = (Objects \ v) \ {d}
    OBVIOUS
  <2>2. Cardinality((Objects \ v) \ {d}) = Cardinality(Objects \ v) - 1
    BY <1>2, FS_RemoveElement
  <2> QED
    BY <2>1, <2>2 DEF Unseen
<1> QED
  BY <1>1, <1>2, <1>3

\* Walks of packages that are in order where at most n objects are unseen.
Walks(add, n) ==
  \A d \in Objects : \A v \in SUBSET Objects : Unseen(v) <= n => add[<<d, v>>] = Visit(graph, add, d, v)

\* A walk looks only at walks that have seen more.
LEMMA WalkLooksBelow ==
  ASSUME NEW f, NEW g, NEW d \in Objects, NEW v \in SUBSET Objects,
         d \notin v => \A p \in Package : f[<<p, v \cup {d}>>] = g[<<p, v \cup {d}>>]
  PROVE  Visit(graph, f, d, v) = Visit(graph, g, d, v)
<1>1. CASE d \in v
  BY <1>1 DEF Visit
<1>2. CASE d \notin v
  <2>1. graph[d] \in Seq(Package)
    BY UnseenShrinks
  <2>2. \A i \in DOMAIN graph[d] : graph[d][i] \in Package
    BY <2>1, LenProperties, ElementOfSeq
  <2>3. [i \in DOMAIN graph[d] |-> f[<<graph[d][i], v \cup {d}>>]]
          = [i \in DOMAIN graph[d] |-> g[<<graph[d][i], v \cup {d}>>]]
    BY <1>2, <2>2
  <2> QED
    BY <1>2, <2>3 DEF Visit
<1> QED
  BY <1>1, <1>2

LEMMA WalksExist == \A n \in Nat : \E add : Walks(add, n)
<1> DEFINE T == {n \in Nat : \E add : Walks(add, n)}
<1>1. ASSUME NEW n \in Nat, NEW f,
             \A d \in Objects : \A v \in SUBSET Objects : Unseen(v) < n => f[<<d, v>>] = Visit(graph, f, d, v)
      PROVE  \E add : Walks(add, n)
  <2> DEFINE g == [x \in Objects \X SUBSET Objects |->
                    IF Unseen(x[2]) < n THEN f[x] ELSE Visit(graph, f, x[1], x[2])]
  <2>1. ASSUME NEW d \in Objects, NEW v \in SUBSET Objects, Unseen(v) <= n
        PROVE  g[<<d, v>>] = Visit(graph, f, d, v) /\ Visit(graph, g, d, v) = Visit(graph, f, d, v)
    <3>1. g[<<d, v>>] = Visit(graph, f, d, v)
      BY <1>1
    <3>2. ASSUME d \notin v, NEW p \in Package PROVE f[<<p, v \cup {d}>>] = g[<<p, v \cup {d}>>]
      <4>1. /\ v \cup {d} \in SUBSET Objects /\ p \in Objects /\ Unseen(v) \in Nat
            /\ Unseen(v \cup {d}) = Unseen(v) - 1
        BY <3>2, UnseenShrinks
      <4>2. Unseen(v \cup {d}) < n
        BY <2>1, <4>1
      <4> QED
        BY <4>1, <4>2
    <3> HIDE DEF g
    <3> QED
      BY <3>1, <3>2, WalkLooksBelow
  <2> HIDE DEF g
  <2>2. Walks(g, n)
    BY <2>1 DEF Walks
  <2> QED
    BY <2>2
<1>2. 0 \in T
  <2>1. \A v \in SUBSET Objects : ~(Unseen(v) < 0)
    BY UnseenShrinks
  <2> DEFINE f == 0
  <2>2. \A d \in Objects : \A v \in SUBSET Objects : Unseen(v) < 0 => f[<<d, v>>] = Visit(graph, f, d, v)
    BY <2>1
  <2> HIDE DEF f
  <2> QED
    BY <1>1, <2>2
<1>3. ASSUME NEW n \in Nat, n \in T PROVE n + 1 \in T
  <2>1. PICK f : Walks(f, n)
    BY <1>3
  <2>2. \A v \in SUBSET Objects : Unseen(v) < n + 1 => Unseen(v) <= n
    BY UnseenShrinks
  <2>3. \A d \in Objects : \A v \in SUBSET Objects : Unseen(v) < n + 1 => f[<<d, v>>] = Visit(graph, f, d, v)
    BY <2>1, <2>2 DEF Walks
  <2> QED
    BY <1>1, <2>3
<1> HIDE DEF T
<1>4. Nat \subseteq T
  BY <1>2, <1>3, Induction
<1> QED
  BY <1>4 DEF T

\* The walk from a package lists what the package needs, and itself at the end.
LEMMA PackageWalk == \A dep \in Package : GoodWalk(add_dep(graph, dep), {dep})
<1> DEFINE P(add) == add = [x \in (DOMAIN graph) \X (SUBSET DOMAIN graph) |-> Visit(graph, add, x[1], x[2])]
           c == CHOOSE add : P(add)
<1>1. \E add : P(add)
  <2>1. Unseen({}) \in Nat /\ \A v \in SUBSET Objects : Unseen(v) <= Unseen({})
    <3>1. ASSUME NEW v \in SUBSET Objects PROVE Unseen(v) <= Unseen({})
      <4>1. IsFiniteSet(Objects) /\ Objects \ v \subseteq Objects /\ Objects \ {} = Objects
        BY UnseenShrinks
      <4> QED
        BY <4>1, FS_Subset DEF Unseen
    <3> QED
      BY <3>1, UnseenShrinks
  <2>2. PICK f : Walks(f, Unseen({}))
    BY <2>1, WalksExist
  <2> DEFINE g == [x \in Objects \X SUBSET Objects |-> f[x]]
  <2>3. ASSUME NEW d \in Objects, NEW v \in SUBSET Objects
        PROVE  f[<<d, v>>] = Visit(graph, g, d, v)
    <3>1. f[<<d, v>>] = Visit(graph, f, d, v)
      BY <2>1, <2>2 DEF Walks
    <3>2. ASSUME d \notin v, NEW p \in Package PROVE f[<<p, v \cup {d}>>] = g[<<p, v \cup {d}>>]
      <4>1. p \in Objects /\ v \cup {d} \in SUBSET Objects
        BY UnseenShrinks
      <4> QED
        BY <4>1
    <3> HIDE DEF g
    <3> QED
      BY <3>1, <3>2, WalkLooksBelow
  <2>4. \A x \in Objects \X SUBSET Objects : f[x] = Visit(graph, g, x[1], x[2])
    <3> HIDE DEF g
    <3> QED
      BY <2>3
  <2>5. g = [x \in Objects \X SUBSET Objects |-> Visit(graph, g, x[1], x[2])]
    BY <2>4
  <2> HIDE DEF g
  <2> QED
    BY <2>5 DEF Objects
<1>2. P(c)
  BY <1>1
<1>3. \A dep : add_dep(graph, dep) = c[<<dep, {}>>]
  BY DEF add_dep
<1> HIDE DEF c
<1>4. \A d \in Objects : \A v \in SUBSET Objects : c[<<d, v>>] = Visit(graph, c, d, v)
  BY <1>2 DEF Objects
<1> DEFINE T == {n \in Nat : \A d \in Package : \A v \in SUBSET Objects :
                             Unseen(v) <= n => GoodWalk(c[<<d, v>>], {d})}
<1>5. ASSUME NEW d \in Package, NEW v \in SUBSET Objects,
             d \notin v => \A p \in Package : GoodWalk(c[<<p, v \cup {d}>>], {p})
      PROVE  GoodWalk(c[<<d, v>>], {d})
  <2>1. c[<<d, v>>] = Visit(graph, c, d, v) /\ graph[d] \in Seq(Package)
    BY <1>4, UnseenShrinks
  <2>2. CASE d \in v
    <3>1. c[<<d, v>>] = <<Recursive>> /\ Recursive \in Listed
      BY <2>1, <2>2 DEF Visit, Listed
    <3> QED
      BY <3>1, OneElement DEF GoodWalk
  <2>3. CASE d \notin v
    <3> DEFINE ws == [i \in DOMAIN graph[d] |-> c[<<graph[d][i], v \cup {d}>>]]
               u  == FlattenSeq(ws)
    <3>1. /\ Len(graph[d]) \in Nat /\ DOMAIN graph[d] = 1 .. Len(graph[d])
          /\ \A i \in 1 .. Len(graph[d]) : graph[d][i] \in Package
      BY <2>1, LenProperties, ElementOfSeq
    <3>2. \A i \in 1 .. Len(graph[d]) : GoodWalk(ws[i], {graph[d][i]})
      BY <1>5, <2>3, <3>1
    <3>3. ws \in Seq(Seq(Listed)) /\ Len(ws) = Len(graph[d])
      <4>1. \A i \in 1 .. Len(graph[d]) : ws[i] \in Seq(Listed)
        BY <3>2 DEF GoodWalk
      <4>2. ws = [i \in 1 .. Len(graph[d]) |-> ws[i]]
        BY <3>1
      <4> HIDE DEF ws
      <4>3. ws \in [1 .. Len(graph[d]) -> Seq(Listed)]
        BY <4>1, <4>2
      <4> QED
        BY <3>1, <4>3, SeqDef, LenProperties
    <3> HIDE DEF ws
    <3> DEFINE rs == [i \in DOMAIN graph[d] |-> {graph[d][i]}]
    <3>4. /\ \A i \in 1 .. Len(ws) : GoodWalk(ws[i], rs[i])
          /\ UNION {rs[i] : i \in 1 .. Len(ws)} = ToSet(graph[d])
      BY <3>1, <3>2, <3>3 DEF ToSet
    <3>5. GoodWalk(u, ToSet(graph[d]))
      <4> HIDE DEF rs, T
      <4>1. GoodWalk(u, UNION {rs[i] : i \in 1 .. Len(ws)})
        BY <3>3, <3>4, FlattenedWalks
      <4> QED
        BY <3>4, <4>1
    <3>6. c[<<d, v>>] = u \o <<d>>
      BY <2>1, <2>3 DEF Visit, ws
    <3> HIDE DEF u
    <3>7. u \in Seq(Listed) /\ d \in Listed /\ Len(u) \in Nat /\ DOMAIN u = 1 .. Len(u)
      BY <3>5, LenProperties DEF GoodWalk, Listed
    <3>8. u \o <<d>> \in Seq(Listed) /\ ToSet(u \o <<d>>) = ToSet(u) \cup {d}
      <4> HIDE DEF T
      <4>1. <<d>> \in Seq(Listed) /\ ToSet(<<d>>) = {d}
        BY <3>7, OneElement
      <4>2. u \o <<d>> \in Seq(Listed) /\ ToSet(u \o <<d>>) = ToSet(u) \cup ToSet(<<d>>)
        BY <3>7, <4>1, ConcatElements, ZenonT(30)
      <4> QED
        BY <4>1, <4>2
    <3>9. ASSUME Recursive \notin ToSet(u \o <<d>>) PROVE ClosedList(u \o <<d>>)
      <4>1. /\ Len(u \o <<d>>) = Len(u) + 1 /\ (u \o <<d>>)[Len(u) + 1] = d
            /\ \A j \in 1 .. Len(u) : (u \o <<d>>)[j] = u[j]
        BY <3>7, AppendIsConcat, AppendProperties
      <4>2. ClosedList(u) /\ ToSet(graph[d]) \subseteq ToSet(u)
        BY <3>5, <3>8, <3>9 DEF GoodWalk
      <4> SUFFICES ASSUME NEW i \in 1 .. Len(u) + 1, NEW q \in ToSet(graph[(u \o <<d>>)[i]])
                   PROVE  \E j \in 1 .. i - 1 : (u \o <<d>>)[j] = q
        BY <4>1 DEF ClosedList
      <4>3. CASE i \in 1 .. Len(u)
        <5>1. PICK j \in 1 .. i - 1 : u[j] = q
          BY <4>1, <4>2, <4>3 DEF ClosedList
        <5>2. j \in 1 .. Len(u)
          BY <3>7, <4>3, <5>1
        <5> QED
          BY <4>1, <5>1, <5>2
      <4>4. CASE i = Len(u) + 1
        <5>1. q \in ToSet(u)
          BY <4>1, <4>2, <4>4
        <5>2. PICK j \in 1 .. Len(u) : u[j] = q
          BY <3>7, <5>1 DEF ToSet
        <5>3. j \in 1 .. i - 1 /\ (u \o <<d>>)[j] = q
          BY <3>7, <4>1, <4>4, <5>2
        <5> QED
          BY <5>3
      <4> QED
        BY <3>7, <4>3, <4>4
    <3>10. ASSUME Recursive \notin ToSet(u \o <<d>>), NEW C, ClosedSet(C), {d} \subseteq C
           PROVE  ToSet(u \o <<d>>) \subseteq C
      <4>1. ToSet(graph[d]) \subseteq C
        BY <3>10 DEF ClosedSet
      <4>2. ToSet(u) \subseteq C
        BY <3>5, <3>8, <3>10, <4>1 DEF GoodWalk
      <4> QED
        BY <3>8, <3>10, <4>2
    <3> QED
      BY <3>6, <3>8, <3>9, <3>10 DEF GoodWalk
  <2> QED
    BY <2>2, <2>3
<1>6. 0 \in T
  <2> SUFFICES ASSUME NEW d \in Package, NEW v \in SUBSET Objects, Unseen(v) <= 0
               PROVE  GoodWalk(c[<<d, v>>], {d})
    OBVIOUS
  <2>1. d \in v
    <3> SUFFICES ASSUME d \notin v PROVE FALSE
      OBVIOUS
    <3>1. Unseen(v) \in Nat /\ Unseen(v \cup {d}) \in Nat /\ Unseen(v \cup {d}) = Unseen(v) - 1
      BY UnseenShrinks
    <3> QED
      BY <3>1
  <2> QED
    BY <1>5, <2>1
<1>7. ASSUME NEW n \in Nat, n \in T PROVE n + 1 \in T
  <2> SUFFICES ASSUME NEW d \in Package, NEW v \in SUBSET Objects, Unseen(v) <= n + 1
               PROVE  GoodWalk(c[<<d, v>>], {d})
    OBVIOUS
  <2>1. ASSUME d \notin v, NEW p \in Package PROVE GoodWalk(c[<<p, v \cup {d}>>], {p})
    <3>1. /\ v \cup {d} \in SUBSET Objects
          /\ Unseen(v) \in Nat /\ Unseen(v \cup {d}) = Unseen(v) - 1
      BY <2>1, UnseenShrinks
    <3>2. Unseen(v \cup {d}) <= n
      BY <3>1
    <3> QED
      BY <1>7, <3>1, <3>2
  <2> QED
    BY <1>5, <2>1
<1> HIDE DEF T
<1>8. Unseen({}) \in T
  BY <1>6, <1>7, Induction, UnseenShrinks
<1>9. ASSUME NEW dep \in Package PROVE GoodWalk(c[<<dep, {}>>], {dep})
  <2>1. Unseen({}) <= Unseen({})
    BY UnseenShrinks
  <2> QED
    BY <1>8, <2>1 DEF T
<1> QED
  BY <1>3, <1>9

LEMMA ObjectWalk ==
  ASSUME NEW o \in Objects
  PROVE  GoodWalk(FlattenSeq([k \in DOMAIN graph[o] |-> add_dep(graph, graph[o][k])]), ToSet(graph[o]))
<1> DEFINE ws == [k \in DOMAIN graph[o] |-> add_dep(graph, graph[o][k])]
           rs == [k \in DOMAIN graph[o] |-> {graph[o][k]}]
<1>1. /\ Len(graph[o]) \in Nat /\ DOMAIN graph[o] = 1 .. Len(graph[o])
      /\ \A k \in 1 .. Len(graph[o]) : graph[o][k] \in Package
  BY UnseenShrinks, LenProperties, ElementOfSeq
<1>2. \A k \in 1 .. Len(graph[o]) : GoodWalk(ws[k], rs[k])
  BY <1>1, PackageWalk
<1>3. ws \in Seq(Seq(Listed)) /\ Len(ws) = Len(graph[o])
  <2>1. \A k \in 1 .. Len(graph[o]) : ws[k] \in Seq(Listed)
    BY <1>2 DEF GoodWalk
  <2>2. ws = [k \in 1 .. Len(graph[o]) |-> ws[k]]
    BY <1>1
  <2> HIDE DEF ws
  <2>3. ws \in [1 .. Len(graph[o]) -> Seq(Listed)]
    BY <2>1, <2>2
  <2> QED
    BY <1>1, <2>3, SeqDef, LenProperties
<1>4. UNION {rs[k] : k \in 1 .. Len(ws)} = ToSet(graph[o])
  BY <1>1, <1>3 DEF ToSet
<1> HIDE DEF ws, rs
<1>5. GoodWalk(FlattenSeq(ws), UNION {rs[k] : k \in 1 .. Len(ws)})
  BY <1>2, <1>3, FlattenedWalks
<1> QED
  BY <1>4, <1>5 DEF ws

\* get_deps lists what the objects need, once, and what each package needs before it.
LEMMA DependencyWalk ==
  ASSUME NEW objs \in Seq(Objects)
  PROVE  GoodWalk(get_deps(graph, objs), UNION {ToSet(graph[objs[i]]) : i \in 1 .. Len(objs)})
<1> DEFINE W(o) == FlattenSeq([k \in DOMAIN graph[o] |-> add_dep(graph, graph[o][k])])
           ws == [i \in DOMAIN objs |-> W(objs[i])]
           rs == [i \in DOMAIN objs |-> ToSet(graph[objs[i]])]
<1>1. Len(objs) \in Nat /\ DOMAIN objs = 1 .. Len(objs) /\ \A i \in 1 .. Len(objs) : objs[i] \in Objects
  BY LenProperties, ElementOfSeq
<1>2. \A i \in 1 .. Len(objs) : GoodWalk(ws[i], rs[i])
  <2>1. \A o \in Objects : GoodWalk(W(o), ToSet(graph[o]))
    BY ObjectWalk
  <2> HIDE DEF W
  <2> QED
    BY <1>1, <2>1
<1>3. ws \in Seq(Seq(Listed)) /\ Len(ws) = Len(objs)
  <2>1. \A i \in 1 .. Len(objs) : ws[i] \in Seq(Listed)
    BY <1>2 DEF GoodWalk
  <2>2. ws = [i \in 1 .. Len(objs) |-> ws[i]]
    BY <1>1
  <2> HIDE DEF ws
  <2>3. ws \in [1 .. Len(objs) -> Seq(Listed)]
    BY <2>1, <2>2
  <2> QED
    BY <1>1, <2>3, SeqDef, LenProperties
<1>4. {rs[i] : i \in 1 .. Len(ws)} = {ToSet(graph[objs[i]]) : i \in 1 .. Len(objs)}
  BY <1>1, <1>3
<1>5. get_deps(graph, objs) = FoldLeft(AppendNew, <<>>, FlattenSeq(ws))
  BY DEF get_deps
<1> HIDE DEF ws, rs
<1>6. GoodWalk(FlattenSeq(ws), UNION {rs[i] : i \in 1 .. Len(ws)})
  BY <1>2, <1>3, FlattenedWalks
<1> QED
  BY <1>4, <1>5, <1>6, DedupedWalk

\* The dependency list of an object.
LEMMA DepsRight ==
  ASSUME NEW o \in Objects
  PROVE  /\ Deps(o) \in Seq(Package) /\ ToSet(graph[o]) \subseteq ToSet(Deps(o)) /\ ClosedList(Deps(o))
         /\ \A C : ClosedSet(C) /\ ToSet(graph[o]) \subseteq C => ToSet(Deps(o)) \subseteq C
<1>1. <<o>> \in Seq(Objects) /\ Len(<<o>>) = 1 /\ <<o>>[1] = o
  BY OneElement
<1>2. {ToSet(graph[<<o>>[i]]) : i \in 1 .. Len(<<o>>)} = {ToSet(graph[o])}
  BY <1>1
<1>3. GoodWalk(get_deps(graph, <<o>>), UNION {ToSet(graph[o])})
  BY <1>1, <1>2, DependencyWalk
<1>4. Deps(o) = get_deps(graph, <<o>>)
  BY DEF Deps, DepsOf, Objects
<1>5. GoodWalk(Deps(o), ToSet(graph[o]))
  BY <1>3, <1>4
<1>6. Deps(o) \in Seq(Listed) /\ Len(Deps(o)) \in Nat /\ DOMAIN Deps(o) = 1 .. Len(Deps(o))
  BY <1>5, LenProperties DEF GoodWalk
<1>7. Recursive \notin ToSet(Deps(o))
  BY GraphAssumption DEF Contains, ToSet, Objects
<1>8. \A i \in 1 .. Len(Deps(o)) : Deps(o)[i] \in Package
  BY <1>6, <1>7, ElementOfSeq DEF Listed, ToSet
<1>9. Deps(o) \in Seq(Package)
  <2>1. Deps(o) = [i \in 1 .. Len(Deps(o)) |-> Deps(o)[i]]
    BY <1>6, LenProperties
  <2> HIDE DEF Deps
  <2> QED
    BY <1>6, <1>8, <2>1, SeqDef
<1> QED
  BY <1>5, <1>7, <1>9 DEF GoodWalk

\* What a package in the list needs is in the list before it.
LEMMA DepsInOrder ==
  ASSUME NEW o \in Objects, NEW n \in 1 .. Len(Deps(o))
  PROVE  /\ Deps(o)[n] \in Package
         /\ ToSet(Deps(Deps(o)[n])) \subseteq {Deps(o)[j] : j \in 1 .. n - 1}
<1> DEFINE C == {Deps(o)[j] : j \in 1 .. n - 1}
           p == Deps(o)[n]
<1>1. Deps(o) \in Seq(Package) /\ Len(Deps(o)) \in Nat /\ ClosedList(Deps(o))
  BY DepsRight, LenProperties
<1>2. p \in Package /\ p \in Objects
  BY <1>1, ElementOfSeq, UnseenShrinks
<1>3. ToSet(graph[p]) \subseteq C
  <2>1. \A q \in ToSet(graph[p]) : \E j \in 1 .. n - 1 : Deps(o)[j] = q
    BY <1>1 DEF ClosedList
  <2> QED
    BY <2>1
<1>4. ClosedSet(C)
  <2>1. ASSUME NEW j \in 1 .. n - 1, NEW q \in ToSet(graph[Deps(o)[j]])
        PROVE  q \in C
    <3>1. j \in 1 .. Len(Deps(o))
      BY <1>1
    <3>2. PICK l \in 1 .. j - 1 : Deps(o)[l] = q
      BY <1>1, <2>1, <3>1 DEF ClosedList
    <3>3. l \in 1 .. n - 1
      BY <3>1, <3>2
    <3> QED
      BY <3>2, <3>3
  <2> QED
    BY <2>1 DEF ClosedSet
<1> HIDE DEF C
<1>5. ToSet(Deps(p)) \subseteq C
  BY <1>2, <1>3, <1>4, DepsRight
<1> QED
  BY <1>2, <1>5 DEF C

\* What a list of operations does ------------------------------------------------------------

C(E, F) == [env |-> E, configured |-> F]
Contexts == [env : SUBSET Package, configured : Seq(Instance)]
Right(b) == C(ToSet(Deps(b[1])) \cup ToSet(Deps(b[2])), <<b[2]>>)

\* How far a command has come: its context and the copies of it, the packages built, the
\* targets made, with their instances, and whether the pool may have jobs.
P(c, s, B, M, q) == [ctx |-> c, saved |-> s, built |-> B, made |-> M, pending |-> q]
Progress == [ctx : Contexts, saved : Seq(Contexts), built : SUBSET Package,
             made : SUBSET (Target \X Instance), pending : BOOLEAN]

Things == Listed \cup Target \cup Instance \cup {""} \cup (Target \X Instance)
OpNames == {"env", "configure", "save", "restore", "fetch", "once", "build", "hooks", "run", "clean",
            "wait", "exec-hook", "fatal"}
Ops == [op : OpNames, obj : Things, force : BOOLEAN]

\* The operation op of the command a may be done at x, and leads to y.
Does(a, op, x, y) ==
  \/ /\ op.op = "env" /\ op.obj \in Package
     /\ y = P(C(x.ctx.env \cup {op.obj}, x.ctx.configured), x.saved, x.built, x.made, x.pending)
  \/ /\ op.op = "configure" /\ op.obj \in Instance
     /\ y = P(C(x.ctx.env, Append(x.ctx.configured, op.obj)), x.saved, x.built, x.made, x.pending)
  \/ /\ op.op = "save"
     /\ y = P(x.ctx, <<x.ctx>> \o x.saved, x.built, x.made, x.pending)
  \/ /\ op.op = "restore" /\ y.ctx \in Contexts /\ y.saved \in Seq(Contexts)
     /\ x.saved = <<y.ctx>> \o y.saved
     /\ y = P(y.ctx, y.saved, x.built, x.made, x.pending)
  \/ /\ op.op = "once" /\ op.obj \in Package
     /\ ToSet(Deps(op.obj)) \subseteq x.ctx.env \cap x.built
     /\ y = P(x.ctx, x.saved, x.built \cup {op.obj}, x.made, x.pending)
  \/ /\ op.op = "build" /\ op.obj \in Target \X Instance /\ x.ctx = Right(op.obj) /\ x.pending
     /\ y = P(x.ctx, x.saved, x.built, x.made \cup {op.obj}, x.pending)
  \/ /\ op.op = "hooks" /\ op.obj \in Target \X Instance /\ x.ctx = Right(op.obj)
     /\ ~a.relink => op.obj \in x.made
     /\ y = x
  \/ /\ op.op = "run" /\ op.obj \in Target \X Instance
     /\ a.build =>
          /\ op.obj \in x.made /\ ~x.pending
          /\ x.ctx = C(ToSet(Deps(op.obj[1])) \cup ToSet(Deps(op.obj[2])), <<>>)
     /\ y = x
  \/ op.op = "clean" /\ x.made = {} /\ y = x
  \/ op.op = "wait" /\ y = P(x.ctx, x.saved, x.built, x.made, FALSE)
  \/ op.op \in {"fetch", "exec-hook"} /\ y = x
  \/ op.op = "fatal"

\* J has what holds before each operation of a list, and at its end.
Annotates(J, a, ops) == \A n \in 1 .. Len(ops) : \A x \in J[n - 1] : \E y \in J[n] : Does(a, ops[n], x, y)

\* From X the operations lead to Y.
Leads(a, ops, X, Y) ==
  /\ ops \in Seq(Ops)
  /\ \E J : X \subseteq J[0] /\ J[Len(ops)] \subseteq Y /\ Annotates(J, a, ops)

LEMMA NothingLeads ==
  ASSUME NEW a, NEW X, NEW Y, X \subseteq Y
  PROVE  Leads(a, <<>>, X, Y)
<1> DEFINE J == [n \in 0 .. 0 |-> X]
<1>1. J[0] = X /\ Len(<<>>) = 0 /\ <<>> \in Seq(Ops)
  BY EmptySeq
<1>2. Annotates(J, a, <<>>)
  BY DEF Annotates
<1> HIDE DEF J
<1> QED
  BY <1>1, <1>2 DEF Leads

LEMMA OneLeads ==
  ASSUME NEW a, NEW op \in Ops, NEW X, NEW Y, \A x \in X : \E y \in Y : Does(a, op, x, y)
  PROVE  Leads(a, <<op>>, X, Y)
<1> DEFINE J == [n \in 0 .. 1 |-> IF n = 0 THEN X ELSE Y]
<1>1. <<op>> \in Seq(Ops) /\ Len(<<op>>) = 1 /\ <<op>>[1] = op
  BY OneElement
<1>2. J[0] = X /\ J[1] = Y /\ 1 - 1 = 0
  OBVIOUS
<1> HIDE DEF J
<1>3. \A n \in 1 .. 1 : n = 1
  OBVIOUS
<1>4. Annotates(J, a, <<op>>)
  BY <1>1, <1>2, <1>3 DEF Annotates
<1> QED
  BY <1>1, <1>2, <1>4 DEF Leads

LEMMA BothLead ==
  ASSUME NEW a, NEW u, NEW v, NEW X, NEW Y, NEW Z, Leads(a, u, X, Y), Leads(a, v, Y, Z)
  PROVE  Leads(a, u \o v, X, Z)
<1>1. /\ u \in Seq(Ops) /\ v \in Seq(Ops) /\ Len(u) \in Nat /\ Len(v) \in Nat
      /\ u \o v \in Seq(Ops) /\ Len(u \o v) = Len(u) + Len(v)
      /\ \A i \in 1 .. Len(u) + Len(v) : (u \o v)[i] = IF i <= Len(u) THEN u[i] ELSE v[i - Len(u)]
  BY ConcatProperties, LenProperties DEF Leads
<1>2. PICK J : X \subseteq J[0] /\ J[Len(u)] \subseteq Y /\ Annotates(J, a, u)
  BY DEF Leads
<1>3. PICK L : Y \subseteq L[0] /\ L[Len(v)] \subseteq Z /\ Annotates(L, a, v)
  BY DEF Leads
<1> DEFINE m == Len(u)
           K == [n \in 0 .. m + Len(v) |-> IF n <= m THEN J[n] ELSE L[n - m]]
<1>4. \A n \in 0 .. m : K[n] = J[n]
  BY <1>1
<1>5. \A n \in 1 .. Len(v) : K[m + n] = L[n]
  BY <1>1
<1> HIDE DEF K
<1>6. ASSUME NEW n \in 1 .. m + Len(v), NEW x \in K[n - 1]
      PROVE  \E y \in K[n] : Does(a, (u \o v)[n], x, y)
  <2>1. CASE n <= m
    <3>1. n \in 1 .. Len(u) /\ K[n] = J[n] /\ K[n - 1] = J[n - 1] /\ (u \o v)[n] = u[n]
      BY <1>1, <1>4, <2>1
    <3> QED
      BY <1>2, <1>6, <3>1 DEF Annotates
  <2>2. CASE n > m
    <3>1. n - m \in 1 .. Len(v) /\ n = m + (n - m) /\ (u \o v)[n] = v[n - m]
      BY <1>1, <2>2
    <3>2. K[n] = L[n - m]
      BY <1>5, <3>1
    <3>3. x \in L[(n - m) - 1]
      <4>1. CASE n = m + 1
        BY <1>1, <1>2, <1>3, <1>4, <1>6, <4>1
      <4>2. CASE n # m + 1
        <5>1. n - m - 1 \in 1 .. Len(v) /\ n - 1 = m + (n - m - 1)
          BY <1>1, <3>1, <4>2
        <5> QED
          BY <1>5, <1>6, <5>1
      <4> QED
        BY <4>1, <4>2
    <3> QED
      BY <1>3, <3>1, <3>2, <3>3 DEF Annotates
  <2> QED
    BY <1>1, <2>1, <2>2
<1>7. Annotates(K, a, u \o v)
  BY <1>1, <1>6 DEF Annotates
<1>8. X \subseteq K[0] /\ K[Len(u \o v)] \subseteq Z
  <2>1. K[0] = J[0]
    BY <1>1, <1>4
  <2>2. CASE Len(v) = 0
    BY <1>1, <1>2, <1>3, <1>4, <2>1, <2>2
  <2>3. CASE Len(v) # 0
    BY <1>1, <1>2, <1>3, <1>5, <2>1, <2>3
  <2> QED
    BY <2>2, <2>3
<1> QED
  BY <1>1, <1>7, <1>8 DEF Leads

LEMMA LeadsFurther ==
  ASSUME NEW a, NEW u, NEW X, NEW Y, NEW Z, NEW W, Leads(a, u, Y, Z), X \subseteq Y, Z \subseteq W
  PROVE  Leads(a, u, X, W)
<1>1. u \in Seq(Ops)
  BY DEF Leads
<1>2. PICK J : Y \subseteq J[0] /\ J[Len(u)] \subseteq Z /\ Annotates(J, a, u)
  BY DEF Leads
<1> QED
  BY <1>1, <1>2 DEF Leads

\* One list of operations after the other.
LEMMA AllLead ==
  ASSUME NEW a, NEW seqs \in Seq(Seq(Ops)), NEW K,
         \A i \in 1 .. Len(seqs) : Leads(a, seqs[i], K[i - 1], K[i])
  PROVE  Leads(a, FlattenSeq(seqs), K[0], K[Len(seqs)])
<1> DEFINE T == {t \in (0 .. Len(seqs)) \X Seq(Ops) : Leads(a, t[2], K[0], K[t[1]])}
<1>1. Len(seqs) \in Nat
  BY LenProperties
<1>2. <<0, <<>>>> \in T
  <2>1. Leads(a, <<>>, K[0], K[0])
    BY NothingLeads
  <2>2. <<0, <<>>>> \in (0 .. Len(seqs)) \X Seq(Ops)
    <3> HIDE DEF T
    <3>1. 0 \in 0 .. Len(seqs) /\ <<>> \in Seq(Ops)
      BY <1>1, EmptySeq
    <3> QED
      BY <3>1
  <2> QED
    BY <2>1, <2>2
<1>3. ASSUME NEW i \in 1 .. Len(seqs), NEW w \in Seq(Ops), <<i - 1, w>> \in T
      PROVE  <<i, w \o seqs[i]>> \in T
  <2>1. Leads(a, w, K[0], K[i - 1])
    BY <1>3
  <2>2. Leads(a, w \o seqs[i], K[0], K[i])
    <3> HIDE DEF T
    <3> QED
      BY <2>1, BothLead
  <2>3. w \o seqs[i] \in Seq(Ops) /\ i \in 0 .. Len(seqs)
    BY <1>1, <2>2 DEF Leads
  <2>4. <<i, w \o seqs[i]>> \in (0 .. Len(seqs)) \X Seq(Ops)
    <3> HIDE DEF T
    <3> QED
      BY <2>3
  <2> QED
    BY <2>2, <2>4
<1> HIDE DEF T
<1>4. <<Len(seqs), FlattenSeq(seqs)>> \in T
  BY <1>2, <1>3, FlattenInduction
<1> QED
  BY <1>4 DEF T

\* The operations that are done first, and what is left to do.
LEMMA LeadsOn ==
  ASSUME NEW a, NEW ops, NEW X, NEW Z, NEW x \in X, Leads(a, ops, X, Z), ops # <<>>
  PROVE  /\ Head(ops) \in Ops
         /\ \E Y : Leads(a, Tail(ops), Y, Z) /\ \E y \in Y : Does(a, Head(ops), x, y)
<1>1. ops \in Seq(Ops) /\ Len(ops) \in Nat /\ Len(ops) # 0
  BY LenProperties, EmptySeq DEF Leads
<1>2. PICK J : X \subseteq J[0] /\ J[Len(ops)] \subseteq Z /\ Annotates(J, a, ops)
  BY DEF Leads
<1>3. /\ Head(ops) = ops[1] /\ Head(ops) \in Ops /\ Tail(ops) \in Seq(Ops) /\ Len(Tail(ops)) = Len(ops) - 1
      /\ \A i \in 1 .. Len(ops) - 1 : Tail(ops)[i] = ops[i + 1]
  BY <1>1, HeadTailProperties, ElementOfSeq
<1>4. \E y \in J[1] : Does(a, Head(ops), x, y)
  <2>1. 1 \in 1 .. Len(ops) /\ x \in J[1 - 1]
    BY <1>1, <1>2
  <2> QED
    BY <1>2, <1>3, <2>1 DEF Annotates
<1> DEFINE L == [n \in 0 .. Len(ops) - 1 |-> J[n + 1]]
<1>5. L[0] = J[1] /\ L[Len(ops) - 1] = J[Len(ops)]
  BY <1>1
<1>6. ASSUME NEW n \in 1 .. Len(ops) - 1 PROVE L[n - 1] = J[(n + 1) - 1] /\ L[n] = J[n + 1]
  BY <1>1
<1> HIDE DEF L
<1>7. Annotates(L, a, Tail(ops))
  <2> SUFFICES ASSUME NEW n \in 1 .. Len(ops) - 1, NEW z \in L[n - 1]
               PROVE  \E y \in L[n] : Does(a, Tail(ops)[n], z, y)
    BY <1>3 DEF Annotates
  <2>1. n + 1 \in 1 .. Len(ops) /\ z \in J[(n + 1) - 1] /\ Tail(ops)[n] = ops[n + 1]
    BY <1>1, <1>3, <1>6
  <2> QED
    BY <1>2, <1>6, <2>1 DEF Annotates
<1>8. Leads(a, Tail(ops), J[1], Z)
  BY <1>2, <1>3, <1>5, <1>7 DEF Leads
<1> QED
  BY <1>3, <1>4, <1>8

LEMMA LeadsToEnd ==
  ASSUME NEW a, NEW X, NEW Z, Leads(a, <<>>, X, Z)
  PROVE  X \subseteq Z
BY EmptySeq DEF Leads

\* At the context c, with copies s, when at least B is built and M is made.
At(c, s, B, M, q) ==
  {x \in Progress : x.ctx = c /\ x.saved = s /\ B \subseteq x.built /\ M \subseteq x.made /\ x.pending = q}

LEMMA ThingsAre ==
  /\ "" \in Things /\ Package \subseteq Things /\ Target \subseteq Things /\ Instance \subseteq Things
  /\ Target \X Instance \subseteq Things
BY Zenon DEF Things, Listed

LEMMA OpIs ==
  ASSUME NEW op \in OpNames, NEW o \in Things, NEW f \in BOOLEAN
  PROVE  Op(op, o, f) \in Ops /\ Op(op, o, f).op = op /\ Op(op, o, f).obj = o
BY DEF Op, Ops

LEMMA EnvLeads ==
  ASSUME NEW a, NEW p \in Package, NEW E \in SUBSET Package, NEW F \in Seq(Instance), NEW s, NEW B, NEW M, NEW q
  PROVE  Leads(a, <<Op("env", p, FALSE)>>, At(C(E, F), s, B, M, q), At(C(E \cup {p}, F), s, B, M, q))
<1> DEFINE op == Op("env", p, FALSE)
<1>1. op \in Ops /\ op.op = "env" /\ op.obj = p
  <2>1. "env" \in OpNames /\ p \in Things /\ FALSE \in BOOLEAN
    BY ThingsAre DEF OpNames
  <2> QED
    BY <2>1, OpIs
<1> HIDE DEF op
<1>2. ASSUME NEW x \in At(C(E, F), s, B, M, q)
      PROVE  \E y \in At(C(E \cup {p}, F), s, B, M, q) : Does(a, op, x, y)
  <2> DEFINE y == P(C(E \cup {p}, F), x.saved, x.built, x.made, x.pending)
  <2>1. y \in At(C(E \cup {p}, F), s, B, M, q)
    BY <1>2 DEF At, P, C, Progress, Contexts
  <2>2. x.ctx.env = E /\ x.ctx.configured = F
    BY <1>2 DEF At, C
  <2>3. Does(a, op, x, y)
    BY <1>1, <2>2 DEF Does
  <2> QED
    BY <2>1, <2>3
<1>3. Leads(a, <<op>>, At(C(E, F), s, B, M, q), At(C(E \cup {p}, F), s, B, M, q))
  BY <1>1, <1>2, OneLeads
<1> QED
  BY <1>3 DEF op

LEMMA OnceLeads ==
  ASSUME NEW a, NEW p \in Package, NEW f \in BOOLEAN, NEW E \in SUBSET Package, NEW F, NEW s,
         NEW B \in SUBSET Package, NEW M, NEW q, ToSet(Deps(p)) \subseteq E \cap B
  PROVE  Leads(a, <<Op("once", p, f)>>, At(C(E, F), s, B, M, q), At(C(E, F), s, B \cup {p}, M, q))
<1> DEFINE op == Op("once", p, f)
<1>1. op \in Ops /\ op.op = "once" /\ op.obj = p
  <2>1. "once" \in OpNames /\ p \in Things
    BY ThingsAre DEF OpNames
  <2> QED
    BY <2>1, OpIs
<1> HIDE DEF op
<1>2. ASSUME NEW x \in At(C(E, F), s, B, M, q)
      PROVE  \E y \in At(C(E, F), s, B \cup {p}, M, q) : Does(a, op, x, y)
  <2> DEFINE y == P(x.ctx, x.saved, x.built \cup {p}, x.made, x.pending)
  <2>1. y \in At(C(E, F), s, B \cup {p}, M, q)
    BY <1>2 DEF At, P, Progress
  <2>2. ToSet(Deps(p)) \subseteq x.ctx.env \cap x.built
    BY <1>2 DEF At, C
  <2>3. Does(a, op, x, y)
    BY <1>1, <2>2 DEF Does
  <2> QED
    BY <2>1, <2>3
<1>3. Leads(a, <<op>>, At(C(E, F), s, B, M, q), At(C(E, F), s, B \cup {p}, M, q))
  BY <1>1, <1>2, OneLeads
<1> QED
  BY <1>3 DEF op

LEMMA ScopedLeads ==
  ASSUME NEW a, NEW ops, NEW c \in Contexts, NEW d, NEW s \in Seq(Contexts), NEW B, NEW M, NEW N, NEW D, NEW q,
         Leads(a, ops, At(c, <<c>> \o s, B, M, q), At(d, <<c>> \o s, D, N, q))
  PROVE  Leads(a, Scoped(ops), At(c, s, B, M, q), At(c, s, D, N, q))
<1> DEFINE save == Op("save", "", FALSE)
           restore == Op("restore", "", FALSE)
<1>1. save \in Ops /\ save.op = "save" /\ restore \in Ops /\ restore.op = "restore"
  <2>1. "save" \in OpNames /\ "restore" \in OpNames /\ "" \in Things /\ FALSE \in BOOLEAN
    BY ThingsAre DEF OpNames
  <2> QED
    BY <2>1, OpIs
<1>2. <<c>> \o s \in Seq(Contexts)
  BY OneElement, ConcatProperties
<1> HIDE DEF save, restore
<1>3. ASSUME NEW x \in At(c, s, B, M, q)
      PROVE  \E y \in At(c, <<c>> \o s, B, M, q) : Does(a, save, x, y)
  <2> DEFINE y == P(c, <<c>> \o s, x.built, x.made, x.pending)
  <2>1. y \in At(c, <<c>> \o s, B, M, q)
    BY <1>2, <1>3 DEF At, P, Progress
  <2>2. Does(a, save, x, y)
    BY <1>1, <1>3 DEF Does, At
  <2> QED
    BY <2>1, <2>2
<1>4. Leads(a, <<save>>, At(c, s, B, M, q), At(c, <<c>> \o s, B, M, q))
  BY <1>1, <1>3, OneLeads
<1>5. ASSUME NEW x \in At(d, <<c>> \o s, D, N, q)
      PROVE  \E y \in At(c, s, D, N, q) : Does(a, restore, x, y)
  <2> DEFINE y == P(c, s, x.built, x.made, x.pending)
  <2>1. y \in At(c, s, D, N, q) /\ y.ctx = c /\ y.saved = s
    BY <1>5 DEF At, P, Progress
  <2>2. Does(a, restore, x, y)
    BY <1>1, <1>5, <2>1 DEF Does, At
  <2> QED
    BY <2>1, <2>2
<1>6. Leads(a, <<restore>>, At(d, <<c>> \o s, D, N, q), At(c, s, D, N, q))
  BY <1>1, <1>5, OneLeads
<1>7. Leads(a, <<save>> \o ops, At(c, s, B, M, q), At(d, <<c>> \o s, D, N, q))
  BY <1>4, BothLead
<1>8. Leads(a, (<<save>> \o ops) \o <<restore>>, At(c, s, B, M, q), At(c, s, D, N, q))
  BY <1>6, <1>7, BothLead
<1> QED
  BY <1>8 DEF Scoped, save, restore

\* Each(objs, Do) in which Do leads from K[k - 1] to K[k].
LEMMA EachLeads ==
  ASSUME NEW a, NEW S, NEW objs \in Seq(S), NEW f, NEW K,
         \A k \in 1 .. Len(objs) : Leads(a, f[k], K[k - 1], K[k])
  PROVE  Leads(a, FlattenSeq([k \in DOMAIN objs |-> f[k]]), K[0], K[Len(objs)])
<1> DEFINE seqs == [k \in DOMAIN objs |-> f[k]]
<1>1. Len(objs) \in Nat /\ DOMAIN objs = 1 .. Len(objs)
  BY LenProperties
<1>2. seqs \in Seq(Seq(Ops)) /\ Len(seqs) = Len(objs)
  <2>1. \A k \in 1 .. Len(objs) : seqs[k] \in Seq(Ops)
    BY <1>1 DEF Leads
  <2>2. seqs = [k \in 1 .. Len(objs) |-> seqs[k]]
    BY <1>1
  <2> HIDE DEF seqs
  <2>3. seqs \in [1 .. Len(objs) -> Seq(Ops)]
    BY <2>1, <2>2
  <2> QED
    BY <1>1, <2>3, SeqDef, LenProperties
<1>3. \A k \in 1 .. Len(seqs) : Leads(a, seqs[k], K[k - 1], K[k])
  BY <1>1, <1>2
<1> HIDE DEF seqs
<1>4. Leads(a, FlattenSeq(seqs), K[0], K[Len(seqs)])
  BY <1>2, <1>3, AllLead
<1> QED
  BY <1>2, <1>4 DEF seqs

LEMMA LoadLeads ==
  ASSUME NEW a, NEW o \in Objects, NEW E \in SUBSET Package, NEW F \in Seq(Instance), NEW s, NEW B, NEW M, NEW q
  PROVE  Leads(a, load_deps(o), At(C(E, F), s, B, M, q), At(C(E \cup ToSet(Deps(o)), F), s, B, M, q))
<1> DEFINE d == Deps(o)
           D(k) == {d[l] : l \in 1 .. k}
           K == [k \in 0 .. Len(d) |-> At(C(E \cup D(k), F), s, B, M, q)]
           f == [k \in DOMAIN d |-> <<Op("env", d[k], FALSE)>>]
<1>1. d \in Seq(Package) /\ Len(d) \in Nat /\ DOMAIN d = 1 .. Len(d) /\ ToSet(d) = D(Len(d))
  BY DepsRight, LenProperties DEF ToSet
<1>2. ASSUME NEW k \in 1 .. Len(d) PROVE Leads(a, f[k], K[k - 1], K[k])
  <2>1. d[k] \in Package /\ k - 1 \in 0 .. Len(d) /\ k \in 0 .. Len(d) /\ k \in DOMAIN d
    BY <1>1, ElementOfSeq
  <2>2. E \cup D(k - 1) \in SUBSET Package
    <3>1. \A l \in 1 .. k - 1 : l \in 1 .. Len(d)
      BY <1>1
    <3> QED
      BY <1>1, <3>1, ElementOfSeq
  <2>3. (E \cup D(k - 1)) \cup {d[k]} = E \cup D(k)
    <3>1. 1 .. k = (1 .. k - 1) \cup {k}
      BY <1>1
    <3> QED
      BY <3>1
  <2> HIDE DEF d, D
  <2>4. Leads(a, <<Op("env", d[k], FALSE)>>, At(C(E \cup D(k - 1), F), s, B, M, q),
                                             At(C((E \cup D(k - 1)) \cup {d[k]}, F), s, B, M, q))
    BY <2>1, <2>2, EnvLeads
  <2> QED
    BY <2>1, <2>3, <2>4
<1>3. K[0] = At(C(E, F), s, B, M, q) /\ K[Len(d)] = At(C(E \cup ToSet(d), F), s, B, M, q)
  <2>1. E \cup D(0) = E
    OBVIOUS
  <2> HIDE DEF D, d
  <2>2. 0 \in 0 .. Len(d) /\ Len(d) \in 0 .. Len(d)
    BY <1>1
  <2>3. K[0] = At(C(E \cup D(0), F), s, B, M, q) /\ K[Len(d)] = At(C(E \cup D(Len(d)), F), s, B, M, q)
    BY <2>2
  <2> QED
    BY <1>1, <2>1, <2>3
<1>4. load_deps(o) = FlattenSeq([k \in DOMAIN d |-> f[k]])
  <2>1. [k \in DOMAIN d |-> f[k]] = [k \in DOMAIN d |-> <<Op("env", d[k], FALSE)>>]
    OBVIOUS
  <2> QED
    BY <2>1 DEF load_deps, Each
<1> HIDE DEF d, f, K
<1>5. Leads(a, FlattenSeq([k \in DOMAIN d |-> f[k]]), K[0], K[Len(d)])
  BY <1>1, <1>2, EachLeads
<1> QED
  BY <1>3, <1>4, <1>5 DEF d

LEMMA TwoElements == \A u, v : <<u>> \o <<v>> = <<u, v>>
<1> SUFFICES ASSUME NEW u, NEW v PROVE <<u>> \o <<v>> = <<u, v>>
  OBVIOUS
<1>1. <<u>> \in Seq({u, v}) /\ <<v>> \in Seq({u, v}) /\ <<u, v>> \in Seq({u, v})
  OBVIOUS
<1>2. Len(<<u>>) = 1 /\ Len(<<v>>) = 1 /\ Len(<<u, v>>) = 2 /\ <<u>>[1] = u /\ <<v>>[1] = v
  OBVIOUS
<1>3. <<u, v>>[1] = u /\ <<u, v>>[2] = v
  OBVIOUS
<1> DEFINE w == <<u>> \o <<v>>
           z == <<u, v>>
<1>4. w \in Seq({u, v}) /\ Len(w) = 2 /\ w[1] = u /\ w[2] = v
  <2> DEFINE x == <<u>>
             y == <<v>>
  <2> HIDE DEF x, y, z
  <2>1. /\ x \o y \in Seq({u, v}) /\ Len(x \o y) = Len(x) + Len(y)
        /\ \A i \in 1 .. Len(x) + Len(y) : (x \o y)[i] = IF i <= Len(x) THEN x[i] ELSE y[i - Len(x)]
    BY <1>1, ConcatProperties DEF x, y
  <2>2. Len(x) = 1 /\ Len(y) = 1 /\ x[1] = u /\ y[1] = v
    BY <1>2 DEF x, y
  <2>3. (x \o y)[1] = u /\ (x \o y)[2] = v /\ Len(x \o y) = 2
    BY <2>1, <2>2
  <2> QED
    BY <2>1, <2>3 DEF x, y
<1>5. z \in Seq({u, v}) /\ Len(z) = 2 /\ z[1] = u /\ z[2] = v
  BY <1>1, <1>2, <1>3
<1> HIDE DEF w, z
<1>6. \A i \in 1 .. 2 : w[i] = z[i]
  <2>1. \A i \in 1 .. 2 : i = 1 \/ i = 2
    OBVIOUS
  <2> QED
    BY <1>4, <1>5, <2>1
<1>7. w = z
  BY <1>4, <1>5, <1>6, SeqEqual
<1> QED
  BY <1>7 DEF w, z

\* The packages an object needs get built, each after those it needs itself.
LEMMA BuildDepsLeads ==
  ASSUME NEW a \in Commands, NEW o \in Objects, NEW E \in SUBSET Package, NEW F \in Seq(Instance), NEW s,
         NEW B \in SUBSET Package, NEW M, NEW q
  PROVE  Leads(a, build_deps_once(a, o), At(C(E, F), s, B, M, q),
               At(C(E \cup ToSet(Deps(o)), F), s, B \cup ToSet(Deps(o)), M, q))
<1> DEFINE d == Deps(o)
           D(k) == {d[l] : l \in 1 .. k}
           K == [k \in 0 .. Len(d) |-> At(C(E \cup D(k), F), s, B \cup D(k), M, q)]
           f == [k \in DOMAIN d |-> <<Op("once", d[k], Forced(a, d[k])), Op("env", d[k], FALSE)>>]
<1>1. d \in Seq(Package) /\ Len(d) \in Nat /\ DOMAIN d = 1 .. Len(d) /\ ToSet(d) = D(Len(d))
  BY DepsRight, LenProperties DEF ToSet
<1>2. ASSUME NEW k \in 1 .. Len(d) PROVE Leads(a, f[k], K[k - 1], K[k])
  <2> DEFINE E1 == E \cup D(k - 1)
             B1 == B \cup D(k - 1)
  <2>1. d[k] \in Package /\ k - 1 \in 0 .. Len(d) /\ k \in 0 .. Len(d) /\ k \in DOMAIN d
    BY <1>1, ElementOfSeq
  <2>2. E1 \in SUBSET Package /\ B1 \in SUBSET Package
    <3>1. \A l \in 1 .. k - 1 : l \in 1 .. Len(d)
      BY <1>1
    <3> QED
      BY <1>1, <3>1, ElementOfSeq
  <2>3. E1 \cup {d[k]} = E \cup D(k) /\ B1 \cup {d[k]} = B \cup D(k)
    <3>1. 1 .. k = (1 .. k - 1) \cup {k}
      BY <1>1
    <3> QED
      BY <3>1
  <2>4. ToSet(Deps(d[k])) \subseteq E1 \cap B1
    <3>1. ToSet(Deps(d[k])) \subseteq D(k - 1)
      BY DepsInOrder
    <3> HIDE DEF D
    <3> QED
      BY <3>1
  <2>5. Forced(a, d[k]) \in BOOLEAN
    <3>1. a.force_rebuild_deps \in BOOLEAN
      BY CommandsAssumption
    <3> QED
      BY <3>1 DEF Forced
  <2>6. K[k - 1] = At(C(E1, F), s, B1, M, q) /\ K[k] = At(C(E \cup D(k), F), s, B \cup D(k), M, q)
    BY <2>1
  <2>7. f[k] = <<Op("once", d[k], Forced(a, d[k])), Op("env", d[k], FALSE)>>
    BY <2>1
  <2> HIDE DEF d, D, E1, B1, f, K
  <2>8. Leads(a, <<Op("once", d[k], Forced(a, d[k]))>>, At(C(E1, F), s, B1, M, q),
                 At(C(E1, F), s, B1 \cup {d[k]}, M, q))
    BY <2>1, <2>2, <2>4, <2>5, OnceLeads
  <2>9. Leads(a, <<Op("env", d[k], FALSE)>>, At(C(E1, F), s, B1 \cup {d[k]}, M, q),
                 At(C(E1 \cup {d[k]}, F), s, B1 \cup {d[k]}, M, q))
    BY <2>1, <2>2, EnvLeads
  <2>10. Leads(a, <<Op("once", d[k], Forced(a, d[k]))>> \o <<Op("env", d[k], FALSE)>>,
                  At(C(E1, F), s, B1, M, q), At(C(E1 \cup {d[k]}, F), s, B1 \cup {d[k]}, M, q))
    BY <2>8, <2>9, BothLead
  <2>11. <<Op("once", d[k], Forced(a, d[k]))>> \o <<Op("env", d[k], FALSE)>>
           = <<Op("once", d[k], Forced(a, d[k])), Op("env", d[k], FALSE)>>
    BY TwoElements
  <2> QED
    BY <2>3, <2>6, <2>7, <2>10, <2>11
<1>3. /\ K[0] = At(C(E, F), s, B, M, q)
      /\ K[Len(d)] = At(C(E \cup ToSet(d), F), s, B \cup ToSet(d), M, q)
  <2>1. E \cup D(0) = E /\ B \cup D(0) = B
    OBVIOUS
  <2> HIDE DEF D, d
  <2>2. 0 \in 0 .. Len(d) /\ Len(d) \in 0 .. Len(d)
    BY <1>1
  <2>3. /\ K[0] = At(C(E \cup D(0), F), s, B \cup D(0), M, q)
        /\ K[Len(d)] = At(C(E \cup D(Len(d)), F), s, B \cup D(Len(d)), M, q)
    BY <2>2
  <2> QED
    BY <1>1, <2>1, <2>3
<1>4. build_deps_once(a, o) = FlattenSeq([k \in DOMAIN d |-> f[k]])
  <2>1. [k \in DOMAIN d |-> f[k]]
          = [k \in DOMAIN d |-> <<Op("once", d[k], Forced(a, d[k])), Op("env", d[k], FALSE)>>]
    OBVIOUS
  <2> QED
    BY <2>1 DEF build_deps_once, Each
<1> HIDE DEF d, f, K
<1>5. Leads(a, FlattenSeq([k \in DOMAIN d |-> f[k]]), K[0], K[Len(d)])
  BY <1>1, <1>2, EachLeads
<1> QED
  BY <1>3, <1>4, <1>5 DEF d

LEMMA ConfigureLeads ==
  ASSUME NEW a, NEW i \in Instance, NEW E \in SUBSET Package, NEW F \in Seq(Instance), NEW s, NEW B, NEW M, NEW q
  PROVE  Leads(a, <<Op("configure", i, FALSE)>>, At(C(E, F), s, B, M, q), At(C(E, Append(F, i)), s, B, M, q))
<1> DEFINE op == Op("configure", i, FALSE)
<1>1. op \in Ops /\ op.op = "configure" /\ op.obj = i
  <2>1. "configure" \in OpNames /\ i \in Things /\ FALSE \in BOOLEAN
    BY ThingsAre DEF OpNames
  <2> QED
    BY <2>1, OpIs
<1> HIDE DEF op
<1>2. Append(F, i) \in Seq(Instance)
  BY AppendProperties
<1>3. ASSUME NEW x \in At(C(E, F), s, B, M, q)
      PROVE  \E y \in At(C(E, Append(F, i)), s, B, M, q) : Does(a, op, x, y)
  <2> DEFINE y == P(C(E, Append(F, i)), x.saved, x.built, x.made, x.pending)
  <2>1. y \in At(C(E, Append(F, i)), s, B, M, q)
    BY <1>2, <1>3 DEF At, P, C, Progress, Contexts
  <2>2. x.ctx.env = E /\ x.ctx.configured = F
    BY <1>3 DEF At, C
  <2>3. Does(a, op, x, y)
    BY <1>1, <2>2 DEF Does
  <2> QED
    BY <2>1, <2>3
<1>4. Leads(a, <<op>>, At(C(E, F), s, B, M, q), At(C(E, Append(F, i)), s, B, M, q))
  BY <1>1, <1>3, OneLeads
<1> QED
  BY <1>4 DEF op

\* Whether a build makes targets and not only what they need.
Makes(a) == ~a.deps_only /\ ~a.dry_run /\ ~a.relink

LEMMA MakeLeads ==
  ASSUME NEW a \in Commands, NEW t \in Target, NEW i \in Instance, NEW s, NEW B, NEW M
  PROVE  Leads(a, BuildAndLink(a, <<t, i>>), At(Right(<<t, i>>), s, B, M, TRUE),
               At(Right(<<t, i>>), s, B, M \cup (IF Makes(a) THEN {<<t, i>>} ELSE {}), TRUE))
<1> DEFINE b == <<t, i>>
           c == Right(b)
           build == Op("build", b, FALSE)
           hooks == Op("hooks", b, FALSE)
<1>1. b \in Target \X Instance
  OBVIOUS
<1>2. /\ build \in Ops /\ build.op = "build" /\ build.obj = b
      /\ hooks \in Ops /\ hooks.op = "hooks" /\ hooks.obj = b
  <2> HIDE DEF b
  <2>1. "build" \in OpNames /\ "hooks" \in OpNames /\ b \in Things /\ FALSE \in BOOLEAN
    BY <1>1, ThingsAre DEF OpNames
  <2> QED
    BY <2>1, OpIs
<1>3. a.deps_only \in BOOLEAN /\ a.dry_run \in BOOLEAN /\ a.relink \in BOOLEAN
  BY CommandsAssumption
<1> HIDE DEF b
<1>4. CASE a.deps_only \/ a.dry_run
  <2>1. BuildAndLink(a, b) = <<>> /\ ~Makes(a)
    BY <1>4 DEF BuildAndLink, Makes
  <2>2. Leads(a, <<>>, At(c, s, B, M, TRUE), At(c, s, B, M, TRUE))
    BY NothingLeads
  <2> QED
    BY <2>1, <2>2 DEF b
<1>5. CASE ~(a.deps_only \/ a.dry_run)
  <2> HIDE DEF c, build, hooks
  <2>1. ASSUME NEW N, a.relink \/ b \in N
        PROVE  Leads(a, <<hooks>>, At(c, s, B, N, TRUE), At(c, s, B, N, TRUE))
    <3>1. ASSUME NEW x \in At(c, s, B, N, TRUE)
          PROVE  \E y \in At(c, s, B, N, TRUE) : Does(a, hooks, x, y)
      <4>1. x.ctx = Right(b) /\ (~a.relink => b \in x.made)
        BY <2>1, <3>1 DEF At, c
      <4>2. Does(a, hooks, x, x)
        BY <1>1, <1>2, <4>1 DEF Does
      <4> QED
        BY <3>1, <4>2
    <3> QED
      BY <1>2, <3>1, OneLeads
  <2>2. CASE a.relink
    <3>1. BuildAndLink(a, b) = <<>> \o <<hooks>> /\ ~Makes(a)
      BY <1>5, <2>2 DEF BuildAndLink, Makes, hooks
    <3>2. <<>> \o <<hooks>> = <<hooks>>
      OBVIOUS
    <3>3. Leads(a, <<hooks>>, At(c, s, B, M, TRUE), At(c, s, B, M, TRUE))
      BY <2>1, <2>2
    <3>4. M \cup (IF Makes(a) THEN {b} ELSE {}) = M
      BY <3>1
    <3> QED
      BY <3>1, <3>2, <3>3, <3>4 DEF b, c
  <2>3. CASE ~a.relink
    <3> DEFINE N == M \cup {b}
    <3>1. BuildAndLink(a, b) = <<build>> \o <<hooks>> /\ Makes(a)
      BY <1>5, <2>3 DEF BuildAndLink, Makes, hooks, build
    <3>2. ASSUME NEW x \in At(c, s, B, M, TRUE)
          PROVE  \E y \in At(c, s, B, N, TRUE) : Does(a, build, x, y)
      <4> DEFINE y == P(x.ctx, x.saved, x.built, x.made \cup {b}, x.pending)
      <4>1. y \in At(c, s, B, N, TRUE)
        BY <1>1, <3>2 DEF At, P, Progress
      <4>2. x.ctx = Right(b) /\ x.pending
        BY <3>2 DEF At, c
      <4>3. Does(a, build, x, y)
        BY <1>1, <1>2, <4>2 DEF Does
      <4> QED
        BY <4>1, <4>3
    <3> HIDE DEF N
    <3>3. Leads(a, <<build>>, At(c, s, B, M, TRUE), At(c, s, B, N, TRUE))
      BY <1>2, <3>2, OneLeads
    <3>4. Leads(a, <<hooks>>, At(c, s, B, N, TRUE), At(c, s, B, N, TRUE))
      BY <2>1 DEF N
    <3>5. Leads(a, <<build>> \o <<hooks>>, At(c, s, B, M, TRUE), At(c, s, B, N, TRUE))
      BY <3>3, <3>4, BothLead
    <3>6. M \cup (IF Makes(a) THEN {b} ELSE {}) = N
      BY <3>1 DEF N
    <3> QED
      BY <3>1, <3>5, <3>6 DEF b, c
  <2> QED
    BY <2>2, <2>3
<1> QED
  BY <1>4, <1>5

\* What is made of the targets ts and the instances is.
Made(a, ts, is) == IF Makes(a) THEN ts \X is ELSE {}

LEMMA CommandIs ==
  ASSUME NEW a \in Commands
  PROVE  /\ a.targets \in Seq(Target) /\ Len(a.targets) \in Nat /\ DOMAIN a.targets = 1 .. Len(a.targets)
         /\ \A k \in 1 .. Len(a.targets) : a.targets[k] \in Target /\ a.targets[k] \in Objects
         /\ a.instances \in Seq(Instance) /\ Len(a.instances) \in Nat
         /\ DOMAIN a.instances = 1 .. Len(a.instances)
         /\ \A k \in 1 .. Len(a.instances) : a.instances[k] \in Instance /\ a.instances[k] \in Objects
         /\ a.packages \in Seq(Package)
         /\ ToSet(a.targets) = {a.targets[k] : k \in 1 .. Len(a.targets)}
         /\ ToSet(a.instances) = {a.instances[k] : k \in 1 .. Len(a.instances)}
<1>1. a.targets \in Seq(Target) /\ a.instances \in Seq(Instance) /\ a.packages \in Seq(Package)
  BY CommandsAssumption
<1>2. Package \cup Target \cup Instance = Objects
  BY SetupAssumption DEF Objects
<1> QED
  BY <1>1, <1>2, LenProperties, ElementOfSeq DEF ToSet

LEMMA DepsAreContexts ==
  /\ Fresh = C({}, <<>>) /\ Fresh \in Contexts
  /\ \A o \in Objects : ToSet(Deps(o)) \in SUBSET Package
  /\ \A i \in Instance : Append(<<>>, i) = <<i>> /\ <<i>> \in Seq(Instance)
<1>1. ASSUME NEW o \in Objects PROVE ToSet(Deps(o)) \in SUBSET Package
  BY DepsRight, LenProperties, ElementOfSeq DEF ToSet
<1>2. Fresh = C({}, <<>>) /\ Fresh \in Contexts
  BY EmptySeq DEF Fresh, C, Contexts
<1> QED
  BY <1>1, <1>2

LEMMA BuildTargetsLead ==
  ASSUME NEW a \in Commands, NEW i \in Instance, NEW s \in Seq(Contexts), NEW B \in SUBSET Package, NEW M
  PROVE  Leads(a, BuildTargets(a, i), At(C(ToSet(Deps(i)), <<i>>), s, B, M, TRUE),
               At(C(ToSet(Deps(i)), <<i>>), s, B, M \cup Made(a, ToSet(a.targets), {i}), TRUE))
<1> DEFINE ts == a.targets
           E == ToSet(Deps(i))
           c == C(E, <<i>>)
           Ts(k) == {ts[l] : l \in 1 .. k}
           K == [k \in 0 .. Len(ts) |-> At(c, s, B, M \cup Made(a, Ts(k), {i}), TRUE)]
           f == [k \in DOMAIN ts |-> Scoped(build_deps_once(a, ts[k]) \o BuildAndLink(a, <<ts[k], i>>))]
<1>1. /\ ts \in Seq(Target) /\ Len(ts) \in Nat /\ DOMAIN ts = 1 .. Len(ts)
      /\ \A k \in 1 .. Len(ts) : ts[k] \in Target /\ ts[k] \in Objects
      /\ ToSet(ts) = Ts(Len(ts))
  BY CommandIs
<1>2. i \in Objects /\ E \in SUBSET Package /\ <<i>> \in Seq(Instance)
  BY SetupAssumption, DepsAreContexts DEF Objects
<1>3. c \in Contexts /\ <<c>> \o s \in Seq(Contexts)
  <2>1. c \in Contexts
    BY <1>2 DEF C, Contexts
  <2> HIDE DEF c
  <2> QED
    BY <2>1, OneElement, ConcatProperties
<1>4. ASSUME NEW k \in 1 .. Len(ts) PROVE Leads(a, f[k], K[k - 1], K[k])
  <2> DEFINE t == ts[k]
             N == M \cup Made(a, Ts(k - 1), {i})
             L == N \cup (IF Makes(a) THEN {<<t, i>>} ELSE {})
             D == ToSet(Deps(t))
             z == <<c>> \o s
  <2>1. t \in Target /\ t \in Objects /\ k \in DOMAIN ts /\ k \in 0 .. Len(ts) /\ k - 1 \in 0 .. Len(ts)
    BY <1>1
  <2>2. L = M \cup Made(a, Ts(k), {i})
    <3>1. Ts(k) = Ts(k - 1) \cup {t}
      <4>1. 1 .. k = (1 .. k - 1) \cup {k}
        BY <1>1
      <4> QED
        BY <4>1
    <3> HIDE DEF Ts, t
    <3> QED
      BY <3>1 DEF Made
  <2>3. /\ f[k] = Scoped(build_deps_once(a, t) \o BuildAndLink(a, <<t, i>>))
        /\ K[k - 1] = At(c, s, B, N, TRUE) /\ K[k] = At(c, s, B, M \cup Made(a, Ts(k), {i}), TRUE)
    BY <2>1
  <2> HIDE DEF t, ts, f, K, Ts, E
  <2>4. C(E \cup D, <<i>>) = Right(<<t, i>>)
    <3>1. E \cup D = ToSet(Deps(<<t, i>>[1])) \cup ToSet(Deps(<<t, i>>[2])) /\ <<t, i>>[2] = i
      BY DEF E
    <3> QED
      BY <3>1 DEF Right
  <2>5. z \in Seq(Contexts)
    BY <1>3
  <2> HIDE DEF c, z, N, L, D
  <2>6. Leads(a, build_deps_once(a, t), At(c, z, B, N, TRUE), At(C(E \cup D, <<i>>), z, B \cup D, N, TRUE))
    BY <1>2, <2>1, BuildDepsLeads DEF c, D
  <2>7. Leads(a, BuildAndLink(a, <<t, i>>), At(C(E \cup D, <<i>>), z, B \cup D, N, TRUE),
                 At(C(E \cup D, <<i>>), z, B \cup D, L, TRUE))
    BY <2>1, <2>4, MakeLeads DEF L
  <2>8. Leads(a, build_deps_once(a, t) \o BuildAndLink(a, <<t, i>>), At(c, z, B, N, TRUE),
                 At(C(E \cup D, <<i>>), z, B \cup D, L, TRUE))
    BY <2>6, <2>7, BothLead
  <2>9. Leads(a, f[k], At(c, s, B, N, TRUE), At(c, s, B \cup D, L, TRUE))
    BY <1>3, <2>3, <2>8, ScopedLeads DEF z
  <2>10. At(c, s, B \cup D, L, TRUE) \subseteq At(c, s, B, L, TRUE)
    BY DEF At
  <2>11. Leads(a, f[k], At(c, s, B, N, TRUE), At(c, s, B, L, TRUE))
    <3> DEFINE X == At(c, s, B, N, TRUE)
               Y == At(c, s, B \cup D, L, TRUE)
               Z == At(c, s, B, L, TRUE)
               w == f[k]
    <3>1. Leads(a, w, X, Y) /\ X \subseteq X /\ Y \subseteq Z
      BY <2>9, <2>10
    <3> HIDE DEF X, Y, Z, w
    <3>2. Leads(a, w, X, Z)
      BY <3>1, LeadsFurther
    <3> QED
      BY <3>2 DEF X, Z, w
  <2> QED
    BY <2>2, <2>3, <2>11
<1>5. K[0] = At(c, s, B, M, TRUE) /\ K[Len(ts)] = At(c, s, B, M \cup Made(a, ToSet(ts), {i}), TRUE)
  <2>1. Made(a, Ts(0), {i}) = {}
    BY DEF Made
  <2> HIDE DEF Ts, ts, c
  <2>2. 0 \in 0 .. Len(ts) /\ Len(ts) \in 0 .. Len(ts)
    BY <1>1
  <2>3. /\ K[0] = At(c, s, B, M \cup Made(a, Ts(0), {i}), TRUE)
        /\ K[Len(ts)] = At(c, s, B, M \cup Made(a, Ts(Len(ts)), {i}), TRUE)
    BY <2>2
  <2> QED
    BY <1>1, <2>1, <2>3
<1>6. BuildTargets(a, i) = FlattenSeq([k \in DOMAIN ts |-> f[k]])
  <2>1. [k \in DOMAIN ts |-> f[k]]
          = [k \in DOMAIN ts |-> Scoped(build_deps_once(a, ts[k]) \o BuildAndLink(a, <<ts[k], i>>))]
    OBVIOUS
  <2> QED
    BY <2>1 DEF BuildTargets, Each
<1> HIDE DEF ts, f, K
<1>7. Leads(a, FlattenSeq([k \in DOMAIN ts |-> f[k]]), K[0], K[Len(ts)])
  BY <1>1, <1>4, EachLeads
<1> QED
  BY <1>5, <1>6, <1>7 DEF ts

LEMMA BuildInstancesLead ==
  ASSUME NEW a \in Commands
  PROVE  Leads(a, BuildInstances(a), At(Fresh, <<>>, {}, {}, TRUE),
               At(Fresh, <<>>, {}, Made(a, ToSet(a.targets), ToSet(a.instances)), TRUE))
<1> DEFINE is == a.instances
           ts == ToSet(a.targets)
           Is(k) == {is[l] : l \in 1 .. k}
           K == [k \in 0 .. Len(is) |-> At(Fresh, <<>>, {}, Made(a, ts, Is(k)), TRUE)]
           g(i) == (<<Op("configure", i, FALSE)>> \o build_deps_once(a, i)) \o BuildTargets(a, i)
           f == [k \in DOMAIN is |-> Scoped(g(is[k]))]
<1>1. /\ is \in Seq(Instance) /\ Len(is) \in Nat /\ DOMAIN is = 1 .. Len(is)
      /\ \A k \in 1 .. Len(is) : is[k] \in Instance /\ is[k] \in Objects
      /\ ToSet(is) = Is(Len(is))
  BY CommandIs
<1>2. /\ Fresh = C({}, <<>>) /\ Fresh \in Contexts /\ <<>> \in Seq(Contexts) /\ <<>> \in Seq(Instance)
      /\ <<Fresh>> \o <<>> \in Seq(Contexts)
  BY DepsAreContexts, EmptySeq, OneElement, ConcatProperties
<1>3. ASSUME NEW k \in 1 .. Len(is) PROVE Leads(a, f[k], K[k - 1], K[k])
  <2> DEFINE i == is[k]
             N == Made(a, ts, Is(k - 1))
             L == N \cup Made(a, ts, {i})
             D == ToSet(Deps(i))
             z == <<Fresh>> \o <<>>
  <2>1. i \in Instance /\ i \in Objects /\ k \in DOMAIN is /\ k \in 0 .. Len(is) /\ k - 1 \in 0 .. Len(is)
    BY <1>1
  <2>2. L = Made(a, ts, Is(k))
    <3>1. Is(k) = Is(k - 1) \cup {i}
      <4>1. 1 .. k = (1 .. k - 1) \cup {k}
        BY <1>1
      <4> QED
        BY <4>1
    <3> HIDE DEF Is, i, ts
    <3> QED
      BY <3>1 DEF Made
  <2>3. /\ f[k] = Scoped(g(i)) /\ K[k - 1] = At(Fresh, <<>>, {}, N, TRUE)
        /\ K[k] = At(Fresh, <<>>, {}, Made(a, ts, Is(k)), TRUE)
    BY <2>1
  <2> HIDE DEF i, is, f, K, Is, ts
  <2>4. /\ D \in SUBSET Package /\ {} \cup D = D /\ {} \in SUBSET Package
        /\ Append(<<>>, i) = <<i>> /\ <<i>> \in Seq(Instance) /\ z \in Seq(Contexts)
    BY <1>2, <2>1, DepsAreContexts
  <2> HIDE DEF z, N, L, D
  <2>5. Leads(a, <<Op("configure", i, FALSE)>>, At(C({}, <<>>), z, {}, N, TRUE),
                 At(C({}, Append(<<>>, i)), z, {}, N, TRUE))
    BY <1>2, <2>1, <2>4, ConfigureLeads
  <2>6. Leads(a, build_deps_once(a, i), At(C({}, <<i>>), z, {}, N, TRUE),
                 At(C({} \cup D, <<i>>), z, {} \cup D, N, TRUE))
    BY <2>1, <2>4, BuildDepsLeads DEF D
  <2>7. Leads(a, BuildTargets(a, i), At(C(D, <<i>>), z, D, N, TRUE), At(C(D, <<i>>), z, D, L, TRUE))
    BY <2>1, <2>4, BuildTargetsLead DEF D, L, ts
  <2>8. Leads(a, <<Op("configure", i, FALSE)>> \o build_deps_once(a, i), At(Fresh, z, {}, N, TRUE),
                 At(C(D, <<i>>), z, D, N, TRUE))
    BY <1>2, <2>4, <2>5, <2>6, BothLead
  <2>9. Leads(a, g(i), At(Fresh, z, {}, N, TRUE), At(C(D, <<i>>), z, D, L, TRUE))
    BY <2>7, <2>8, BothLead
  <2> HIDE DEF g
  <2>10. Leads(a, f[k], At(Fresh, <<>>, {}, N, TRUE), At(Fresh, <<>>, D, L, TRUE))
    BY <1>2, <2>3, <2>9, ScopedLeads DEF z
  <2>11. At(Fresh, <<>>, D, L, TRUE) \subseteq At(Fresh, <<>>, {}, L, TRUE)
    BY DEF At
  <2>12. Leads(a, f[k], At(Fresh, <<>>, {}, N, TRUE), At(Fresh, <<>>, {}, L, TRUE))
    BY <2>10, <2>11, LeadsFurther
  <2> QED
    BY <2>2, <2>3, <2>12
<1>4. /\ K[0] = At(Fresh, <<>>, {}, {}, TRUE)
      /\ K[Len(is)] = At(Fresh, <<>>, {}, Made(a, ts, ToSet(is)), TRUE)
  <2>1. Made(a, ts, Is(0)) = {}
    <3>1. Is(0) = {}
      OBVIOUS
    <3> HIDE DEF Is, ts
    <3> QED
      BY <3>1 DEF Made
  <2> HIDE DEF Is, is, ts
  <2>2. 0 \in 0 .. Len(is) /\ Len(is) \in 0 .. Len(is)
    BY <1>1
  <2>3. /\ K[0] = At(Fresh, <<>>, {}, Made(a, ts, Is(0)), TRUE)
        /\ K[Len(is)] = At(Fresh, <<>>, {}, Made(a, ts, Is(Len(is))), TRUE)
    BY <2>2
  <2> QED
    BY <1>1, <2>1, <2>3
<1>5. BuildInstances(a) = FlattenSeq([k \in DOMAIN is |-> f[k]])
  <2>1. [k \in DOMAIN is |-> f[k]]
          = [k \in DOMAIN is |-> Scoped((<<Op("configure", is[k], FALSE)>> \o build_deps_once(a, is[k]))
                                          \o BuildTargets(a, is[k]))]
    OBVIOUS
  <2> QED
    BY <2>1 DEF BuildInstances, Each
<1> HIDE DEF is, f, K, ts
<1>6. Leads(a, FlattenSeq([k \in DOMAIN is |-> f[k]]), K[0], K[Len(is)])
  BY <1>1, <1>3, EachLeads
<1> QED
  BY <1>4, <1>5, <1>6 DEF is, ts

Start == P(Fresh, <<>>, {}, {}, TRUE)

\* Where a command may end: a build has made its targets, and the pool is done.
Ends(a) == {x \in Progress : a.command = "build" /\ Makes(a) =>
                              ToSet(a.targets) \X ToSet(a.instances) \subseteq x.made /\ ~x.pending}

\* Operations that leave everything as it is.
LEMMA StaysLead ==
  ASSUME NEW a, NEW name, NEW o \in Things, NEW f \in BOOLEAN, NEW X,
         \/ name \in {"fetch", "exec-hook"}
         \/ name = "clean" /\ \A x \in X : x.made = {}
  PROVE  Leads(a, <<Op(name, o, f)>>, X, X)
<1> DEFINE op == Op(name, o, f)
<1>1. op \in Ops /\ op.op = name
  <2>1. name \in OpNames
    BY DEF OpNames
  <2> QED
    BY <2>1, OpIs
<1> HIDE DEF op
<1>2. \A x \in X : Does(a, op, x, x)
  BY <1>1 DEF Does
<1>3. Leads(a, <<op>>, X, X)
  BY <1>1, <1>2, OneLeads
<1> QED
  BY <1>3 DEF op

\* A number of lists of operations after each of which X holds again.
LEMMA EachStays ==
  ASSUME NEW a, NEW S, NEW objs \in Seq(S), NEW f, NEW X,
         \A k \in 1 .. Len(objs) : Leads(a, f[k], X, X)
  PROVE  Leads(a, FlattenSeq([k \in DOMAIN objs |-> f[k]]), X, X)
<1> DEFINE K == [k \in 0 .. Len(objs) |-> X]
<1>1. Len(objs) \in Nat
  BY LenProperties
<1>2. K[0] = X /\ K[Len(objs)] = X /\ \A k \in 1 .. Len(objs) : K[k - 1] = X /\ K[k] = X
  BY <1>1
<1> HIDE DEF K
<1>3. \A k \in 1 .. Len(objs) : Leads(a, f[k], K[k - 1], K[k])
  BY <1>2
<1>4. Leads(a, FlattenSeq([k \in DOMAIN objs |-> f[k]]), K[0], K[Len(objs)])
  BY <1>3, EachLeads
<1> QED
  BY <1>2, <1>4

\* The same, for lists that are got from the elements of objs.
LEMMA OfEachStays ==
  ASSUME NEW a, NEW S, NEW objs \in Seq(S), NEW name, NEW b \in BOOLEAN, NEW X, S \subseteq Things,
         \/ name = "fetch"
         \/ name = "clean" /\ \A x \in X : x.made = {}
  PROVE  Leads(a, FlattenSeq([k \in DOMAIN objs |-> <<Op(name, objs[k], b)>>]), X, X)
<1> DEFINE f == [k \in DOMAIN objs |-> <<Op(name, objs[k], b)>>]
<1>1. \A k \in 1 .. Len(objs) : objs[k] \in Things /\ k \in DOMAIN objs
  BY LenProperties, ElementOfSeq
<1>2. ASSUME NEW k \in 1 .. Len(objs) PROVE Leads(a, f[k], X, X)
  <2>1. Leads(a, <<Op(name, objs[k], b)>>, X, X)
    BY <1>1, StaysLead
  <2> QED
    BY <1>1, <2>1
<1>3. [k \in DOMAIN objs |-> f[k]] = [k \in DOMAIN objs |-> <<Op(name, objs[k], b)>>]
  OBVIOUS
<1> HIDE DEF f
<1>4. Leads(a, FlattenSeq([k \in DOMAIN objs |-> f[k]]), X, X)
  BY <1>2, EachStays
<1> QED
  BY <1>3, <1>4

LEMMA CleanLeads ==
  ASSUME NEW a \in Commands
  PROVE  Leads(a, CleanAll(a), {Start}, {Start})
<1>1. a.packages \o a.targets \in Seq(Things)
  <2>1. a.packages \in Seq(Things) /\ a.targets \in Seq(Things)
    BY CommandIs, ThingsAre, SeqMonotonic
  <2> QED
    BY <2>1, ConcatProperties
<1>2. FALSE \in BOOLEAN /\ \A x \in {Start} : x.made = {}
  BY DEF Start, P
<1> DEFINE objs == a.packages \o a.targets
<1> HIDE DEF objs
<1>3. Leads(a, FlattenSeq([k \in DOMAIN objs |-> <<Op("clean", objs[k], FALSE)>>]), {Start}, {Start})
  BY <1>1, <1>2, OfEachStays DEF objs
<1> QED
  BY <1>3 DEF CleanAll, Each, objs

LEMMA FetchLeads ==
  ASSUME NEW a \in Commands, NEW deps \in Seq(Listed), NEW separate \in Seq(Package), NEW X
  PROVE  Leads(a, FetchAll(a, deps, separate), X, X)
<1>1. /\ Listed \subseteq Things /\ Package \subseteq Things /\ Target \subseteq Things
      /\ a.force_rebuild_deps \in BOOLEAN /\ a.deps_only \in BOOLEAN /\ TRUE \in BOOLEAN
      /\ a.targets \in Seq(Target)
  BY CommandsAssumption, ThingsAre DEF Things
<1>2. Leads(a, FlattenSeq([k \in DOMAIN deps |-> <<Op("fetch", deps[k], a.force_rebuild_deps)>>]), X, X)
  BY <1>1, OfEachStays
<1>3. Leads(a, FlattenSeq([k \in DOMAIN separate |-> <<Op("fetch", separate[k], TRUE)>>]), X, X)
  BY <1>1, OfEachStays
<1>4. Leads(a, IF a.deps_only THEN <<>> ELSE Each(a.targets, LAMBDA t : <<Op("fetch", t, TRUE)>>), X, X)
  <2> DEFINE ts == a.targets
  <2>1. Leads(a, FlattenSeq([k \in DOMAIN ts |-> <<Op("fetch", ts[k], TRUE)>>]), X, X)
    <3> HIDE DEF ts
    <3>1. ts \in Seq(Target)
      BY <1>1 DEF ts
    <3> QED
      BY <1>1, <3>1, OfEachStays
  <2>2. Leads(a, <<>>, X, X)
    BY NothingLeads
  <2> QED
    BY <2>1, <2>2 DEF Each
<1>5. Leads(a, Each(deps, LAMBDA p : <<Op("fetch", p, a.force_rebuild_deps)>>)
               \o Each(separate, LAMBDA p : <<Op("fetch", p, TRUE)>>), X, X)
  BY <1>2, <1>3, BothLead DEF Each
<1> QED
  BY <1>4, <1>5, BothLead DEF FetchAll

\* The packages of a command that are built apart.
LEMMA PickedOut ==
  ASSUME NEW S, NEW objs \in Seq(S), NEW deps
  PROVE  Each(objs, LAMBDA p : IF Contains(deps, p) THEN <<>> ELSE <<p>>) \in Seq(S)
<1> DEFINE seqs == [k \in DOMAIN objs |-> IF Contains(deps, objs[k]) THEN <<>> ELSE <<objs[k]>>]
           T == Nat \X Seq(S)
<1>1. Len(objs) \in Nat /\ DOMAIN objs = 1 .. Len(objs) /\ \A k \in 1 .. Len(objs) : objs[k] \in S
  BY LenProperties, ElementOfSeq
<1>2. seqs \in Seq(Seq(S)) /\ Len(seqs) = Len(objs)
  <2>1. \A e \in S : <<e>> \in Seq(S) /\ <<>> \in Seq(S)
    BY OneElement, EmptySeq
  <2>2. \A k \in 1 .. Len(objs) : seqs[k] \in Seq(S)
    BY <1>1, <2>1
  <2>3. seqs = [k \in 1 .. Len(objs) |-> seqs[k]]
    BY <1>1
  <2> HIDE DEF seqs
  <2>4. seqs \in [1 .. Len(objs) -> Seq(S)]
    BY <2>2, <2>3
  <2> QED
    BY <1>1, <2>4, SeqDef, LenProperties
<1> HIDE DEF seqs
<1>3. <<0, <<>>>> \in T
  <2>1. <<>> \in Seq(S) /\ 0 \in Nat
    BY EmptySeq
  <2> QED
    BY <2>1
<1>4. \A i \in 1 .. Len(seqs) : \A w \in Seq(S) : <<i - 1, w>> \in T => <<i, w \o seqs[i]>> \in T
  <2> SUFFICES ASSUME NEW i \in 1 .. Len(seqs), NEW w \in Seq(S) PROVE <<i, w \o seqs[i]>> \in T
    OBVIOUS
  <2>1. seqs[i] \in Seq(S) /\ i \in Nat
    BY <1>1, <1>2, ElementOfSeq
  <2>2. w \o seqs[i] \in Seq(S)
    BY <2>1, ConcatProperties
  <2> QED
    BY <2>1, <2>2
<1> HIDE DEF T
<1>5. FlattenSeq(seqs) \in Seq(S)
  BY <1>2, <1>3, <1>4, FlattenInduction
<1> QED
  BY <1>5 DEF Each, seqs

\* A package that is built apart, and a target's packages built without it, leave the context.
LEMMA ApartLeads ==
  ASSUME NEW a \in Commands, NEW o \in Objects
  PROVE  /\ Leads(a, Scoped(build_deps_once(a, o)), At(Fresh, <<>>, {}, {}, TRUE), At(Fresh, <<>>, {}, {}, TRUE))
         /\ o \in Package =>
              Leads(a, Scoped(build_deps_once(a, o) \o <<Op("once", o, TRUE)>>),
                    At(Fresh, <<>>, {}, {}, TRUE), At(Fresh, <<>>, {}, {}, TRUE))
<1> DEFINE z == <<Fresh>> \o <<>>
           D == ToSet(Deps(o))
           X == At(Fresh, <<>>, {}, {}, TRUE)
<1>1. /\ Fresh = C({}, <<>>) /\ Fresh \in Contexts /\ <<>> \in Seq(Contexts) /\ <<>> \in Seq(Instance)
      /\ D \in SUBSET Package /\ {} \in SUBSET Package /\ {} \cup D = D
  BY DepsAreContexts, EmptySeq
<1>2. Leads(a, build_deps_once(a, o), At(C({}, <<>>), z, {}, {}, TRUE),
            At(C({} \cup D, <<>>), z, {} \cup D, {}, TRUE))
  <2> HIDE DEF z
  <2> QED
    BY <1>1, BuildDepsLeads
<1>3. ASSUME NEW ops, NEW B, Leads(a, ops, At(Fresh, z, {}, {}, TRUE), At(C(D, <<>>), z, B, {}, TRUE))
      PROVE  Leads(a, Scoped(ops), X, X)
  <2> DEFINE Y == At(Fresh, <<>>, B, {}, TRUE)
             w == Scoped(ops)
  <2>1. Leads(a, Scoped(ops), At(Fresh, <<>>, {}, {}, TRUE), At(Fresh, <<>>, B, {}, TRUE))
    <3> HIDE DEF D
    <3> QED
      BY <1>1, <1>3, ScopedLeads
  <2>2. Y \subseteq X
    BY DEF At
  <2>3. Leads(a, w, X, Y) /\ X \subseteq X
    BY <2>1
  <2> HIDE DEF X, Y, w
  <2>4. Leads(a, w, X, X)
    BY <2>2, <2>3, LeadsFurther
  <2> QED
    BY <2>4 DEF w
<1>4. ASSUME o \in Package
      PROVE  Leads(a, build_deps_once(a, o) \o <<Op("once", o, TRUE)>>, At(Fresh, z, {}, {}, TRUE),
                   At(C(D, <<>>), z, D \cup {o}, {}, TRUE))
  <2>1. D \subseteq D \cap D /\ TRUE \in BOOLEAN
    OBVIOUS
  <2> HIDE DEF z
  <2>2. Leads(a, <<Op("once", o, TRUE)>>, At(C(D, <<>>), z, D, {}, TRUE), At(C(D, <<>>), z, D \cup {o}, {}, TRUE))
    BY <1>1, <1>4, <2>1, OnceLeads
  <2> HIDE DEF D
  <2> QED
    BY <1>1, <1>2, <2>2, BothLead
<1>5. Leads(a, build_deps_once(a, o), At(Fresh, z, {}, {}, TRUE), At(C(D, <<>>), z, D, {}, TRUE))
  BY <1>1, <1>2
<1> HIDE DEF z, D
<1> QED
  BY <1>3, <1>4, <1>5

LEMMA BuildPlanLeads ==
  ASSUME NEW a \in Commands
  PROVE  Leads(a, BuildPlan(a), {Start},
               At(Fresh, <<>>, {}, Made(a, ToSet(a.targets), ToSet(a.instances)), FALSE))
<1> DEFINE X == At(Fresh, <<>>, {}, {}, TRUE)
           M == Made(a, ToSet(a.targets), ToSet(a.instances))
           Y == At(Fresh, <<>>, {}, M, TRUE)
           Z == At(Fresh, <<>>, {}, M, FALSE)
           deps == get_deps(graph, a.targets \o a.instances \o a.packages)
           separate == Each(a.packages, LAMBDA p : IF Contains(deps, p) THEN <<>> ELSE <<p>>)
           ts == a.targets
           first == IF a.clean THEN CleanAll(a) ELSE <<>>
           second == FetchAll(a, deps, separate)
           third == Each(separate, LAMBDA p : Scoped(build_deps_once(a, p) \o <<Op("once", p, TRUE)>>))
           fourth == IF a.deps_only /\ a.instances = <<>>
                     THEN Each(ts, LAMBDA t : Scoped(build_deps_once(a, t))) ELSE <<>>
<1>1. deps \in Seq(Listed)
  <2> DEFINE objs == a.targets \o a.instances \o a.packages
  <2>1. a.targets \in Seq(Objects) /\ a.instances \in Seq(Objects) /\ a.packages \in Seq(Objects)
    <3>1. Target \subseteq Objects /\ Instance \subseteq Objects /\ Package \subseteq Objects
      BY SetupAssumption DEF Objects
    <3> QED
      BY <3>1, CommandIs, SeqMonotonic
  <2>2. objs \in Seq(Objects)
    BY <2>1, ConcatProperties
  <2> HIDE DEF objs
  <2>3. get_deps(graph, objs) \in Seq(Listed)
    BY <2>2, DependencyWalk DEF GoodWalk
  <2> QED
    BY <2>3 DEF objs
<1> HIDE DEF deps
<1>2. separate \in Seq(Package)
  <2> DEFINE ps == a.packages
  <2>1. ps \in Seq(Package)
    BY CommandIs
  <2> HIDE DEF ps
  <2>2. FlattenSeq([k \in DOMAIN ps |-> IF Contains(deps, ps[k]) THEN <<>> ELSE <<ps[k]>>]) \in Seq(Package)
    BY <2>1, PickedOut DEF Each
  <2> QED
    BY <2>2 DEF Each, ps
<1> HIDE DEF separate
<1>3. Leads(a, first, {Start}, {Start})
  BY CleanLeads, NothingLeads
<1>4. Leads(a, second, {Start}, {Start})
  BY <1>1, <1>2, FetchLeads
<1>5. {Start} \subseteq X
  <2>1. Start \in Progress
    BY DepsAreContexts, EmptySeq DEF Start, P, Progress
  <2> QED
    BY <2>1 DEF Start, P, At
<1>6. Leads(a, third, X, X)
  <2> DEFINE f == [k \in DOMAIN separate |->
                    Scoped(build_deps_once(a, separate[k]) \o <<Op("once", separate[k], TRUE)>>)]
  <2>1. \A k \in 1 .. Len(separate) : separate[k] \in Package /\ separate[k] \in Objects /\ k \in DOMAIN separate
    BY <1>2, LenProperties, ElementOfSeq, UnseenShrinks
  <2>2. \A k \in 1 .. Len(separate) : Leads(a, f[k], X, X)
    BY <2>1, ApartLeads
  <2>3. third = FlattenSeq([k \in DOMAIN separate |-> f[k]])
    <3>1. [k \in DOMAIN separate |-> f[k]] = f
      OBVIOUS
    <3> QED
      BY <3>1 DEF Each
  <2> HIDE DEF f, X
  <2>4. Leads(a, FlattenSeq([k \in DOMAIN separate |-> f[k]]), X, X)
    BY <1>2, <2>2, EachStays
  <2> QED
    BY <2>3, <2>4
<1>7. Leads(a, fourth, X, X)
  <2> DEFINE f == [k \in DOMAIN ts |-> Scoped(build_deps_once(a, ts[k]))]
  <2>1. ts \in Seq(Target) /\ \A k \in 1 .. Len(ts) : ts[k] \in Objects /\ k \in DOMAIN ts
    BY CommandIs
  <2>2. \A k \in 1 .. Len(ts) : Leads(a, f[k], X, X)
    BY <2>1, ApartLeads
  <2>3. Each(ts, LAMBDA t : Scoped(build_deps_once(a, t))) = FlattenSeq([k \in DOMAIN ts |-> f[k]])
    <3>1. [k \in DOMAIN ts |-> f[k]] = f
      OBVIOUS
    <3> QED
      BY <3>1 DEF Each
  <2>4. Leads(a, <<>>, X, X)
    BY NothingLeads
  <2>5. Leads(a, FlattenSeq([k \in DOMAIN ts |-> f[k]]), X, X)
    <3> HIDE DEF f, X, ts
    <3> QED
      BY <2>1, <2>2, EachStays
  <2> QED
    BY <2>3, <2>4, <2>5
<1>8. Leads(a, BuildInstances(a), X, Y)
  BY BuildInstancesLead
<1>9. Leads(a, WaitForPool, Y, Z)
  <2> DEFINE op == Op("wait", "", FALSE)
  <2>1. op \in Ops /\ op.op = "wait"
    <3>1. "wait" \in OpNames /\ "" \in Things /\ FALSE \in BOOLEAN
      BY ThingsAre DEF OpNames
    <3> QED
      BY <3>1, OpIs
  <2> HIDE DEF op
  <2>2. ASSUME NEW x \in Y PROVE \E y \in Z : Does(a, op, x, y)
    <3> DEFINE y == P(x.ctx, x.saved, x.built, x.made, FALSE)
    <3>1. y \in Z
      BY <2>2 DEF At, P, Progress
    <3>2. Does(a, op, x, y)
      BY <2>1 DEF Does
    <3> QED
      BY <3>1, <3>2
  <2> HIDE DEF Y, Z
  <2>3. Leads(a, <<op>>, Y, Z)
    BY <2>1, <2>2, OneLeads
  <2> QED
    BY <2>3 DEF op, WaitForPool
<1> HIDE DEF X, Y, Z, first, second, third, fourth
<1>10. Leads(a, first \o second, {Start}, X)
  BY <1>3, <1>4, <1>5, BothLead, LeadsFurther
<1>11. Leads(a, (first \o second) \o third, {Start}, X)
  BY <1>6, <1>10, BothLead
<1>12. Leads(a, ((first \o second) \o third) \o fourth, {Start}, X)
  BY <1>7, <1>11, BothLead
<1>13. Leads(a, (((first \o second) \o third) \o fourth) \o BuildInstances(a), {Start}, Y)
  BY <1>8, <1>12, BothLead
<1>14. Leads(a, ((((first \o second) \o third) \o fourth) \o BuildInstances(a)) \o WaitForPool, {Start}, Z)
  BY <1>9, <1>13, BothLead
<1>15. BuildPlan(a) = ((((first \o second) \o third) \o fourth) \o BuildInstances(a)) \o WaitForPool
  BY DEF BuildPlan, first, second, third, fourth, deps, separate
<1> QED
  BY <1>14, <1>15 DEF Z

LEMMA RunPlanLeads ==
  ASSUME NEW a \in Commands, a.command = "run"
  PROVE  Leads(a, RunPlan(a), {Start}, Ends(a))
<1> DEFINE is == a.instances
           t == a.targets[1]
           M == IF a.build THEN ToSet(a.targets) \X ToSet(is) ELSE {}
           q == ~a.build
           D == ToSet(Deps(t))
           c == C(D, <<>>)
           X == At(Fresh, <<>>, {}, M, q)
           Y == At(c, <<>>, {}, M, q)
           g(i) == load_deps(i) \o <<Op("run", <<t, i>>, FALSE)>>
           f == [k \in DOMAIN is |-> Scoped(g(is[k]))]
           first == IF a.build THEN BuildPlan(a) ELSE <<>>
<1>1. /\ t \in Target /\ t \in Objects /\ t \in ToSet(a.targets) /\ a.build \in BOOLEAN /\ Makes(a)
      /\ is \in Seq(Instance) /\ Len(is) \in Nat /\ DOMAIN is = 1 .. Len(is)
      /\ \A k \in 1 .. Len(is) : is[k] \in Instance /\ is[k] \in Objects /\ is[k] \in ToSet(is)
  <2>1. 1 \in 1 .. Len(a.targets)
    <3>1. Len(a.targets) = 1
      BY CommandsAssumption
    <3> QED
      BY <3>1
  <2>2. a.build \in BOOLEAN /\ Makes(a)
    BY CommandsAssumption DEF Makes
  <2> QED
    BY <2>1, <2>2, CommandIs
<1>2. /\ Fresh = C({}, <<>>) /\ Fresh \in Contexts /\ <<>> \in Seq(Contexts) /\ <<>> \in Seq(Instance)
      /\ D \in SUBSET Package /\ {} \in SUBSET Package /\ {} \cup D = D /\ c \in Contexts
  <2>1. <<>> \in Seq(Instance) /\ <<>> \in Seq(Contexts) /\ D \in SUBSET Package
    BY <1>1, DepsAreContexts, EmptySeq
  <2> QED
    BY <2>1, DepsAreContexts DEF C, Contexts
<1>3. Leads(a, first, {Start}, X)
  <2>1. CASE a.build
    <3>1. M = Made(a, ToSet(a.targets), ToSet(is)) /\ q = FALSE
      BY <1>1, <2>1 DEF Made
    <3> QED
      BY <2>1, <3>1, BuildPlanLeads
  <2>2. CASE ~a.build
    <3>1. Start \in Progress
      BY DepsAreContexts, EmptySeq DEF Start, P, Progress
    <3>2. Start \in X
      BY <1>1, <2>2, <3>1 DEF Start, P, At
    <3> HIDE DEF X
    <3>3. {Start} \subseteq X
      BY <3>2
    <3>4. Leads(a, <<>>, {Start}, X)
      BY <3>3, NothingLeads
    <3> QED
      BY <2>2, <3>4
  <2> QED
    BY <1>1, <2>1, <2>2
<1>4. Leads(a, load_deps(t), X, Y)
  <2>1. Leads(a, load_deps(t), At(C({}, <<>>), <<>>, {}, M, q), At(C({} \cup D, <<>>), <<>>, {}, M, q))
    <3> HIDE DEF M, q, t
    <3> QED
      BY <1>1, <1>2, LoadLeads
  <2> QED
    BY <1>2, <2>1
<1>5. ASSUME NEW k \in 1 .. Len(is) PROVE Leads(a, f[k], Y, Y)
  <2> DEFINE i == is[k]
             E == D \cup ToSet(Deps(i))
             z == <<c>> \o <<>>
             b == <<t, i>>
             op == Op("run", b, FALSE)
             V == At(c, z, {}, M, q)
             W == At(C(E, <<>>), z, {}, M, q)
  <2>1. i \in Instance /\ i \in Objects /\ i \in ToSet(is) /\ k \in DOMAIN is
    BY <1>1
  <2>2. f[k] = Scoped(g(i)) /\ b \in Target \X Instance
    BY <1>1, <2>1
  <2>3. b[1] = t /\ b[2] = i /\ (a.build => b \in M)
    BY <1>1, <2>1
  <2>4. Leads(a, load_deps(i), V, W)
    <3> HIDE DEF M, q, z, D, i
    <3> QED
      BY <1>2, <2>1, LoadLeads DEF E
  <2> HIDE DEF f, b
  <2>5. op \in Ops /\ op.op = "run" /\ op.obj = b
    <3>1. "run" \in OpNames /\ b \in Things /\ FALSE \in BOOLEAN
      BY <2>2, ThingsAre DEF OpNames
    <3> QED
      BY <3>1, OpIs
  <2> HIDE DEF op, i, t
  <2>6. ASSUME NEW x \in W PROVE \E y \in W : Does(a, op, x, y)
    <3>1. a.build => b \in x.made /\ ~x.pending
      BY <1>1, <2>3, <2>6 DEF At
    <3>2. x.ctx = C(ToSet(Deps(b[1])) \cup ToSet(Deps(b[2])), <<>>)
      BY <2>3, <2>6 DEF At
    <3>3. Does(a, op, x, x)
      BY <2>2, <2>5, <3>1, <3>2 DEF Does
    <3> QED
      BY <2>6, <3>3
  <2> HIDE DEF V, W
  <2>7. Leads(a, <<op>>, W, W)
    BY <2>5, <2>6, OneLeads
  <2>8. Leads(a, g(i), V, W)
    BY <2>4, <2>7, BothLead DEF op, b
  <2> HIDE DEF g, M, q, c, E
  <2>9. Leads(a, Scoped(g(i)), Y, Y)
    BY <1>2, <2>8, ScopedLeads DEF V, W, z
  <2> QED
    BY <2>2, <2>9
<1>6. Leads(a, FlattenSeq([k \in DOMAIN is |-> f[k]]), Y, Y)
  <2> HIDE DEF f, Y, is
  <2> QED
    BY <1>1, <1>5, EachStays
<1>7. Each(is, LAMBDA i : Scoped(load_deps(i) \o <<Op("run", <<t, i>>, FALSE)>>))
        = FlattenSeq([k \in DOMAIN is |-> f[k]])
  <2>1. [k \in DOMAIN is |-> f[k]]
          = [k \in DOMAIN is |-> Scoped(load_deps(is[k]) \o <<Op("run", <<t, is[k]>>, FALSE)>>)]
    OBVIOUS
  <2> QED
    BY <2>1 DEF Each
<1>8. Leads(a, WaitForPool, Y, Ends(a))
  <2> DEFINE op == Op("wait", "", FALSE)
  <2>1. op \in Ops /\ op.op = "wait"
    <3>1. "wait" \in OpNames /\ "" \in Things /\ FALSE \in BOOLEAN
      BY ThingsAre DEF OpNames
    <3> QED
      BY <3>1, OpIs
  <2> HIDE DEF op
  <2>2. ASSUME NEW x \in Y PROVE \E y \in Ends(a) : Does(a, op, x, y)
    <3> DEFINE y == P(x.ctx, x.saved, x.built, x.made, FALSE)
    <3>1. y \in Progress
      BY <2>2 DEF At, P, Progress
    <3>2. Does(a, op, x, y)
      BY <2>1 DEF Does
    <3> QED
      BY <3>1, <3>2 DEF Ends
  <2> HIDE DEF Y
  <2>3. Leads(a, <<op>>, Y, Ends(a))
    BY <2>1, <2>2, OneLeads
  <2> QED
    BY <2>3 DEF op, WaitForPool
<1> DEFINE runs == Each(is, LAMBDA i : Scoped(load_deps(i) \o <<Op("run", <<t, i>>, FALSE)>>))
<1>9. Leads(a, runs, Y, Y)
  BY <1>6, <1>7
<1>10. RunPlan(a) = ((first \o load_deps(t)) \o runs) \o WaitForPool
  BY DEF RunPlan
<1> HIDE DEF first, runs, X, Y, t
<1>11. Leads(a, first \o load_deps(t), {Start}, Y)
  BY <1>3, <1>4, BothLead
<1>12. Leads(a, (first \o load_deps(t)) \o runs, {Start}, Y)
  BY <1>9, <1>11, BothLead
<1> QED
  BY <1>8, <1>10, <1>12, BothLead

LEMMA ExecHookPlanLeads ==
  ASSUME NEW a \in Commands, a.command = "exec-hook"
  PROVE  Leads(a, ExecHookPlan(a), {Start}, Ends(a))
<1> DEFINE t == a.targets[1]
           i == a.instances[1]
           D == ToSet(Deps(i))
           X == At(C(D, <<>>), <<>>, {}, {}, TRUE)
           Y == At(C(D, <<i>>), <<>>, {}, {}, TRUE)
<1>1. t \in Target /\ i \in Instance /\ i \in Objects
  <2>1. 1 \in 1 .. Len(a.targets) /\ 1 \in 1 .. Len(a.instances)
    <3>1. Len(a.targets) = 1 /\ a.instances # <<>>
      BY CommandsAssumption
    <3> QED
      BY <3>1, CommandIs, EmptySeq
  <2> QED
    BY <2>1, CommandIs
<1> HIDE DEF t, i
<1>2. /\ Fresh = C({}, <<>>) /\ <<>> \in Seq(Instance)
      /\ D \in SUBSET Package /\ {} \in SUBSET Package /\ {} \cup D = D /\ Append(<<>>, i) = <<i>>
  BY <1>1, DepsAreContexts, EmptySeq
<1>3. {Start} \subseteq At(Fresh, <<>>, {}, {}, TRUE)
  <2>1. Start \in Progress
    BY DepsAreContexts, EmptySeq DEF Start, P, Progress
  <2> QED
    BY <2>1 DEF Start, P, At
<1>4. Leads(a, load_deps(i), {Start}, X)
  <2>1. Leads(a, load_deps(i), At(C({}, <<>>), <<>>, {}, {}, TRUE), At(C({} \cup D, <<>>), <<>>, {}, {}, TRUE))
    BY <1>1, <1>2, LoadLeads
  <2> DEFINE V == At(Fresh, <<>>, {}, {}, TRUE)
  <2>2. Leads(a, load_deps(i), V, X)
    BY <1>2, <2>1
  <2>3. {Start} \subseteq V /\ X \subseteq X
    BY <1>3
  <2> HIDE DEF V, X
  <2> QED
    BY <2>2, <2>3, LeadsFurther
<1>5. Leads(a, <<Op("configure", i, FALSE)>>, X, Y)
  <2> HIDE DEF D
  <2>1. Leads(a, <<Op("configure", i, FALSE)>>, At(C(D, <<>>), <<>>, {}, {}, TRUE),
                 At(C(D, Append(<<>>, i)), <<>>, {}, {}, TRUE))
    BY <1>1, <1>2, ConfigureLeads
  <2> QED
    BY <1>2, <2>1
<1>6. Leads(a, <<Op("exec-hook", <<t, i>>, FALSE)>>, Y, Y)
  <2> DEFINE b == <<t, i>>
  <2>1. b \in Things /\ FALSE \in BOOLEAN
    BY <1>1, ThingsAre
  <2> HIDE DEF b, Y
  <2> QED
    BY <2>1, StaysLead DEF b
<1>7. Y \subseteq Ends(a)
  BY DEF At, Ends
<1> DEFINE u == Op("configure", i, FALSE)
           v == Op("exec-hook", <<t, i>>, FALSE)
<1>8. Leads(a, <<u>>, X, Y) /\ Leads(a, <<v>>, Y, Y)
  BY <1>5, <1>6
<1>9. ExecHookPlan(a) = load_deps(i) \o <<u, v>>
  BY DEF ExecHookPlan, t, i
<1> HIDE DEF u, v, X, Y
<1>10. Leads(a, <<u>> \o <<v>>, X, Y)
  BY <1>8, BothLead
<1>11. Leads(a, <<u, v>>, X, Y)
  BY <1>10, TwoElements
<1>12. Leads(a, load_deps(i) \o <<u, v>>, {Start}, Y)
  BY <1>4, <1>11, BothLead
<1> QED
  BY <1>7, <1>9, <1>12, LeadsFurther

\* Every command can be worked off from the beginning to one of its ends.
LEMMA PlanLeads ==
  ASSUME NEW a \in Commands
  PROVE  Leads(a, PlanOf(a), {Start}, Ends(a))
<1>1. Start \in Progress
  BY DepsAreContexts, EmptySeq DEF Start, P, Progress
<1>2. CASE BadArguments(a)
  <2> DEFINE op == Op("fatal", "", FALSE)
             y == P(Fresh, <<>>, {}, ToSet(a.targets) \X ToSet(a.instances), FALSE)
  <2>1. op \in Ops /\ op.op = "fatal"
    <3>1. "fatal" \in OpNames /\ "" \in Things /\ FALSE \in BOOLEAN
      BY ThingsAre DEF OpNames
    <3> QED
      BY <3>1, OpIs
  <2>2. y \in Ends(a)
    <3>1. ToSet(a.targets) \subseteq Target /\ ToSet(a.instances) \subseteq Instance
      <4>1. /\ ToSet(a.targets) = {a.targets[k] : k \in 1 .. Len(a.targets)}
            /\ ToSet(a.instances) = {a.instances[k] : k \in 1 .. Len(a.instances)}
            /\ \A k \in 1 .. Len(a.targets) : a.targets[k] \in Target
            /\ \A k \in 1 .. Len(a.instances) : a.instances[k] \in Instance
        BY CommandIs
      <4> QED
        BY <4>1
    <3>2. ToSet(a.targets) \X ToSet(a.instances) \in SUBSET (Target \X Instance)
      BY <3>1
    <3>3. y \in Progress
      BY <3>2, DepsAreContexts, EmptySeq DEF P, Progress
    <3> QED
      BY <3>3 DEF P, Ends
  <2> HIDE DEF op, y
  <2>3. \A x \in {Start} : \E z \in Ends(a) : Does(a, op, x, z)
    BY <2>1, <2>2 DEF Does
  <2>4. Leads(a, <<op>>, {Start}, Ends(a))
    BY <2>1, <2>3, OneLeads
  <2> QED
    BY <1>2, <2>4 DEF PlanOf, op
<1>3. CASE ~BadArguments(a) /\ a.command = "build"
  <2> DEFINE Z == At(Fresh, <<>>, {}, Made(a, ToSet(a.targets), ToSet(a.instances)), FALSE)
  <2>1. Z \subseteq Ends(a)
    BY DEF At, Ends, Made
  <2>2. Leads(a, BuildPlan(a), {Start}, Z)
    BY BuildPlanLeads
  <2> HIDE DEF Z
  <2>3. Leads(a, BuildPlan(a), {Start}, Ends(a))
    BY <2>1, <2>2, LeadsFurther
  <2> QED
    BY <1>3, <2>3 DEF PlanOf
<1>4. CASE ~BadArguments(a) /\ a.command = "clean"
  <2>1. {Start} \subseteq Ends(a)
    BY <1>1, <1>4 DEF Ends
  <2>2. Leads(a, CleanAll(a), {Start}, Ends(a))
    BY <2>1, CleanLeads, LeadsFurther
  <2> QED
    BY <1>4, <2>2 DEF PlanOf
<1>5. CASE ~BadArguments(a) /\ a.command = "run"
  <2>1. PlanOf(a) = RunPlan(a)
    BY <1>5 DEF PlanOf
  <2> QED
    BY <1>5, <2>1, RunPlanLeads
<1>6. CASE ~BadArguments(a) /\ a.command = "exec-hook"
  <2>1. PlanOf(a) = ExecHookPlan(a)
    BY <1>6 DEF PlanOf
  <2> QED
    BY <1>6, <2>1, ExecHookPlanLeads
<1> QED
  BY <1>2, <1>3, <1>4, <1>5, <1>6, CommandsAssumption

\* The states a command goes through ----------------------------------------------------------

\* x is how far the command is ...
Agrees(x) ==
  /\ x \in Progress /\ x.ctx = ctx /\ x.saved = saved /\ x.built = built
  /\ ~x.pending => jobs = {}
  /\ \A b \in x.made : Calls(b[1]) => binary[b] # None \/ \E j \in jobs : j.of = b

\* ... and what it has still to do leads from x to one of its ends.
OnItsWay == \E x, X : Agrees(x) /\ x \in X /\ Leads(args, todo, X, Ends(args))

\* Binaries, and the jobs of the pool that make them.
BinariesOK ==
  /\ binary \in [Target \X Instance -> Contexts \cup {None}]
  /\ \A b \in Target \X Instance : binary[b] \in {None, Right(b)}
  /\ \A j \in jobs : j.of \in Target \X Instance /\ j.ctx = Right(j.of)

\* The stage is one of the operation the command is at.
StageOK ==
  /\ stage \in {"none", "fetch", "build", "install"}
  /\ stage # "none" => status = "running" /\ todo # <<>>
  /\ stage = "fetch" => Head(todo).op = "fetch"
  /\ stage \in {"build", "install"} => Head(todo).op = "once" /\ Head(todo).obj \notin built

SetupInv ==
  /\ BinariesOK /\ StageOK
  /\ status = "running" => /\ args \in Commands /\ OnItsWay
                           /\ ~args.parallel => jobs = {}
  /\ status # "running" => built = {}

LEMMA NextOperation ==
  ASSUME OnItsWay, todo # <<>>
  PROVE  \E x, y, Y : /\ Agrees(x) /\ Does(args, Head(todo), x, y)
                      /\ y \in Y /\ Leads(args, Tail(todo), Y, Ends(args))
<1>1. PICK x, X : Agrees(x) /\ x \in X /\ Leads(args, todo, X, Ends(args))
  BY DEF OnItsWay
<1> DEFINE Z == Ends(args)
<1> HIDE DEF Z
<1>2. Leads(args, todo, X, Z)
  BY <1>1 DEF Z
<1>3. \E Y : Leads(args, Tail(todo), Y, Z) /\ \E y \in Y : Does(args, Head(todo), x, y)
  BY <1>1, <1>2, LeadsOn
<1> QED
  BY <1>1, <1>3 DEF Z

LEMMA HeadIs ==
  ASSUME NEW S, NEW e \in S, NEW s \in Seq(S)
  PROVE  Head(<<e>> \o s) = e /\ Tail(<<e>> \o s) = s
<1> DEFINE u == <<e>>
           w == u \o s
<1>1. u \in Seq(S) /\ Len(u) = 1 /\ u[1] = e /\ Len(s) \in Nat
  BY LenProperties
<1> HIDE DEF u
<1>2. /\ w \in Seq(S) /\ Len(w) = 1 + Len(s)
      /\ \A i \in 1 .. 1 + Len(s) : w[i] = IF i <= 1 THEN u[i] ELSE s[i - 1]
  <2>1. /\ w \in Seq(S) /\ Len(w) = Len(u) + Len(s)
        /\ \A i \in 1 .. Len(u) + Len(s) : w[i] = IF i <= Len(u) THEN u[i] ELSE s[i - Len(u)]
    BY <1>1, ConcatProperties
  <2> HIDE DEF w
  <2> QED
    BY <1>1, <2>1
<1> HIDE DEF w
<1>3. w # <<>> /\ w[1] = e
  BY <1>1, <1>2
<1>4. /\ Head(w) = w[1] /\ Tail(w) \in Seq(S) /\ Len(Tail(w)) = Len(w) - 1
      /\ \A i \in 1 .. Len(Tail(w)) : Tail(w)[i] = w[i + 1]
  BY <1>2, <1>3, HeadTailProperties
<1>5. ASSUME NEW i \in 1 .. Len(s) PROVE Tail(w)[i] = s[i]
  <2>1. i + 1 \in 1 .. 1 + Len(s) /\ ~(i + 1 <= 1) /\ (i + 1) - 1 = i /\ i \in 1 .. Len(Tail(w))
    BY <1>1, <1>2, <1>4
  <2> QED
    BY <1>2, <1>4, <2>1
<1>6. Tail(w) = s
  <2>1. Len(Tail(w)) = Len(s)
    BY <1>1, <1>2, <1>4
  <2> QED
    BY <1>4, <1>5, <2>1, SeqEqual
<1> QED
  BY <1>3, <1>4, <1>6 DEF w, u

LEMMA RightIsNotNone == \A b \in Target \X Instance : Right(b) # None
<1> SUFFICES ASSUME NEW b \in Target \X Instance PROVE Right(b).configured # None.configured
  OBVIOUS
<1>1. Right(b).configured = <<b[2]>> /\ None.configured = <<"none">>
  BY DEF Right, C, None
<1>2. b[2] # "none"
  BY SetupAssumption
<1> QED
  BY <1>1, <1>2

\* An operation that leaves binaries, jobs and the stage alone.
LEMMA PlainOperation ==
  ASSUME SetupInv, status = "running", todo # <<>>, stage' = "none",
         Advance, UNCHANGED <<args, status, binary, jobs>>,
         \A x, y : Agrees(x) /\ Does(args, Head(todo), x, y)
            => /\ y \in Progress /\ y.ctx = ctx' /\ y.saved = saved' /\ y.built = built'
               /\ y.made = x.made /\ (y.pending <=> x.pending)
  PROVE  SetupInv'
<1>1. PICK x, y, Y : /\ Agrees(x) /\ Does(args, Head(todo), x, y)
                     /\ y \in Y /\ Leads(args, Tail(todo), Y, Ends(args))
  BY NextOperation DEF SetupInv
<1>2. /\ y \in Progress /\ y.ctx = ctx' /\ y.saved = saved' /\ y.built = built'
      /\ y.made = x.made /\ (y.pending <=> x.pending)
  BY <1>1
<1>3. Agrees(y)'
  BY <1>1, <1>2 DEF Agrees, Calls
<1>4. OnItsWay'
  BY <1>1, <1>3 DEF OnItsWay, Advance
<1>5. BinariesOK' /\ StageOK'
  BY DEF SetupInv, BinariesOK, StageOK
<1> QED
  BY <1>4, <1>5 DEF SetupInv

LEMMA EnvStep == ASSUME SetupInv, Env PROVE SetupInv'
<1>1. /\ status = "running" /\ todo # <<>> /\ Head(todo).op = "env" /\ stage = "none"
      /\ Advance /\ UNCHANGED <<stage, args, status, binary, jobs>>
      /\ ctx' = [ctx EXCEPT !.env = @ \cup {obj}] /\ UNCHANGED <<built, saved>>
  BY DEF Env, Doing, Quick, control, diskVars, SetupInv, StageOK
<1>2. ASSUME NEW x, NEW y, Agrees(x), Does(args, Head(todo), x, y)
      PROVE  /\ y \in Progress /\ y.ctx = ctx' /\ y.saved = saved' /\ y.built = built'
             /\ y.made = x.made /\ (y.pending <=> x.pending)
  <2>1. /\ obj \in Package
        /\ y = P(C(x.ctx.env \cup {obj}, x.ctx.configured), x.saved, x.built, x.made, x.pending)
    BY <1>1, <1>2 DEF Does, obj
  <2>2. x \in Progress /\ x.ctx = ctx /\ x.saved = saved /\ x.built = built /\ ctx \in Contexts
    BY <1>2 DEF Agrees, Progress
  <2>3. C(x.ctx.env \cup {obj}, x.ctx.configured) = ctx' /\ ctx' \in Contexts
    BY <1>1, <2>1, <2>2 DEF C, Contexts
  <2> QED
    BY <1>1, <2>1, <2>2, <2>3 DEF P, Progress
<1> QED
  BY <1>1, <1>2, PlainOperation

LEMMA ConfigureStep == ASSUME SetupInv, Configure PROVE SetupInv'
<1>1. /\ status = "running" /\ todo # <<>> /\ Head(todo).op = "configure" /\ stage = "none"
      /\ Advance /\ UNCHANGED <<stage, args, status, binary, jobs>>
      /\ ctx' = [ctx EXCEPT !.configured = Append(@, obj)] /\ UNCHANGED <<built, saved>>
  BY DEF Configure, Doing, Quick, control, diskVars, SetupInv, StageOK
<1>2. ASSUME NEW x, NEW y, Agrees(x), Does(args, Head(todo), x, y)
      PROVE  /\ y \in Progress /\ y.ctx = ctx' /\ y.saved = saved' /\ y.built = built'
             /\ y.made = x.made /\ (y.pending <=> x.pending)
  <2>1. /\ obj \in Instance
        /\ y = P(C(x.ctx.env, Append(x.ctx.configured, obj)), x.saved, x.built, x.made, x.pending)
    BY <1>1, <1>2 DEF Does, obj
  <2>2. /\ x \in Progress /\ x.ctx = ctx /\ x.saved = saved /\ x.built = built
        /\ ctx \in Contexts /\ ctx.configured \in Seq(Instance)
    BY <1>2 DEF Agrees, Progress, Contexts
  <2>3. Append(ctx.configured, obj) \in Seq(Instance)
    BY <2>1, <2>2, AppendProperties
  <2>4. C(x.ctx.env, Append(x.ctx.configured, obj)) = ctx' /\ ctx' \in Contexts
    BY <1>1, <2>2, <2>3 DEF C, Contexts
  <2> QED
    BY <1>1, <2>1, <2>2, <2>4 DEF P, Progress
<1> QED
  BY <1>1, <1>2, PlainOperation

LEMMA SaveStep == ASSUME SetupInv, Save PROVE SetupInv'
<1>1. /\ status = "running" /\ todo # <<>> /\ Head(todo).op = "save" /\ stage = "none"
      /\ Advance /\ UNCHANGED <<stage, args, status, binary, jobs>>
      /\ saved' = <<ctx>> \o saved /\ UNCHANGED <<built, ctx>>
  BY DEF Save, Doing, Quick, control, diskVars, SetupInv, StageOK
<1>2. ASSUME NEW x, NEW y, Agrees(x), Does(args, Head(todo), x, y)
      PROVE  /\ y \in Progress /\ y.ctx = ctx' /\ y.saved = saved' /\ y.built = built'
             /\ y.made = x.made /\ (y.pending <=> x.pending)
  <2>1. y = P(x.ctx, <<x.ctx>> \o x.saved, x.built, x.made, x.pending)
    BY <1>1, <1>2 DEF Does
  <2>2. /\ x \in Progress /\ x.ctx = ctx /\ x.saved = saved /\ x.built = built
        /\ ctx \in Contexts /\ saved \in Seq(Contexts)
    BY <1>2 DEF Agrees, Progress
  <2>3. <<ctx>> \o saved \in Seq(Contexts)
    BY <2>2, OneElement, ConcatProperties
  <2> QED
    BY <1>1, <2>1, <2>2, <2>3 DEF P, Progress
<1> QED
  BY <1>1, <1>2, PlainOperation

LEMMA RestoreStep == ASSUME SetupInv, Restore PROVE SetupInv'
<1>1. /\ status = "running" /\ todo # <<>> /\ Head(todo).op = "restore" /\ stage = "none"
      /\ Advance /\ UNCHANGED <<stage, args, status, binary, jobs>>
      /\ ctx' = Head(saved) /\ saved' = Tail(saved) /\ UNCHANGED built
  BY DEF Restore, Doing, Quick, control, diskVars, SetupInv, StageOK
<1>2. ASSUME NEW x, NEW y, Agrees(x), Does(args, Head(todo), x, y)
      PROVE  /\ y \in Progress /\ y.ctx = ctx' /\ y.saved = saved' /\ y.built = built'
             /\ y.made = x.made /\ (y.pending <=> x.pending)
  <2>1. /\ y.ctx \in Contexts /\ y.saved \in Seq(Contexts) /\ x.saved = <<y.ctx>> \o y.saved
        /\ y = P(y.ctx, y.saved, x.built, x.made, x.pending)
    BY <1>1, <1>2 DEF Does
  <2>2. x \in Progress /\ x.saved = saved /\ x.built = built
    BY <1>2 DEF Agrees
  <2>3. Head(saved) = y.ctx /\ Tail(saved) = y.saved
    BY <2>1, <2>2, HeadIs
  <2>4. y.built = x.built /\ y.made = x.made /\ y.pending = x.pending
    BY <2>1 DEF P
  <2>5. y \in Progress
    BY <2>1, <2>2 DEF P, Progress
  <2> QED
    BY <1>1, <2>2, <2>3, <2>4, <2>5
<1> QED
  BY <1>1, <1>2, PlainOperation

\* Fetches, hooks and runs, and packages that were built before.
LEMMA IdleStep ==
  ASSUME SetupInv, EndFetch \/ SkipOnce \/ Hooks \/ RunTarget
  PROVE  SetupInv'
<1>1. /\ status = "running" /\ todo # <<>> /\ stage' = "none"
      /\ Head(todo).op \in {"fetch", "once", "hooks", "exec-hook", "run"}
      /\ Head(todo).op = "once" => Head(todo).obj \in built
      /\ Advance /\ UNCHANGED <<args, status, binary, jobs, ctx, saved, built>>
  BY DEF EndFetch, SkipOnce, Hooks, RunTarget, Doing, Quick, control, diskVars, memory, obj, SetupInv, StageOK
<1>2. ASSUME NEW x, NEW y, Agrees(x), Does(args, Head(todo), x, y)
      PROVE  /\ y \in Progress /\ y.ctx = ctx' /\ y.saved = saved' /\ y.built = built'
             /\ y.made = x.made /\ (y.pending <=> x.pending)
  <2>1. x \in Progress /\ x.ctx = ctx /\ x.saved = saved /\ x.built = built
    BY <1>2 DEF Agrees
  <2>2. CASE Head(todo).op # "once"
    <3>1. y = x
      BY <1>1, <1>2, <2>2 DEF Does
    <3> QED
      BY <1>1, <2>1, <3>1
  <2>3. CASE Head(todo).op = "once"
    <3>1. y = P(x.ctx, x.saved, x.built \cup {Head(todo).obj}, x.made, x.pending)
      BY <1>2, <2>3 DEF Does
    <3>2. x.built \cup {Head(todo).obj} = x.built
      BY <1>1, <2>1, <2>3
    <3> QED
      BY <1>1, <2>1, <3>1, <3>2 DEF P, Progress
  <2> QED
    BY <2>2, <2>3
<1> QED
  BY <1>1, <1>2, PlainOperation

LEMMA EndOnceStep == ASSUME SetupInv, EndOnce PROVE SetupInv'
<1>1. /\ status = "running" /\ todo # <<>> /\ stage' = "none" /\ Head(todo).op = "once"
      /\ Advance /\ UNCHANGED <<args, status, binary, jobs, ctx, saved>>
      /\ built' = built \cup {obj}
  BY DEF EndOnce, control, diskVars, SetupInv, StageOK
<1>2. ASSUME NEW x, NEW y, Agrees(x), Does(args, Head(todo), x, y)
      PROVE  /\ y \in Progress /\ y.ctx = ctx' /\ y.saved = saved' /\ y.built = built'
             /\ y.made = x.made /\ (y.pending <=> x.pending)
  <2>1. obj \in Package /\ y = P(x.ctx, x.saved, x.built \cup {obj}, x.made, x.pending)
    BY <1>1, <1>2 DEF Does, obj
  <2>2. x \in Progress /\ x.ctx = ctx /\ x.saved = saved /\ x.built = built
    BY <1>2 DEF Agrees
  <2> QED
    BY <1>1, <2>1, <2>2 DEF P, Progress
<1> QED
  BY <1>1, <1>2, PlainOperation

LEMMA WaitStep == ASSUME SetupInv, WaitAll PROVE SetupInv'
<1>1. /\ status = "running" /\ todo # <<>> /\ Head(todo).op = "wait" /\ stage = "none" /\ jobs = {}
      /\ Advance /\ UNCHANGED <<stage, args, status, binary, jobs, ctx, saved, built>>
  BY DEF WaitAll, Doing, Quick, control, diskVars, SetupInv, StageOK
<1>2. PICK x, y, Y : /\ Agrees(x) /\ Does(args, Head(todo), x, y)
                     /\ y \in Y /\ Leads(args, Tail(todo), Y, Ends(args))
  BY <1>1, NextOperation DEF SetupInv
<1>3. y = P(x.ctx, x.saved, x.built, x.made, FALSE)
  BY <1>1, <1>2 DEF Does
<1>4. y \in Progress
  BY <1>2, <1>3 DEF Agrees, P, Progress
<1>5. y.ctx = x.ctx /\ y.saved = x.saved /\ y.built = x.built /\ y.made = x.made
  BY <1>3 DEF P
<1>6. Agrees(y)'
  BY <1>1, <1>2, <1>4, <1>5 DEF Agrees, Calls
<1>7. OnItsWay'
  BY <1>1, <1>2, <1>6 DEF OnItsWay, Advance
<1>8. BinariesOK' /\ StageOK'
  BY <1>1 DEF SetupInv, BinariesOK, StageOK
<1> QED
  BY <1>1, <1>7, <1>8 DEF SetupInv

LEMMA CleanStep == ASSUME SetupInv, Clean PROVE SetupInv'
<1>1. /\ status = "running" /\ todo # <<>> /\ Head(todo).op = "clean" /\ stage = "none"
      /\ Advance /\ UNCHANGED <<stage, args, status, jobs, ctx, saved, built>>
      /\ UNCHANGED binary \/ binary' = [b \in DOMAIN binary |-> IF b[1] = obj THEN None ELSE binary[b]]
  BY DEF Clean, Doing, Quick, control, diskVars, SetupInv, StageOK
<1>2. PICK x, y, Y : /\ Agrees(x) /\ Does(args, Head(todo), x, y)
                     /\ y \in Y /\ Leads(args, Tail(todo), Y, Ends(args))
  BY <1>1, NextOperation DEF SetupInv
<1>3. y = x /\ x.made = {}
  BY <1>1, <1>2 DEF Does
<1>4. Agrees(y)'
  BY <1>1, <1>2, <1>3 DEF Agrees
<1>5. OnItsWay'
  BY <1>1, <1>2, <1>4 DEF OnItsWay, Advance
<1>6. BinariesOK'
  <2>1. CASE UNCHANGED binary
    BY <1>1, <2>1 DEF SetupInv, BinariesOK
  <2>2. CASE binary' = [b \in DOMAIN binary |-> IF b[1] = obj THEN None ELSE binary[b]]
    <3>1. DOMAIN binary = Target \X Instance
      BY DEF SetupInv, BinariesOK
    <3>2. \A b \in Target \X Instance : binary'[b] \in {None, binary[b]}
      BY <2>2, <3>1
    <3>3. binary' \in [Target \X Instance -> Contexts \cup {None}]
      BY <2>2, <3>1 DEF SetupInv, BinariesOK
    <3> QED
      BY <1>1, <3>2, <3>3 DEF SetupInv, BinariesOK
  <2> QED
    BY <1>1, <2>1, <2>2
<1>7. StageOK'
  BY <1>1 DEF SetupInv, StageOK
<1> QED
  BY <1>1, <1>5, <1>6, <1>7 DEF SetupInv

LEMMA BuildTargetStep == ASSUME SetupInv, BuildTarget PROVE SetupInv'
<1>1. /\ status = "running" /\ todo # <<>> /\ Head(todo).op = "build" /\ stage = "none"
      /\ Advance /\ UNCHANGED <<stage, args, status, ctx, saved, built>>
  BY DEF BuildTarget, Doing, Quick, control, SetupInv, StageOK
<1>2. PICK x, y, Y : /\ Agrees(x) /\ Does(args, Head(todo), x, y)
                     /\ y \in Y /\ Leads(args, Tail(todo), Y, Ends(args))
  BY <1>1, NextOperation DEF SetupInv
<1>3. /\ obj \in Target \X Instance /\ x.ctx = Right(obj) /\ x.pending
      /\ y = P(x.ctx, x.saved, x.built, x.made \cup {obj}, x.pending)
  BY <1>1, <1>2 DEF Does, obj
<1>4. x \in Progress /\ x.ctx = ctx /\ x.saved = saved /\ x.built = built /\ ctx = Right(obj)
  BY <1>2, <1>3 DEF Agrees
<1>5. /\ y \in Progress /\ y.ctx = ctx /\ y.saved = saved /\ y.built = built
      /\ y.made = x.made \cup {obj} /\ y.pending
  BY <1>3, <1>4 DEF P, Progress
<1>6. Right(obj) \in Contexts /\ Right(obj) # None
  BY <1>3, <1>4, RightIsNotNone DEF Progress
<1>7. /\ BinariesOK'
      /\ \A b \in Target \X Instance :
           binary[b] # None \/ (\E j \in jobs : j.of = b) => binary'[b] # None \/ \E j \in jobs' : j.of = b
      /\ Calls(obj[1]) => binary'[obj] # None \/ \E j \in jobs' : j.of = obj
      /\ ~args.parallel => UNCHANGED jobs
  <2>1. CASE args.parallel /\ Calls(obj[1])
    <3> DEFINE j == [of |-> obj, ctx |-> ctx]
    <3>1. jobs' = jobs \cup {j} /\ binary' = binary
      BY <2>1 DEF BuildTarget
    <3>2. j.of = obj /\ j.ctx = Right(obj)
      BY <1>4
    <3> HIDE DEF j
    <3>3. BinariesOK'
      BY <1>3, <3>1, <3>2 DEF SetupInv, BinariesOK
    <3> QED
      BY <2>1, <3>1, <3>2, <3>3
  <2>2. CASE ~args.parallel
    <3>1. jobs' = jobs /\ binary' = [binary EXCEPT ![obj] = ctx]
      BY <2>2 DEF BuildTarget, Calls
    <3>2. /\ binary' \in [Target \X Instance -> Contexts \cup {None}]
          /\ \A b \in Target \X Instance : binary'[b] = IF b = obj THEN ctx ELSE binary[b]
      BY <1>3, <1>4, <1>6, <3>1 DEF SetupInv, BinariesOK
    <3>3. BinariesOK'
      BY <1>4, <3>1, <3>2 DEF SetupInv, BinariesOK
    <3> QED
      BY <1>3, <1>4, <1>6, <3>1, <3>2, <3>3
  <2>3. CASE args.parallel /\ ~Calls(obj[1])
    <3>1. jobs' = jobs /\ binary' = binary
      BY <2>3 DEF BuildTarget
    <3> QED
      BY <2>3, <3>1 DEF SetupInv, BinariesOK
  <2> QED
    BY <2>1, <2>2, <2>3
<1>8. Agrees(y)'
  <2>1. ASSUME NEW b \in y.made, Calls(b[1])' PROVE binary'[b] # None \/ \E j \in jobs' : j.of = b
    <3>1. b \in Target \X Instance /\ Calls(b[1])
      BY <1>1, <1>5, <2>1 DEF Progress, Calls
    <3>2. CASE b = obj
      BY <1>7, <3>1, <3>2
    <3>3. CASE b \in x.made
      <4>1. binary[b] # None \/ \E j \in jobs : j.of = b
        BY <1>2, <3>1, <3>3 DEF Agrees
      <4> QED
        BY <1>7, <3>1, <4>1
    <3> QED
      BY <1>5, <2>1, <3>2, <3>3
  <2> QED
    BY <1>1, <1>5, <2>1 DEF Agrees
<1>9. OnItsWay'
  BY <1>1, <1>2, <1>8 DEF OnItsWay, Advance
<1>10. StageOK'
  BY <1>1 DEF SetupInv, StageOK
<1> QED
  BY <1>1, <1>7, <1>9, <1>10 DEF SetupInv

LEMMA JobDoneStep == ASSUME SetupInv, NEW j \in jobs, JobDone(j) PROVE SetupInv'
<1>1. /\ status = "running" /\ jobs' = jobs \ {j} /\ binary' = [binary EXCEPT ![j.of] = j.ctx]
      /\ UNCHANGED <<todo, stage, args, status, ctx, saved, built>>
  BY DEF JobDone, control
<1>2. PICK x, X : Agrees(x) /\ x \in X /\ Leads(args, todo, X, Ends(args))
  BY <1>1 DEF SetupInv, OnItsWay
<1>3. j.of \in Target \X Instance /\ j.ctx = Right(j.of) /\ j.ctx # None
  BY RightIsNotNone DEF SetupInv, BinariesOK
<1>4. DOMAIN binary = Target \X Instance
  BY DEF SetupInv, BinariesOK
<1>5. \A b \in Target \X Instance : binary'[b] = IF b = j.of THEN j.ctx ELSE binary[b]
  BY <1>1, <1>4
<1>6. j.ctx \in Contexts
  <2>1. j.of[1] \in Objects /\ j.of[2] \in Objects /\ j.of[2] \in Instance
    BY <1>3, SetupAssumption DEF Objects
  <2>2. /\ ToSet(Deps(j.of[1])) \cup ToSet(Deps(j.of[2])) \in SUBSET Package
        /\ <<j.of[2]>> \in Seq(Instance)
    BY <2>1, DepsAreContexts
  <2> QED
    BY <1>3, <2>2 DEF Right, C, Contexts
<1>7. BinariesOK'
  <2>1. binary' \in [Target \X Instance -> Contexts \cup {None}]
    BY <1>1, <1>3, <1>6 DEF SetupInv, BinariesOK
  <2> QED
    BY <1>1, <1>3, <1>5, <2>1 DEF SetupInv, BinariesOK
<1>8. Agrees(x)'
  <2>1. ASSUME NEW b \in x.made, Calls(b[1])' PROVE binary'[b] # None \/ \E k \in jobs' : k.of = b
    <3>1. b \in Target \X Instance /\ Calls(b[1])
      BY <1>1, <1>2, <2>1 DEF Agrees, Progress, Calls
    <3>2. binary[b] # None \/ \E k \in jobs : k.of = b
      BY <1>2, <2>1, <3>1 DEF Agrees
    <3> QED
      BY <1>1, <1>3, <1>5, <3>1, <3>2
  <2> QED
    BY <1>1, <1>2, <2>1 DEF Agrees
<1>9. OnItsWay'
  BY <1>1, <1>2, <1>8 DEF OnItsWay
<1>10. StageOK'
  BY <1>1 DEF SetupInv, StageOK
<1> QED
  BY <1>1, <1>7, <1>9, <1>10 DEF SetupInv

\* The steps of a stage, and going into one.
LEMMA StageStep ==
  ASSUME SetupInv, StartFetch \/ StartOnce \/ StartInstall \/ DoStep
  PROVE  SetupInv'
<1>1. /\ status = "running" /\ UNCHANGED <<todo, built, ctx, saved, jobs, args, status, binary>>
  BY DEF StartFetch, StartOnce, StartInstall, DoStep, Enter, Doing, memory, control, diskVars
<1>2. StageOK'
  <2>1. CASE StartFetch \/ StartOnce \/ StartInstall
    BY <1>1, <2>1 DEF StartFetch, StartOnce, StartInstall, Enter, Doing, obj, SetupInv, StageOK
  <2>2. CASE DoStep
    BY <1>1, <2>2 DEF DoStep, SetupInv, StageOK
  <2> QED
    BY <2>1, <2>2
<1>3. PICK x, X : Agrees(x) /\ x \in X /\ Leads(args, todo, X, Ends(args))
  BY <1>1 DEF SetupInv, OnItsWay
<1>4. Agrees(x)'
  BY <1>1, <1>3 DEF Agrees, Calls
<1>5. OnItsWay'
  BY <1>1, <1>3, <1>4 DEF OnItsWay
<1> QED
  BY <1>1, <1>2, <1>5 DEF SetupInv, BinariesOK

LEMMA EndStep ==
  ASSUME SetupInv, Finish \/ FailStep \/ Interrupt \/ Fatal
  PROVE  SetupInv'
<1>1. /\ status' \in {"done", "failed", "killed", "fatal"} /\ stage' = "none" /\ built' = {} /\ jobs' = {}
      /\ UNCHANGED binary
  BY DEF Finish, FailStep, Interrupt, Fatal, EndAs, diskVars
<1> QED
  BY <1>1 DEF SetupInv, BinariesOK, StageOK

LEMMA BeginStep == ASSUME SetupInv, NEW a \in Commands, Begin(a) PROVE SetupInv'
<1>1. /\ args' = a /\ todo' = PlanOf(a) /\ status' = "running" /\ stage' = "none"
      /\ built' = {} /\ ctx' = Fresh /\ saved' = <<>> /\ jobs' = {} /\ UNCHANGED binary
  BY DEF Begin, diskVars, Plan
<1>2. Start \in Progress
  BY DepsAreContexts, EmptySeq DEF Start, P, Progress
<1>3. Agrees(Start)'
  BY <1>1, <1>2 DEF Agrees, Start, P
<1>4. Leads(a, PlanOf(a), {Start}, Ends(a)) /\ Start \in {Start}
  BY PlanLeads
<1>5. OnItsWay'
  BY <1>1, <1>3, <1>4 DEF OnItsWay
<1> QED
  BY <1>1, <1>5 DEF SetupInv, BinariesOK, StageOK

LEMMA SetupInvHolds == Spec => []SetupInv
<1>1. Init => SetupInv
  BY DEF Init, SetupInv, BinariesOK, StageOK
<1>2. SetupInv /\ [Next]_vars => SetupInv'
  <2> SUFFICES ASSUME SetupInv, [Next]_vars PROVE SetupInv'
    OBVIOUS
  <2>1. CASE Work
    <3>1. CASE \E j \in jobs : JobDone(j)
      BY <3>1, JobDoneStep
    <3> QED
      BY <2>1, <3>1, EnvStep, ConfigureStep, SaveStep, RestoreStep, IdleStep, EndOnceStep, WaitStep,
         CleanStep, BuildTargetStep, StageStep, EndStep DEF Work
  <2>2. CASE Interrupt
    BY <2>2, EndStep
  <2>3. CASE \E a \in Commands : Begin(a)
    BY <2>3, BeginStep
  <2>4. CASE UNCHANGED vars
    <3>1. UNCHANGED <<todo, built, ctx, saved, jobs, args, status, binary, stage>>
      BY <2>4 DEF vars
    <3>2. OnItsWay => OnItsWay'
      BY <3>1 DEF OnItsWay, Agrees, Calls
    <3> QED
      BY <3>1, <3>2 DEF SetupInv, BinariesOK, StageOK
  <2> QED
    BY <2>1, <2>2, <2>3, <2>4 DEF Next
<1> QED
  BY <1>1, <1>2, PTL DEF Spec

\* Theorems -----------------------------------------------------------------------------------

\* While a package is built or installed, what it depends on was built by this command and is
\* in its environment, whatever the graph and the command (build_deps_once, _get_deps).
THEOREM DependenciesReady == Spec => []DependenciesInEnv
<1>1. SetupInv => DependenciesInEnv
  <2> SUFFICES ASSUME SetupInv, stage \in {"build", "install"}
               PROVE  ToSet(Deps(obj)) \subseteq ctx.env \cap built
    BY DEF DependenciesInEnv
  <2>1. status = "running" /\ todo # <<>> /\ Head(todo).op = "once"
    BY DEF SetupInv, StageOK
  <2>2. PICK x, y : Agrees(x) /\ Does(args, Head(todo), x, y)
    BY <2>1, NextOperation DEF SetupInv
  <2>3. ToSet(Deps(Head(todo).obj)) \subseteq x.ctx.env \cap x.built
    BY <2>1, <2>2 DEF Does
  <2> QED
    BY <2>2, <2>3 DEF Agrees, obj
<1> QED
  BY <1>1, SetupInvHolds, PTL

\* A binary, made or in the making, has the context of its own instance and target (the
\* copies of the context in _run_build).
THEOREM ContextsApart == Spec => []NoStacking
<1>1. SetupInv => NoStacking
  BY DEF SetupInv, BinariesOK, NoStacking, Right, C
<1> QED
  BY <1>1, SetupInvHolds, PTL

\* run --build runs binaries that are finished, in their own environment, and a target that
\* runs its hooks in the setup, and so is not built in the pool, finds its binary then.
THEOREM BinariesFinished ==
  ASSUME RunsHooks \cap TakesPool = {}
  PROVE  Spec => []BinariesReady
<1>1. SetupInv => RunsFinishedBinary
  <2> SUFFICES ASSUME SetupInv, Doing("run"), ~Refused, args.build
               PROVE  /\ binary[obj] # None /\ \A j \in jobs : j.of # obj
                      /\ ctx = [env |-> ToSet(Deps(obj[1])) \cup ToSet(Deps(obj[2])), configured |-> <<>>]
    BY DEF RunsFinishedBinary
  <2>1. PICK x, y : Agrees(x) /\ Does(args, Head(todo), x, y)
    BY NextOperation DEF SetupInv, Doing
  <2>2. /\ obj \in x.made /\ ~x.pending
        /\ x.ctx = C(ToSet(Deps(obj[1])) \cup ToSet(Deps(obj[2])), <<>>)
    BY <2>1 DEF Does, Doing, obj
  <2>3. Calls(obj[1]) /\ jobs = {}
    BY <2>1, <2>2 DEF Refused, Agrees
  <2> QED
    BY <2>1, <2>2, <2>3 DEF Agrees, C
<1>2. SetupInv => HooksFindBinary
  <2> SUFFICES ASSUME SetupInv, Doing("hooks"), obj[1] \in RunsHooks, Calls(obj[1]), ~args.relink
               PROVE  binary[obj] = ctx
    BY DEF HooksFindBinary
  <2>1. PICK x, y : Agrees(x) /\ Does(args, Head(todo), x, y)
    BY NextOperation DEF SetupInv, Doing
  <2>2. obj \in Target \X Instance /\ x.ctx = Right(obj) /\ obj \in x.made
    BY <2>1 DEF Does, Doing, obj
  <2>3. jobs = {}
    BY DEF Calls, SetupInv, Doing
  <2>4. binary[obj] # None
    BY <2>1, <2>2, <2>3 DEF Agrees
  <2> QED
    BY <2>1, <2>2, <2>4 DEF Agrees, SetupInv, BinariesOK
<1>3. SetupInv => BinariesReady
  BY <1>1, <1>2 DEF BinariesReady
<1> QED
  BY <1>3, SetupInvHolds, PTL

\* A build that comes to its end has made every target with every instance, unless the pool
\* was given to a target that takes none.
THEOREM AllIsBuilt == Spec => EverythingBuilt
<1> DEFINE A == /\ Finish /\ args.command = "build" /\ ~args.deps_only /\ ~args.dry_run /\ ~args.relink
                => \A b \in ToSet(args.targets) \X ToSet(args.instances) : Calls(b[1]) => binary[b] # None
<1>1. SetupInv => A
  <2> SUFFICES ASSUME SetupInv, Finish, args.command = "build",
                      ~args.deps_only, ~args.dry_run, ~args.relink,
                      NEW b \in ToSet(args.targets) \X ToSet(args.instances), Calls(b[1])
               PROVE  binary[b] # None
    OBVIOUS
  <2>1. status = "running" /\ todo = <<>>
    BY DEF Finish
  <2>2. PICK x, X : Agrees(x) /\ x \in X /\ Leads(args, <<>>, X, Ends(args))
    BY <2>1 DEF SetupInv, OnItsWay
  <2>3. x \in Ends(args)
    BY <2>2, LeadsToEnd
  <2>4. b \in x.made /\ ~x.pending
    BY <2>3 DEF Ends, Makes
  <2> QED
    BY <2>2, <2>4 DEF Agrees
<1>2. SetupInv /\ [Next]_vars => [A]_vars
  BY <1>1
<1> HIDE DEF A
<1>3. Spec => [][A]_vars
  BY <1>2, SetupInvHolds, PTL DEF Spec
<1> QED
  BY <1>3 DEF A, EverythingBuilt

\* Commands, stages, contexts and interrupts together implement the abstract build: packages
\* become ready one at a time, each after those it needs, and all of that ends with the command.
THEOREM SetupImplementsBuildOrder == Spec => RefinesBuildOrder
<1>1. Init => Order!Init
  BY DEF Init, Order!Init
<1>2. SetupInv /\ [Next]_vars => [Order!Next]_built
  <2> SUFFICES ASSUME SetupInv, [Next]_vars, built' # built PROVE Order!Next
    OBVIOUS
  <2>1. CASE EndOnce
    <3>1. status = "running" /\ todo # <<>> /\ Head(todo).op = "once" /\ obj \notin built
      BY <2>1 DEF EndOnce, SetupInv, StageOK, obj
    <3>2. PICK x, y : Agrees(x) /\ Does(args, Head(todo), x, y)
      BY <3>1, NextOperation DEF SetupInv
    <3>3. obj \in Package /\ ToSet(Deps(obj)) \subseteq built
      BY <3>1, <3>2 DEF Does, Agrees, obj
    <3>4. ToSet(graph[obj]) \subseteq ToSet(Deps(obj))
      BY <3>3, UnseenShrinks, DepsRight
    <3>5. Order!MakeReady(obj)
      BY <2>1, <3>1, <3>3, <3>4 DEF EndOnce, Order!MakeReady
    <3> QED
      BY <3>3, <3>5 DEF Order!Next
  <2>2. CASE built' = {}
    BY <2>2 DEF Order!Next, Order!EndCommand
  <2>3. EndOnce \/ built' = {}
    BY DEF Next, Work, vars, Finish, Interrupt, Begin, FailStep, Fatal, EndAs, StartFetch, StartOnce, SkipOnce,
       StartInstall, DoStep, EndFetch, Env, Configure, Save, Restore, Clean, BuildTarget, Hooks, RunTarget,
       WaitAll, JobDone, Enter, Quick, memory
  <2> QED
    BY <2>1, <2>2, <2>3
<1> QED
  BY <1>1, <1>2, SetupInvHolds, PTL DEF Spec, RefinesBuildOrder, Order!Spec
=============================================================================
