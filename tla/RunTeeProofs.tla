---------------------------- MODULE RunTeeProofs ----------------------------
(***************************************************************************)
(* The run log and the results of run(), for any commands, tees, pipes and *)
(* reads: what a command printed gets into the log whole and in order, and *)
(* the results keep the order of the output.                               *)
(***************************************************************************)
EXTENDS RunTee, SequenceTheorems, WellFoundedInduction, TLAPS

\* Numbers and sequences -------------------------------------------------------------------

\* Induction, for a set that is given.
LEMMA Induction ==
  ASSUME NEW T, 0 \in T, \A n \in Nat : n \in T => n + 1 \in T
  PROVE  Nat \subseteq T
<1> DEFINE R == {p \in Nat \X Nat : p[1] < p[2]}
<1> SUFFICES ASSUME Nat \ T # {} PROVE FALSE
  OBVIOUS
<1>1. IsWellFoundedOn(R, Nat)
  BY NatLessThanWellFounded DEF OpToRel
<1> HIDE DEF R
<1>2. PICK m \in Nat \ T : \A y \in Nat \ T : ~(<<y, m>> \in R)
  BY <1>1, WFMin
<1>3. \A y \in Nat \ T : ~(y < m)
  BY <1>2 DEF R
<1>4. m - 1 \in Nat /\ m - 1 \in T /\ m = (m - 1) + 1
  BY <1>3
<1> QED
  BY <1>4

\* Of three lists: by its name, so that the provers do not look for it everywhere.
Associates(a, b, c) == (a \o b) \o c = a \o (b \o c)

LEMMA Associative ==
  ASSUME NEW S, NEW a \in Seq(S), NEW b \in Seq(S), NEW c \in Seq(S)
  PROVE  Associates(a, b, c)
  BY ConcatAssociative DEF Associates

\* g has the beginnings of the flattened list.
Flattens(g, seqs) ==
  \A i \in 1 .. Len(seqs) : g[i] = IF i = 1 THEN seqs[i] ELSE g[i - 1] \o seqs[i]

LEMMA FlattensExists ==
  ASSUME NEW S, NEW seqs \in Seq(S)
  PROVE  \E g : Flattens(g, seqs) /\ g = [i \in 1 .. Len(seqs) |-> g[i]]
<1> DEFINE Upto(n) == \E g : \A i \in 1 .. n : g[i] = IF i = 1 THEN seqs[i] ELSE g[i - 1] \o seqs[i]
           T == {n \in Nat : Upto(n)}
<1>1. 0 \in T
  OBVIOUS
<1>2. ASSUME NEW n \in Nat, n \in T PROVE n + 1 \in T
  <2>1. PICK g : \A i \in 1 .. n : g[i] = IF i = 1 THEN seqs[i] ELSE g[i - 1] \o seqs[i]
    BY <1>2
  <2> DEFINE v == IF n + 1 = 1 THEN seqs[n + 1] ELSE g[n] \o seqs[n + 1]
             h == [i \in 1 .. (n + 1) |-> IF i = n + 1 THEN v ELSE g[i]]
  <2>2. ASSUME NEW i \in 1 .. (n + 1)
        PROVE  h[i] = IF i = 1 THEN seqs[i] ELSE h[i - 1] \o seqs[i]
    <3>1. CASE i = n + 1
      <4>1. h[i] = v /\ (i # 1 => h[i - 1] = g[n])
        BY <3>1
      <4> QED
        BY <3>1, <4>1
    <3>2. CASE i # n + 1
      <4>1. i \in 1 .. n /\ h[i] = g[i] /\ (i # 1 => h[i - 1] = g[i - 1])
        BY <3>2
      <4> QED
        BY <2>1, <4>1
    <3> QED
      BY <3>1, <3>2
  <2> HIDE DEF h
  <2>3. Upto(n + 1)
    BY <2>2
  <2> QED
    BY <2>3
<1> HIDE DEF T
<1>3. Len(seqs) \in T
  BY <1>1, <1>2, Induction, LenProperties
<1>4. PICK g : \A i \in 1 .. Len(seqs) : g[i] = IF i = 1 THEN seqs[i] ELSE g[i - 1] \o seqs[i]
  BY <1>3 DEF T
<1> DEFINE h == [i \in 1 .. Len(seqs) |-> g[i]]
<1>5. Len(seqs) \in Nat
  BY LenProperties
<1>6. ASSUME NEW i \in 1 .. Len(seqs)
      PROVE  h[i] = IF i = 1 THEN seqs[i] ELSE h[i - 1] \o seqs[i]
  <2>1. h[i] = g[i] /\ (i # 1 => h[i - 1] = g[i - 1])
    BY <1>5
  <2> QED
    BY <1>4, <2>1
<1> QED
  BY <1>6 DEF Flattens

\* A list of lists is flattened from left to right.
LEMMA FlattenIs ==
  ASSUME NEW S, NEW seqs \in Seq(S)
  PROVE  /\ seqs = <<>> => FlattenSeq(seqs) = <<>>
         /\ seqs # <<>> => \E g : Flattens(g, seqs) /\ FlattenSeq(seqs) = g[Len(seqs)]
<1>1. Len(seqs) \in Nat /\ (Len(seqs) = 0 <=> seqs = <<>>)
  BY LenProperties, EmptySeq
<1>2. CASE seqs = <<>>
  BY <1>1, <1>2 DEF FlattenSeq
<1>3. CASE seqs # <<>>
  <2> DEFINE P(g) == g = [i \in 1 .. Len(seqs) |-> IF i = 1 THEN seqs[i] ELSE g[i - 1] \o seqs[i]]
             c == CHOOSE g : P(g)
  <2>1. \E g : P(g)
    <3>1. PICK g : Flattens(g, seqs) /\ g = [i \in 1 .. Len(seqs) |-> g[i]]
      BY FlattensExists
    <3>2. [i \in 1 .. Len(seqs) |-> g[i]]
            = [i \in 1 .. Len(seqs) |-> IF i = 1 THEN seqs[i] ELSE g[i - 1] \o seqs[i]]
      BY <3>1 DEF Flattens
    <3> QED
      BY <3>1, <3>2
  <2>2. P(c)
    BY <2>1
  <2>3. FlattenSeq(seqs) = c[Len(seqs)]
    BY <1>1, <1>3 DEF FlattenSeq
  <2> HIDE DEF c
  <2>4. Flattens(c, seqs)
    BY <2>2 DEF Flattens
  <2> QED
    BY <1>3, <2>3, <2>4
<1> QED
  BY <1>2, <1>3

\* One list more adds what it has.
LEMMA FlattenMore ==
  ASSUME NEW S, NEW s \in Seq(Seq(S)), NEW t \in Seq(Seq(S)), Len(t) = Len(s) + 1,
         \A i \in 1 .. Len(s) : t[i] = s[i]
  PROVE  FlattenSeq(t) = FlattenSeq(s) \o t[Len(t)]
<1>1. Len(s) \in Nat /\ Len(t) \in Nat /\ t # <<>> /\ (Len(s) = 0 <=> s = <<>>)
  BY LenProperties, EmptySeq
<1>2. PICK h : Flattens(h, t) /\ FlattenSeq(t) = h[Len(t)]
  BY <1>1, FlattenIs
<1>3. t[Len(t)] \in Seq(S)
  BY <1>1, ElementOfSeq
<1>4. CASE s = <<>>
  <2>1. FlattenSeq(t) = t[Len(t)]
    BY <1>1, <1>2, <1>4 DEF Flattens
  <2> QED
    BY <1>3, <1>4, <2>1, FlattenIs, EmptySeq, ConcatEmptySeq
<1>5. CASE s # <<>>
  <2>1. PICK g : Flattens(g, s) /\ FlattenSeq(s) = g[Len(s)]
    BY <1>5, FlattenIs
  <2> DEFINE T == {n \in Nat : n + 1 \in 1 .. Len(s) => h[n + 1] = g[n + 1]}
  <2>2. 0 \in T
    <3>1. 1 \in 1 .. Len(s) => h[1] = t[1] /\ g[1] = s[1] /\ t[1] = s[1]
      BY <1>1, <1>2, <2>1 DEF Flattens
    <3> QED
      BY <3>1
  <2>3. ASSUME NEW n \in Nat, n \in T PROVE n + 1 \in T
    <3> SUFFICES ASSUME n + 2 \in 1 .. Len(s) PROVE h[n + 2] = g[n + 2]
      OBVIOUS
    <3>1. n + 1 \in 1 .. Len(s) /\ n + 2 \in 1 .. Len(t) /\ n + 2 # 1 /\ (n + 2) - 1 = n + 1
      BY <1>1
    <3>2. h[n + 1] = g[n + 1] /\ t[n + 2] = s[n + 2]
      BY <2>3, <3>1
    <3>3. h[n + 2] = h[n + 1] \o t[n + 2] /\ g[n + 2] = g[n + 1] \o s[n + 2]
      BY <1>2, <2>1, <3>1 DEF Flattens
    <3> QED
      BY <3>2, <3>3
  <2> HIDE DEF T
  <2>4. Nat \subseteq T
    BY <2>2, <2>3, Induction
  <2>5. h[Len(s)] = g[Len(s)]
    <3>1. Len(s) - 1 \in Nat /\ (Len(s) - 1) + 1 = Len(s) /\ Len(s) \in 1 .. Len(s)
      BY <1>1, <1>5
    <3> QED
      BY <2>4, <3>1 DEF T
  <2>6. Len(t) \in 1 .. Len(t) /\ Len(t) # 1 /\ Len(t) - 1 = Len(s)
    BY <1>1, <1>5
  <2>7. h[Len(t)] = h[Len(s)] \o t[Len(t)]
    BY <1>2, <2>6 DEF Flattens
  <2> QED
    BY <1>2, <2>1, <2>5, <2>7
<1> QED
  BY <1>4, <1>5

\* What holds of the empty list, and of a list with one more element, holds of all lists.
LEMMA ListInduction ==
  ASSUME NEW S, NEW T, <<>> \in T,
         \A s \in Seq(S), x \in S : s \in T => Append(s, x) \in T
  PROVE  Seq(S) \subseteq T
<1> DEFINE U == {n \in Nat : \A s \in Seq(S) : Len(s) = n => s \in T}
<1>1. 0 \in U
  BY EmptySeq
<1>2. ASSUME NEW n \in Nat, n \in U PROVE n + 1 \in U
  <2> SUFFICES ASSUME NEW s \in Seq(S), Len(s) = n + 1 PROVE s \in T
    OBVIOUS
  <2> DEFINE f == SubSeq(s, 1, n)
  <2>1. \A i \in 1 .. n + 1 : s[i] \in S
    BY ElementOfSeq
  <2>2. f \in Seq(S) /\ Len(f) = n /\ \A i \in 1 .. n : f[i] = s[i]
    BY <2>1, SubSeqProperties
  <2> HIDE DEF f
  <2>3. s[n + 1] \in S /\ Append(f, s[n + 1]) \in Seq(S) /\ Len(Append(f, s[n + 1])) = n + 1
    BY <2>1, <2>2
  <2>4. \A i \in 1 .. n + 1 : Append(f, s[n + 1])[i] = s[i]
    BY <2>2
  <2>5. Append(f, s[n + 1]) = s
    BY <2>3, <2>4, SeqEqual
  <2> QED
    BY <1>2, <2>2, <2>3, <2>5
<1> HIDE DEF U
<1>3. Nat \subseteq U
  BY <1>1, <1>2, Induction
<1> QED
  BY <1>3, LenProperties DEF U

\* The empty list of lists.
LEMMA FlattenNothing == FlattenSeq(<<>>) = <<>>
BY FlattenIs, EmptySeq

LEMMA FlattenType ==
  ASSUME NEW S, NEW s \in Seq(Seq(S))
  PROVE  FlattenSeq(s) \in Seq(S)
<1> DEFINE T == {u \in Seq(Seq(S)) : FlattenSeq(u) \in Seq(S)}
<1>1. <<>> \in T
  BY FlattenNothing, EmptySeq
<1>2. ASSUME NEW u \in Seq(Seq(S)), NEW x \in Seq(S), u \in T PROVE Append(u, x) \in T
  <2>1. /\ Append(u, x) \in Seq(Seq(S)) /\ Len(Append(u, x)) = Len(u) + 1
        /\ \A i \in 1 .. Len(u) : Append(u, x)[i] = u[i]
        /\ Append(u, x)[Len(u) + 1] = x
    BY LenProperties
  <2>2. FlattenSeq(Append(u, x)) = FlattenSeq(u) \o x
    BY <2>1, FlattenMore
  <2>3. FlattenSeq(u) \o x \in Seq(S)
    BY <1>2, ConcatProperties
  <2> QED
    BY <2>1, <2>2, <2>3
<1> HIDE DEF T
<1>3. Seq(Seq(S)) \subseteq T
  BY <1>1, <1>2, ListInduction
<1> QED
  BY <1>3 DEF T

\* The last list of t has v behind what the last list of s has.
Longer(s, t, v) ==
  /\ s # <<>> /\ Len(t) = Len(s) /\ \A i \in 1 .. Len(s) - 1 : t[i] = s[i]
  /\ t[Len(s)] = s[Len(s)] \o v

\* More in the last list is more at the end.
LEMMA FlattenLonger ==
  ASSUME NEW S, NEW s \in Seq(Seq(S)), NEW t \in Seq(Seq(S)), NEW v \in Seq(S), Longer(s, t, v)
  PROVE  FlattenSeq(t) = FlattenSeq(s) \o v
<1> DEFINE n == Len(s)
           f == SubSeq(s, 1, n - 1)
           F == FlattenSeq(f)
           w == s[n]
<1>1. n \in Nat \ {0} /\ \A i \in 1 .. n : s[i] \in Seq(S)
  BY EmptySeq, ElementOfSeq DEF Longer
<1> HIDE DEF n
<1>2. f \in Seq(Seq(S)) /\ Len(f) = n - 1 /\ \A i \in 1 .. n - 1 : f[i] = s[i]
  <2>1. \A i \in 1 .. n - 1 : s[i] \in Seq(S)
    BY <1>1
  <2> QED
    BY <1>1, <2>1, SubSeqProperties
<1> HIDE DEF f
<1>3. /\ Len(s) = Len(f) + 1 /\ \A i \in 1 .. Len(f) : s[i] = f[i]
      /\ Len(t) = Len(f) + 1 /\ \A i \in 1 .. Len(f) : t[i] = f[i]
      /\ Len(s) = n /\ Len(t) = n
  BY <1>1, <1>2 DEF n, Longer
<1>4. FlattenSeq(s) = F \o w
  <2>1. /\ Len(s) = Len(f) + 1 /\ \A i \in 1 .. Len(f) : s[i] = f[i]
        /\ Len(s) = n /\ f \in Seq(Seq(S))
    BY <1>2, <1>3
  <2>2. FlattenSeq(s) = FlattenSeq(f) \o s[Len(s)]
    BY <2>1, FlattenMore
  <2> QED
    BY <2>1, <2>2
<1>5. FlattenSeq(t) = F \o t[n]
  <2>1. /\ Len(t) = Len(f) + 1 /\ \A i \in 1 .. Len(f) : t[i] = f[i]
        /\ Len(t) = n /\ f \in Seq(Seq(S))
    BY <1>2, <1>3
  <2>2. FlattenSeq(t) = FlattenSeq(f) \o t[Len(t)]
    BY <2>1, FlattenMore
  <2> QED
    BY <2>1, <2>2
<1>6. F \in Seq(S) /\ w \in Seq(S)
  BY <1>1, <1>2, FlattenType DEF n
<1>7. t[n] = w \o v
  BY DEF n, Longer
<1> HIDE DEF F, w
<1>8. F \o (w \o v) = (F \o w) \o v
  <2>1. Associates(F, w, v)
    BY <1>6, Associative
  <2> QED
    BY <2>1 DEF Associates
<1> QED
  BY <1>4, <1>5, <1>7, <1>8

\* Empty lists add nothing.
LEMMA FlattenEmpty ==
  ASSUME NEW S, NEW s \in Seq(Seq(S)), \A i \in 1 .. Len(s) : s[i] = <<>>
  PROVE  FlattenSeq(s) = <<>>
<1> DEFINE T == {u \in Seq(Seq(S)) : (\A i \in 1 .. Len(u) : u[i] = <<>>) => FlattenSeq(u) = <<>>}
<1>1. <<>> \in T
  BY FlattenNothing, EmptySeq
<1>2. ASSUME NEW u \in Seq(Seq(S)), NEW x \in Seq(S), u \in T PROVE Append(u, x) \in T
  <2>1. /\ Append(u, x) \in Seq(Seq(S)) /\ Len(Append(u, x)) = Len(u) + 1 /\ Len(u) \in Nat
        /\ \A i \in 1 .. Len(u) : Append(u, x)[i] = u[i]
        /\ Append(u, x)[Len(u) + 1] = x
    BY LenProperties
  <2>2. FlattenSeq(Append(u, x)) = FlattenSeq(u) \o x
    BY <2>1, FlattenMore
  <2> SUFFICES ASSUME \A i \in 1 .. Len(Append(u, x)) : Append(u, x)[i] = <<>>
               PROVE  FlattenSeq(Append(u, x)) = <<>>
    BY <2>1
  <2>3. x = <<>> /\ \A i \in 1 .. Len(u) : u[i] = <<>>
    BY <2>1
  <2>4. FlattenSeq(u) = <<>> /\ <<>> \o <<>> = <<>>
    BY <1>2, <2>3
  <2> QED
    BY <2>2, <2>3, <2>4
<1> HIDE DEF T
<1>3. Seq(Seq(S)) \subseteq T
  BY <1>1, <1>2, ListInduction
<1> QED
  BY <1>3 DEF T

\* Output -----------------------------------------------------------------------------------

\* x is what a command of cs printed.
Ours(cs, x) == x.n # 0 /\ x.of \in cs
Kept(cs, s) == [i \in DOMAIN s |-> IF Ours(cs, s[i]) THEN <<s[i]>> ELSE <<>>]

LEMMA KeptIs ==
  ASSUME NEW S, NEW cs, NEW s \in Seq(S)
  PROVE  /\ Kept(cs, s) \in Seq(Seq(S)) /\ Len(Kept(cs, s)) = Len(s)
         /\ \A i \in 1 .. Len(s) : Kept(cs, s)[i] = IF Ours(cs, s[i]) THEN <<s[i]>> ELSE <<>>
         /\ PrintedBy(cs, s) = FlattenSeq(Kept(cs, s))
         /\ PrintedBy(cs, s) \in Seq(S)
<1>1. Len(s) \in Nat /\ DOMAIN s = 1 .. Len(s) /\ \A i \in 1 .. Len(s) : s[i] \in S
  BY LenProperties, ElementOfSeq
<1>2. \A i \in 1 .. Len(s) : (IF Ours(cs, s[i]) THEN <<s[i]>> ELSE <<>>) \in Seq(S)
  BY <1>1
<1>3. Kept(cs, s) \in Seq(Seq(S)) /\ Len(Kept(cs, s)) = Len(s)
  BY <1>1, <1>2 DEF Kept
<1>4. PrintedBy(cs, s) = FlattenSeq(Kept(cs, s))
  BY DEF PrintedBy, Kept, Ours
<1>5. PrintedBy(cs, s) \in Seq(S)
  BY <1>3, <1>4, FlattenType
<1> QED
  BY <1>1, <1>3, <1>4, <1>5 DEF Kept

LEMMA PrintedNone ==
  ASSUME NEW S, NEW cs, NEW s \in Seq(S), \A i \in 1 .. Len(s) : ~Ours(cs, s[i])
  PROVE  PrintedBy(cs, s) = <<>>
<1>1. Kept(cs, s) \in Seq(Seq(S)) /\ PrintedBy(cs, s) = FlattenSeq(Kept(cs, s))
  BY KeptIs
<1>2. \A i \in 1 .. Len(Kept(cs, s)) : Kept(cs, s)[i] = <<>>
  BY KeptIs
<1> QED
  BY <1>1, <1>2, FlattenEmpty

LEMMA PrintedNothing ==
  ASSUME NEW cs PROVE PrintedBy(cs, <<>>) = <<>>
<1>1. <<>> \in Seq({}) /\ \A i \in 1 .. Len(<<>>) : ~Ours(cs, <<>>[i])
  BY EmptySeq
<1> QED
  BY <1>1, PrintedNone

LEMMA PrintedAppend ==
  ASSUME NEW S, NEW cs, NEW s \in Seq(S), NEW x \in S
  PROVE  PrintedBy(cs, Append(s, x)) = IF Ours(cs, x) THEN PrintedBy(cs, s) \o <<x>> ELSE PrintedBy(cs, s)
<1> DEFINE t == Append(s, x)
<1>1. /\ t \in Seq(S) /\ Len(t) = Len(s) + 1 /\ Len(s) \in Nat
      /\ t[Len(s) + 1] = x /\ \A i \in 1 .. Len(s) : t[i] = s[i]
  BY LenProperties
<1> HIDE DEF t
<1> DEFINE u == Kept(cs, s)
           v == Kept(cs, t)
<1>2. /\ u \in Seq(Seq(S)) /\ Len(u) = Len(s) /\ PrintedBy(cs, s) = FlattenSeq(u)
      /\ \A i \in 1 .. Len(s) : u[i] = IF Ours(cs, s[i]) THEN <<s[i]>> ELSE <<>>
      /\ PrintedBy(cs, s) \in Seq(S)
  BY KeptIs
<1>3. /\ v \in Seq(Seq(S)) /\ Len(v) = Len(t) /\ PrintedBy(cs, t) = FlattenSeq(v)
      /\ \A i \in 1 .. Len(t) : v[i] = IF Ours(cs, t[i]) THEN <<t[i]>> ELSE <<>>
  BY <1>1, KeptIs
<1> HIDE DEF u, v
<1>4. Len(v) = Len(u) + 1 /\ \A i \in 1 .. Len(u) : v[i] = u[i]
  <2> SUFFICES ASSUME NEW i \in 1 .. Len(s) PROVE v[i] = u[i]
    BY <1>1, <1>2, <1>3
  <2>1. i \in 1 .. Len(t) /\ t[i] = s[i]
    BY <1>1
  <2> QED
    BY <1>2, <1>3, <2>1
<1>5. FlattenSeq(v) = FlattenSeq(u) \o v[Len(v)]
  BY <1>2, <1>3, <1>4, FlattenMore
<1>6. v[Len(v)] = IF Ours(cs, x) THEN <<x>> ELSE <<>>
  BY <1>1, <1>3
<1>7. PrintedBy(cs, s) \o <<>> = PrintedBy(cs, s)
  BY <1>2, ConcatEmptySeq
<1>8. PrintedBy(cs, t) = PrintedBy(cs, s) \o v[Len(v)]
  BY <1>2, <1>3, <1>5
<1> QED
  BY <1>6, <1>7, <1>8 DEF t

LEMMA PrintedConcat ==
  ASSUME NEW S, NEW cs, NEW s \in Seq(S), NEW u \in Seq(S)
  PROVE  PrintedBy(cs, s \o u) = PrintedBy(cs, s) \o PrintedBy(cs, u)
<1> DEFINE T == {w \in Seq(S) : PrintedBy(cs, s \o w) = PrintedBy(cs, s) \o PrintedBy(cs, w)}
<1>0. PrintedBy(cs, s) \in Seq(S)
  BY KeptIs
<1>1. <<>> \in T
  <2>1. s \o <<>> = s /\ PrintedBy(cs, s) \o <<>> = PrintedBy(cs, s) /\ <<>> \in Seq(S)
    BY <1>0, ConcatEmptySeq, EmptySeq
  <2> QED
    BY <2>1, PrintedNothing
<1>2. ASSUME NEW w \in Seq(S), NEW x \in S, w \in T PROVE Append(w, x) \in T
  <2> DEFINE a == PrintedBy(cs, s)
             b == PrintedBy(cs, w)
             c == s \o w
  <2>1. a \in Seq(S) /\ b \in Seq(S) /\ c \in Seq(S)
    BY KeptIs, ConcatProperties
  <2>2. s \o Append(w, x) = Append(c, x) /\ Append(w, x) \in Seq(S)
    OBVIOUS
  <2>3. PrintedBy(cs, c) = a \o b
    BY <1>2
  <2> HIDE DEF c
  <2>4. PrintedBy(cs, Append(c, x)) = IF Ours(cs, x) THEN (a \o b) \o <<x>> ELSE a \o b
    BY <2>1, <2>3, PrintedAppend, ZenonT(30)
  <2>5. PrintedBy(cs, Append(w, x)) = IF Ours(cs, x) THEN b \o <<x>> ELSE b
    BY PrintedAppend
  <2> HIDE DEF a, b
  <2>6. (a \o b) \o <<x>> = a \o (b \o <<x>>)
    <3> DEFINE y == <<x>>
    <3>1. y \in Seq(S)
      OBVIOUS
    <3> HIDE DEF y
    <3>2. (a \o b) \o y = a \o (b \o y)
      <4>1. Associates(a, b, y)
        BY <2>1, <3>1, Associative
      <4> QED
        BY <4>1 DEF Associates
    <3> QED
      BY <3>2 DEF y
  <2>7. PrintedBy(cs, s \o Append(w, x)) = a \o PrintedBy(cs, Append(w, x))
    BY <2>2, <2>4, <2>5, <2>6
  <2> QED
    BY <2>2, <2>7 DEF a
<1> HIDE DEF T
<1>3. Seq(S) \subseteq T
  BY <1>1, <1>2, ListInduction
<1> QED
  BY <1>3 DEF T

LEMMA PrintedAll ==
  ASSUME NEW S, NEW cs, NEW s \in Seq(S), \A x \in S : Ours(cs, x)
  PROVE  PrintedBy(cs, s) = s
<1> DEFINE T == {w \in Seq(S) : PrintedBy(cs, w) = w}
<1>1. <<>> \in T
  BY EmptySeq, PrintedNothing
<1>2. ASSUME NEW w \in Seq(S), NEW x \in S, w \in T PROVE Append(w, x) \in T
  <2>1. PrintedBy(cs, Append(w, x)) = PrintedBy(cs, w) \o <<x>>
    BY PrintedAppend
  <2>2. w \o <<x>> = Append(w, x) /\ Append(w, x) \in Seq(S)
    OBVIOUS
  <2> QED
    BY <1>2, <2>1, <2>2
<1> HIDE DEF T
<1>3. Seq(S) \subseteq T
  BY <1>1, <1>2, ListInduction
<1> QED
  BY <1>3 DEF T

LEMMA PrintedSame ==
  ASSUME NEW S, NEW cs, NEW ds, NEW s \in Seq(S), \A x \in S : x.of \in cs <=> x.of \in ds
  PROVE  PrintedBy(cs, s) = PrintedBy(ds, s)
<1>1. \A i \in DOMAIN s : s[i] \in S
  BY LenProperties, ElementOfSeq
<1>2. Kept(cs, s) = Kept(ds, s)
  BY <1>1 DEF Kept, Ours
<1> QED
  BY <1>2, KeptIs

\* Order ------------------------------------------------------------------------------------

Less(x, y) == x.of < y.of \/ (x.of = y.of /\ x.n < y.n)

LEMMA AscendingPart ==
  ASSUME NEW S, NEW a \in Seq(S), NEW b \in Seq(S), NEW c \in Seq(S), Ascending((a \o b) \o c)
  PROVE  Ascending(a \o c)
<1> DEFINE m == Len(a)
           n == Len(b)
           u == (a \o b) \o c
           v == a \o c
<1>1. /\ m \in Nat /\ n \in Nat /\ Len(c) \in Nat /\ a \o b \in Seq(S)
      /\ u \in Seq(S) /\ Len(u) = m + n + Len(c) /\ v \in Seq(S) /\ Len(v) = m + Len(c)
      /\ DOMAIN u = 1 .. Len(u) /\ DOMAIN v = 1 .. Len(v)
  BY LenProperties, ConcatProperties
<1>2. \A i \in 1 .. Len(v) : v[i] = IF i <= m THEN a[i] ELSE c[i - m]
  BY <1>1, ConcatProperties
<1>3. \A i \in 1 .. m + n : (a \o b)[i] = IF i <= m THEN a[i] ELSE b[i - m]
  BY ConcatProperties
<1>4. Len(a \o b) = m + n
  BY ConcatProperties
<1>5. \A i \in 1 .. Len(u) : u[i] = IF i <= m + n THEN (a \o b)[i] ELSE c[i - (m + n)]
  BY <1>1, <1>4, ConcatProperties
<1>6. \A i \in 1 .. Len(v) : /\ (IF i <= m THEN i ELSE i + n) \in 1 .. Len(u)
                             /\ v[i] = u[IF i <= m THEN i ELSE i + n]
  <2> SUFFICES ASSUME NEW i \in 1 .. Len(v)
               PROVE  /\ (IF i <= m THEN i ELSE i + n) \in 1 .. Len(u)
                      /\ v[i] = u[IF i <= m THEN i ELSE i + n]
    OBVIOUS
  <2> HIDE DEF u, v, m, n
  <2>1. CASE i <= m
    <3>1. i \in 1 .. m + n /\ i \in 1 .. Len(u) /\ i <= m + n
      BY <1>1, <2>1
    <3> QED
      BY <1>2, <1>3, <1>5, <2>1, <3>1
  <2>2. CASE ~(i <= m)
    <3>1. i + n \in 1 .. Len(u) /\ ~(i + n <= m + n) /\ (i + n) - (m + n) = i - m
      BY <1>1, <2>2
    <3> QED
      BY <1>2, <1>5, <2>2, <3>1
  <2> QED
    BY <2>1, <2>2
<1> HIDE DEF u, v, m, n
<1>7. \A i, j \in 1 .. Len(u) : i < j => Less(u[i], u[j])
  BY <1>1 DEF Ascending, u, Less
<1>8. ASSUME NEW i \in 1 .. Len(v), NEW j \in 1 .. Len(v), i < j PROVE Less(v[i], v[j])
  <2> DEFINE p == IF i <= m THEN i ELSE i + n
             q == IF j <= m THEN j ELSE j + n
  <2>1. p < q
    BY <1>1, <1>8
  <2>2. p \in 1 .. Len(u) /\ q \in 1 .. Len(u) /\ v[i] = u[p] /\ v[j] = u[q]
    BY <1>6
  <2> HIDE DEF p, q
  <2> QED
    BY <1>7, <2>1, <2>2
<1>9. Ascending(v)
  BY <1>1, <1>8 DEF Ascending, Less
<1> QED
  BY <1>9 DEF v

LEMMA AscendingFront ==
  ASSUME NEW S, NEW a \in Seq(S), NEW b \in Seq(S), Ascending(a \o b)
  PROVE  Ascending(a)
<1>1. <<>> \in Seq(S) /\ (a \o b) \o <<>> = a \o b /\ a \o <<>> = a
  BY EmptySeq, ConcatEmptySeq, ConcatProperties
<1>2. Ascending(a \o <<>>)
  BY <1>1, AscendingPart
<1> QED
  BY <1>1, <1>2

LEMMA AscendingAppend ==
  ASSUME NEW S, NEW a \in Seq(S), NEW x \in S, Ascending(a), \A i \in 1 .. Len(a) : Less(a[i], x)
  PROVE  Ascending(a \o <<x>>)
<1> DEFINE v == a \o <<x>>
<1>1. /\ Len(a) \in Nat /\ DOMAIN a = 1 .. Len(a) /\ DOMAIN v = 1 .. Len(a) + 1
      /\ v[Len(a) + 1] = x /\ \A i \in 1 .. Len(a) : v[i] = a[i]
  BY LenProperties
<1> HIDE DEF v
<1>2. \A i, j \in 1 .. Len(a) : i < j => Less(a[i], a[j])
  BY <1>1 DEF Ascending, Less
<1>3. \A i, j \in 1 .. Len(a) + 1 : i < j => Less(v[i], v[j])
  <2> SUFFICES ASSUME NEW i \in 1 .. Len(a) + 1, NEW j \in 1 .. Len(a) + 1, i < j
               PROVE  Less(v[i], v[j])
    OBVIOUS
  <2>1. i \in 1 .. Len(a)
    BY <1>1
  <2>2. CASE j = Len(a) + 1
    BY <1>1, <2>1, <2>2
  <2>3. CASE j # Len(a) + 1
    <3>1. j \in 1 .. Len(a)
      BY <1>1, <2>3
    <3> QED
      BY <1>1, <1>2, <2>1, <3>1
  <2> QED
    BY <2>2, <2>3
<1> QED
  BY <1>1, <1>3 DEF Ascending, Less, v

\* A tee ------------------------------------------------------------------------------------

\* A set of naturals that is not empty has a least element.
LEMMA Least ==
  ASSUME NEW T, T \subseteq Nat, T # {}
  PROVE  Min(T) \in T /\ \A k \in T : Min(T) <= k
<1> DEFINE R == {p \in Nat \X Nat : p[1] < p[2]}
<1>1. IsWellFoundedOn(R, Nat)
  BY NatLessThanWellFounded DEF OpToRel
<1> HIDE DEF R
<1>2. \E m \in T : \A y \in T : ~(<<y, m>> \in R)
  BY <1>1, WFMin
<1>3. \A m, y \in T : ~(<<y, m>> \in R) => m <= y
  BY DEF R
<1>4. \E m \in T : \A y \in T : m <= y
  BY <1>2, <1>3
<1> QED
  BY <1>4 DEF Min

\* A list in two parts.
LEMMA CutOff ==
  ASSUME NEW S, NEW b \in Seq(S), NEW n \in 1 .. Len(b)
  PROVE  /\ SubSeq(b, 1, n) \in Seq(S) /\ SubSeq(b, n + 1, Len(b)) \in Seq(S)
         /\ SubSeq(b, 1, n) \o SubSeq(b, n + 1, Len(b)) = b
<1> DEFINE u == SubSeq(b, 1, n)
           v == SubSeq(b, n + 1, Len(b))
<1>1. Len(b) \in Nat /\ n \in Nat /\ 1 <= n /\ n <= Len(b) /\ \A i \in 1 .. Len(b) : b[i] \in S
  BY LenProperties, ElementOfSeq
<1>2. u \in Seq(S) /\ Len(u) = n /\ \A i \in 1 .. n : u[i] = b[i]
  <2>1. \A i \in 1 .. n : b[i] \in S
    BY <1>1
  <2> QED
    BY <1>1, <2>1, SubSeqProperties
<1>3. v \in Seq(S) /\ Len(v) = Len(b) - n /\ \A i \in 1 .. Len(b) - n : v[i] = b[n + i]
  <2>1. \A i \in n + 1 .. Len(b) : b[i] \in S
    BY <1>1
  <2>2. n + 1 \in Int /\ Len(b) \in Int
    BY <1>1
  <2>3. /\ v \in Seq(S) /\ Len(v) = (IF n + 1 <= Len(b) THEN Len(b) - (n + 1) + 1 ELSE 0)
        /\ \A i \in 1 .. Len(b) - (n + 1) + 1 : v[i] = b[n + 1 + i - 1]
    BY <2>1, <2>2, SubSeqProperties
  <2> HIDE DEF v
  <2>4. Len(b) - (n + 1) + 1 = Len(b) - n /\ \A i \in 1 .. Len(b) - n : n + 1 + i - 1 = n + i
    BY <1>1
  <2>5. Len(v) = Len(b) - n
    BY <1>1, <2>3
  <2> QED
    BY <2>3, <2>4, <2>5
<1> HIDE DEF u, v
<1>4. /\ u \o v \in Seq(S) /\ Len(u \o v) = Len(b)
      /\ \A i \in 1 .. Len(b) : (u \o v)[i] = IF i <= n THEN u[i] ELSE v[i - n]
  <2>1. u \in Seq(S) /\ v \in Seq(S)
    BY <1>2, <1>3
  <2>2. /\ u \o v \in Seq(S) /\ Len(u \o v) = Len(u) + Len(v)
        /\ \A i \in 1 .. Len(u) + Len(v) : (u \o v)[i] = IF i <= Len(u) THEN u[i] ELSE v[i - Len(u)]
    BY <2>1, ConcatProperties
  <2>3. Len(u) = n /\ Len(u) + Len(v) = Len(b)
    BY <1>1, <1>2, <1>3
  <2> QED
    BY <2>2, <2>3
<1>5. ASSUME NEW i \in 1 .. Len(b) PROVE (u \o v)[i] = b[i]
  <2>1. CASE i <= n
    BY <1>1, <1>2, <1>4, <2>1
  <2>2. CASE ~(i <= n)
    <3>1. i - n \in 1 .. Len(b) - n /\ n + (i - n) = i
      BY <1>1, <2>2
    <3> QED
      BY <1>3, <1>4, <2>2, <3>1
  <2> QED
    BY <2>1, <2>2
<1>6. u \o v = b
  BY <1>4, <1>5, SeqEqual
<1> QED
  BY <1>2, <1>3, <1>6 DEF u, v

\* A tee with pieces of S, and what it has to write to the log.
TeeOf(S) ==
  [pipe : Seq(S), buf : Seq(S), line : Seq(S), at : {"poll", "log", "string", "dead"},
   held : Nat, into : Nat, writer1 : Nat]
Unwritten(t) == (IF t.at = "log" THEN t.line ELSE <<>>) \o t.buf \o t.pipe

\* Lines are cut off the buffer, and nothing else.
LEMMA CutIs ==
  ASSUME NEW S, NEW t \in TeeOf(S)
  PROVE  /\ Cut(t) \in TeeOf(S) /\ Cut(t).at # "string"
         /\ Cut(t).into = t.into /\ Cut(t).writer1 = t.writer1 /\ Cut(t).held = t.held
         /\ Unwritten(Cut(t)) = t.buf \o t.pipe
<1> DEFINE b == t.buf
           p == t.pipe
           n == LineEnd(b)
           u == SubSeq(b, 1, n)
           v == SubSeq(b, n + 1, Len(b))
<1>1. b \in Seq(S) /\ p \in Seq(S) /\ Len(b) \in Nat /\ DOMAIN b = 1 .. Len(b)
  BY LenProperties DEF TeeOf
<1>2. n \in 1 .. Len(b) + 1
  <2> DEFINE T == {i \in DOMAIN b : Ends(b[i])} \cup {Len(b) + 1}
  <2>1. T \subseteq Nat /\ T # {} /\ T \subseteq 1 .. Len(b) + 1
    BY <1>1
  <2>2. n = Min(T)
    BY DEF LineEnd
  <2> HIDE DEF T, n
  <2>3. Min(T) \in T
    BY <2>1, Least
  <2> QED
    BY <2>1, <2>2, <2>3
<1> HIDE DEF n
<1>3. n <= Len(b) => u \in Seq(S) /\ v \in Seq(S) /\ u \o v = b
  BY <1>1, <1>2, CutOff
<1>4. /\ Cut(t) = IF n > Len(b) THEN [t EXCEPT !.at = "poll", !.line = <<>>]
                  ELSE IF \E i \in 1 .. n : b[i].kind = "latin1" THEN [t EXCEPT !.at = "dead", !.line = <<>>]
                  ELSE [t EXCEPT !.at = "log", !.line = u, !.buf = v]
  BY Zenon DEF Cut, n
<1> HIDE DEF u, v
<1>5. <<>> \in Seq(S) /\ <<>> \o b = b
  BY <1>1, EmptySeq, ConcatEmptySeq
<1> HIDE DEF b, p
<1>6. CASE Cut(t) = [t EXCEPT !.at = "log", !.line = u, !.buf = v] /\ n <= Len(b)
  BY <1>1, <1>3, <1>6 DEF TeeOf, Unwritten, b, p
<1>7. ASSUME NEW at \in {"poll", "dead"}, Cut(t) = [t EXCEPT !.at = at, !.line = <<>>]
      PROVE  /\ Cut(t) \in TeeOf(S) /\ Cut(t).at # "string"
             /\ Cut(t).into = t.into /\ Cut(t).writer1 = t.writer1 /\ Cut(t).held = t.held
             /\ Unwritten(Cut(t)) = t.buf \o t.pipe
  BY <1>5, <1>7 DEF TeeOf, Unwritten, b, p
<1>8. n <= Len(b) \/ n > Len(b)
  BY <1>1, <1>2
<1> QED
  BY <1>4, <1>6, <1>7, <1>8

\* What is read is behind what was read before.
LEMMA ReadIs ==
  ASSUME NEW S, NEW t \in TeeOf(S), NEW n \in 1 .. Len(t.pipe)
  PROVE  /\ Read(t, n) \in TeeOf(S) /\ Read(t, n).at # "string"
         /\ Read(t, n).into = t.into /\ Read(t, n).writer1 = t.writer1 /\ Read(t, n).held = t.held
         /\ Unwritten(Read(t, n)) = t.buf \o t.pipe
<1> DEFINE p == t.pipe
           u == SubSeq(p, 1, n)
           v == SubSeq(p, n + 1, Len(p))
           r == [t EXCEPT !.buf = @ \o u, !.pipe = v]
<1>1. p \in Seq(S) /\ t.buf \in Seq(S) /\ Len(p) \in Nat
  BY LenProperties DEF TeeOf
<1>2. u \in Seq(S) /\ v \in Seq(S) /\ u \o v = p
  BY <1>1, CutOff
<1> HIDE DEF p, u, v
<1>3. r \in TeeOf(S) /\ r.buf = t.buf \o u /\ r.pipe = v
  <2> DEFINE w == t.buf \o u
  <2>1. w \in Seq(S)
    BY <1>1, <1>2, ConcatProperties
  <2>2. r = [t EXCEPT !.buf = w, !.pipe = v]
    OBVIOUS
  <2> HIDE DEF w, r
  <2>3. r \in TeeOf(S) /\ r.buf = w /\ r.pipe = v
    BY <1>2, <2>1, <2>2 DEF TeeOf
  <2> QED
    BY <2>3 DEF w
<1>4. r.into = t.into /\ r.writer1 = t.writer1 /\ r.held = t.held
  BY DEF TeeOf
<1>5. Read(t, n) = Cut(r)
  BY Zenon DEF Read, p, u, v
<1>6. (t.buf \o u) \o v = t.buf \o p
  <2> DEFINE b == t.buf
  <2> HIDE DEF b
  <2>1. b \in Seq(S) /\ u \in Seq(S) /\ v \in Seq(S)
    BY <1>1, <1>2 DEF b
  <2>2. (b \o u) \o v = b \o (u \o v)
    <3>1. Associates(b, u, v)
      BY <2>1, Associative
    <3> QED
      BY <3>1 DEF Associates
  <2> QED
    BY <1>2, <2>2 DEF b
<1> HIDE DEF r
<1>7. /\ Cut(r) \in TeeOf(S) /\ Cut(r).at # "string"
      /\ Cut(r).into = r.into /\ Cut(r).writer1 = r.writer1 /\ Cut(r).held = r.held
      /\ Unwritten(Cut(r)) = r.buf \o r.pipe
  BY <1>3, CutIs
<1>8. r.buf \o r.pipe = t.buf \o t.pipe
  BY <1>3, <1>6 DEF p
<1> QED
  BY <1>4, <1>5, <1>7, <1>8

\* The calls --------------------------------------------------------------------------------

Kinds == {"part", "line", "latin1", "header", "blank"}
AnyItem == [of : Nat, n : Nat, kind : Kinds]

\* What the calls r can have put into the log, and of that what tee k gets to see.
Items(r) == {x \in AnyItem : x.of \in 1 .. Len(r) /\ x.n <= r[x.of].sent}
CommandsOf(r, k) == {c \in 1 .. Len(r) : r[c].to = k}
Own(r, k) == {x \in Items(r) : Ours(CommandsOf(r, k), x)}

Call == [out : Outputs, sent : Nat, done : BOOLEAN, result : Seq(AnyItem), to : Nat, strbuf : Nat]
CallsOK(r) ==
  /\ r \in Seq(Call)
  /\ \A c \in 1 .. Len(r) : r[c].sent <= Len(r[c].out) /\ r[c].result \in Seq(Items(r))

\* s has the calls of r, no less far, and perhaps more.
Grows(r, s) ==
  /\ Len(r) <= Len(s)
  /\ \A c \in 1 .. Len(r) : s[c].to = r[c].to /\ r[c].sent <= s[c].sent

LEMMA SeqSubset ==
  ASSUME NEW S, NEW T, S \subseteq T
  PROVE  Seq(S) \subseteq Seq(T)
<1> SUFFICES ASSUME NEW s \in Seq(S) PROVE s \in Seq(T)
  OBVIOUS
<1>1. Len(s) \in Nat /\ s = [i \in 1 .. Len(s) |-> s[i]] /\ \A i \in 1 .. Len(s) : s[i] \in T
  BY LenProperties, ElementOfSeq
<1> QED
  BY <1>1, IsASeq

\* What was there stays there, and belongs to whom it belonged.
LEMMA GrowsIs ==
  ASSUME NEW r, CallsOK(r), NEW s, CallsOK(s), Grows(r, s)
  PROVE  /\ Items(r) \subseteq Items(s) /\ \A k : Own(r, k) \subseteq Own(s, k)
         /\ \A k : TeeOf(Own(r, k)) \subseteq TeeOf(Own(s, k))
         /\ TeeOf(Items(r)) \subseteq TeeOf(Items(s))
         /\ Seq(Items(r)) \subseteq Seq(Items(s)) /\ Seq(Seq(Items(r))) \subseteq Seq(Seq(Items(s)))
         /\ Seq(TeeOf(Items(r))) \subseteq Seq(TeeOf(Items(s)))
         /\ \A k, q : q \in Seq(Items(r)) => PrintedBy(CommandsOf(s, k), q) = PrintedBy(CommandsOf(r, k), q)
<1>1. Len(r) \in Nat /\ Len(s) \in Nat /\ Len(r) <= Len(s)
  BY LenProperties DEF CallsOK, Grows
<1>2. \A c \in 1 .. Len(r) : c \in 1 .. Len(s) /\ s[c].to = r[c].to
                             /\ r[c].sent <= s[c].sent /\ r[c].sent \in Nat /\ s[c].sent \in Nat
  <2> SUFFICES ASSUME NEW c \in 1 .. Len(r)
               PROVE  c \in 1 .. Len(s) /\ s[c].to = r[c].to /\ r[c].sent <= s[c].sent
                      /\ r[c].sent \in Nat /\ s[c].sent \in Nat
    OBVIOUS
  <2>1. c \in 1 .. Len(s)
    BY <1>1
  <2>2. r[c] \in Call /\ s[c] \in Call
    BY <2>1, ElementOfSeq DEF CallsOK
  <2> QED
    BY <2>1, <2>2 DEF Grows, Call
<1>3. Items(r) \subseteq Items(s)
  <2> SUFFICES ASSUME NEW x \in AnyItem, x.of \in 1 .. Len(r), x.n <= r[x.of].sent
               PROVE  x.of \in 1 .. Len(s) /\ x.n <= s[x.of].sent
    BY DEF Items
  <2>1. x.n \in Nat
    BY DEF AnyItem
  <2> QED
    BY <1>2, <2>1
<1>4. \A k : \A x \in Items(r) : x.of \in CommandsOf(r, k) <=> x.of \in CommandsOf(s, k)
  BY <1>2 DEF Items, CommandsOf
<1>5. \A k : Own(r, k) \subseteq Own(s, k)
  BY <1>3, <1>4 DEF Own, Ours
<1>6. \A A, B : A \subseteq B => TeeOf(A) \subseteq TeeOf(B)
  <2> SUFFICES ASSUME NEW A, NEW B, A \subseteq B PROVE TeeOf(A) \subseteq TeeOf(B)
    OBVIOUS
  <2>1. Seq(A) \subseteq Seq(B)
    BY SeqSubset
  <2> QED
    BY <2>1 DEF TeeOf
<1>7. Seq(Items(r)) \subseteq Seq(Items(s)) /\ TeeOf(Items(r)) \subseteq TeeOf(Items(s))
  BY <1>3, <1>6, SeqSubset
<1>8. /\ Seq(Seq(Items(r))) \subseteq Seq(Seq(Items(s)))
      /\ Seq(TeeOf(Items(r))) \subseteq Seq(TeeOf(Items(s)))
  BY <1>7, SeqSubset
<1>9. \A k : TeeOf(Own(r, k)) \subseteq TeeOf(Own(s, k))
  BY <1>5, <1>6
<1>10. ASSUME NEW k, NEW q \in Seq(Items(r))
       PROVE  PrintedBy(CommandsOf(s, k), q) = PrintedBy(CommandsOf(r, k), q)
  BY <1>4, PrintedSame
<1> QED
  BY <1>3, <1>5, <1>7, <1>8, <1>9, <1>10

LEMMA GrowsSame ==
  ASSUME NEW r, CallsOK(r)
  PROVE  Grows(r, r)
<1>1. Len(r) \in Nat /\ \A c \in 1 .. Len(r) : r[c] \in Call
  BY LenProperties, ElementOfSeq DEF CallsOK
<1> QED
  BY <1>1 DEF Grows, Call

\* What is known of a tee's pieces.
LEMMA OwnIs ==
  ASSUME NEW r, NEW k
  PROVE  /\ Own(r, k) \subseteq Items(r) /\ TeeOf(Own(r, k)) \subseteq TeeOf(Items(r))
         /\ Seq(Own(r, k)) \subseteq Seq(Items(r))
<1>1. Own(r, k) \subseteq Items(r)
  BY DEF Own
<1>2. Seq(Own(r, k)) \subseteq Seq(Items(r))
  BY <1>1, SeqSubset
<1> QED
  BY <1>1, <1>2 DEF TeeOf

\* Types --------------------------------------------------------------------------------------

\* A tee that writes to the log itself.
Base(k) == k \in 1 .. Len(tees) /\ tees[k].into = k

TypeOK ==
  /\ pc \in {"idle", "running", "read", "swapped", "exited"}
  /\ CallsOK(ran) /\ \A c \in 1 .. Len(ran) : ran[c].to \in 1 .. Len(tees)
  /\ tees \in Seq(TeeOf(Items(ran))) /\ \A k \in 1 .. Len(tees) : tees[k] \in TeeOf(Own(ran, k))
  /\ strings \in Seq(Seq(Items(ran))) /\ log \in Seq(Items(ran))
  /\ runtee \in Nat /\ saved \in Seq(Nat)

\* Every tee ends in a tee that has a string, and the command that runs uses the
\* string of the context's tee.
TeesOK ==
  /\ \A k \in 1 .. Len(tees) :
       /\ Base(tees[k].into)
       /\ Base(k) => tees[k].writer1 \in 1 .. Len(strings)
       /\ tees[k].at = "string" => tees[k].held \in 1 .. Len(strings)
  /\ runtee = 0 \/ Base(runtee)
  /\ \A i \in 1 .. Len(saved) : saved[i] = 0 \/ Base(saved[i])
  /\ pc \in {"running", "read", "swapped"} => Len(ran) # 0 /\ runtee # 0
  /\ pc = "running" => ran[Len(ran)].strbuf = tees[runtee].writer1 /\ ran[Len(ran)].result = <<>>

TypeInv == TypeOK /\ TeesOK

LEMMA InitType == Init => TypeInv
<1> SUFFICES ASSUME Init PROVE TypeInv
  OBVIOUS
<1>1. \A S : <<>> \in Seq(S)
  BY EmptySeq
<1>2. Len(ran) = 0 /\ Len(tees) = 0 /\ Len(saved) = 0
  BY EmptySeq DEF Init
<1>3. CallsOK(ran)
  BY <1>1, <1>2 DEF Init, CallsOK
<1> QED
  BY <1>1, <1>2, <1>3 DEF Init, TypeInv, TypeOK, TeesOK

\* What was of a type is of that type for the calls r too.
LEMMA TypesKept ==
  ASSUME TypeOK, NEW r, CallsOK(r), Grows(ran, r)
  PROVE  /\ tees \in Seq(TeeOf(Items(r))) /\ \A k \in 1 .. Len(tees) : tees[k] \in TeeOf(Own(r, k))
         /\ strings \in Seq(Seq(Items(r))) /\ log \in Seq(Items(r))
<1>1. CallsOK(ran)
  BY DEF TypeOK
<1>2. /\ \A k : TeeOf(Own(ran, k)) \subseteq TeeOf(Own(r, k))
      /\ Seq(Items(ran)) \subseteq Seq(Items(r)) /\ Seq(Seq(Items(ran))) \subseteq Seq(Seq(Items(r)))
      /\ Seq(TeeOf(Items(ran))) \subseteq Seq(TeeOf(Items(r)))
  BY <1>1, GrowsIs
<1> QED
  BY <1>2 DEF TypeOK

\* The last call of r with another result, or done.
Changes(r, x, s) ==
  /\ CallsOK(r) /\ Len(r) # 0 /\ x \in Call /\ x.result \in Seq(Items(r))
  /\ x.to = r[Len(r)].to /\ x.sent = r[Len(r)].sent /\ x.out = r[Len(r)].out
  /\ s = [r EXCEPT ![Len(r)] = x]

LEMMA CallChanges ==
  ASSUME NEW r, NEW x, NEW s, Changes(r, x, s)
  PROVE  /\ CallsOK(s) /\ Grows(r, s) /\ Len(s) = Len(r) /\ s[Len(r)] = x
         /\ \A c \in 1 .. Len(r) : c # Len(r) => s[c] = r[c]
         /\ \A c \in 1 .. Len(r) : s[c].to = r[c].to /\ s[c].sent = r[c].sent /\ s[c].out = r[c].out
<1>1. Len(r) \in 1 .. Len(r) /\ Len(r) \in Nat /\ r \in Seq(Call)
  BY LenProperties DEF Changes, CallsOK
<1>2. \A c \in 1 .. Len(r) : r[c] \in Call
  BY <1>1, ElementOfSeq
<1>3. /\ s \in Seq(Call) /\ Len(s) = Len(r) /\ s[Len(r)] = x
      /\ \A c \in 1 .. Len(r) : c # Len(r) => s[c] = r[c]
  BY <1>1, ExceptSeq DEF Changes
<1>4. \A c \in 1 .. Len(r) : s[c].to = r[c].to /\ s[c].sent = r[c].sent /\ s[c].out = r[c].out
  BY <1>3 DEF Changes
<1>5. Grows(r, s)
  BY <1>1, <1>2, <1>3, <1>4 DEF Grows, Call
<1>6. Items(s) = Items(r)
  BY <1>3, <1>4 DEF Items
<1>7. \A c \in 1 .. Len(r) : s[c].sent <= Len(s[c].out) /\ s[c].result \in Seq(Items(s))
  BY <1>3, <1>4, <1>6 DEF CallsOK, Changes
<1>8. CallsOK(s)
  BY <1>3, <1>7 DEF CallsOK
<1> QED
  BY <1>3, <1>4, <1>5, <1>8

\* The calls and the tees there are when a command is started.
LEMMA RunIs ==
  ASSUME TypeInv, NEW out \in Outputs, NEW teeout \in BOOLEAN, Run(out, teeout)
  PROVE  /\ CallsOK(ran') /\ Grows(ran, ran') /\ Len(ran') = Len(ran) + 1
         /\ \A c \in 1 .. Len(ran) : ran'[c] = ran[c]
         /\ ran'[Len(ran')].sent = 0 /\ ran'[Len(ran')].result = <<>>
         /\ ran'[Len(ran')].to \in 1 .. Len(tees') /\ ran'[Len(ran')].strbuf = tees'[runtee'].writer1
         /\ Len(tees) <= Len(tees') /\ \A k \in 1 .. Len(tees) : tees'[k] = tees[k]
         /\ runtee' \in 1 .. Len(tees') /\ (runtee # 0 => runtee' = runtee)
         /\ (runtee = 0 => runtee' \notin 1 .. Len(tees))
         /\ tees'[runtee'].into = runtee' /\ tees'[runtee'].writer1 \in 1 .. Len(strings')
         /\ \A k \in 1 .. Len(tees') : k \notin 1 .. Len(tees) =>
              \E w \in Nat : tees'[k] = Tee(runtee', w) /\ (k = runtee' => w = Len(strings) + 1)
         /\ strings' \in Seq(Seq(Items(ran))) /\ Len(strings) <= Len(strings')
         /\ (runtee = 0 => Len(strings') = Len(strings) + 1)
         /\ \A i \in 1 .. Len(strings) : strings'[i] = strings[i]
         /\ \A i \in 1 .. Len(strings') : i \notin 1 .. Len(strings) => strings'[i] = <<>>
         /\ tees' \in Seq(TeeOf(Items(ran)))
<1> DEFINE S == Items(ran)
           u == Tee(Len(tees) + 1, Len(strings) + 1)
           new == IF runtee = 0 THEN <<u>> ELSE <<>>
           e == [k \in 1 .. Len(new) |-> <<>>]
           t == IF runtee = 0 THEN Len(tees) + 1 ELSE runtee
           made == tees \o new
           more == IF teeout THEN <<Tee(t, 0)>> ELSE <<>>
           to == IF teeout THEN Len(made) + 1 ELSE t
           a == IF runtee = 0 THEN 1 ELSE 0
           b == IF teeout THEN 1 ELSE 0
           call == [out |-> out, sent |-> 0, done |-> FALSE, result |-> <<>>, to |-> to,
                    strbuf |-> (made[t]).writer1]
<1>0. a \in 0 .. 1 /\ (a = 1 <=> runtee = 0) /\ b \in 0 .. 1 /\ (b = 1 <=> teeout)
  OBVIOUS
<1>1. /\ Len(tees) \in Nat /\ Len(strings) \in Nat /\ tees \in Seq(TeeOf(S)) /\ strings \in Seq(Seq(S))
      /\ runtee \in Nat /\ Len(ran) \in Nat
  BY LenProperties DEF TypeInv, TypeOK, CallsOK
<1>2. \A i, w \in Nat : Tee(i, w) \in TeeOf(S) /\ Tee(i, w).into = i /\ Tee(i, w).writer1 = w
  <2>1. <<>> \in Seq(S)
    BY EmptySeq
  <2> QED
    BY <2>1 DEF Tee, TeeOf
<1>3. u \in TeeOf(S) /\ u.into = Len(tees) + 1 /\ u.writer1 = Len(strings) + 1
  BY <1>1, <1>2
<1>4. t \in Nat /\ Tee(t, 0) \in TeeOf(S) /\ Tee(t, 0).into = t
  BY <1>1, <1>2
<1>5. /\ tees' = made \o more /\ runtee' = t /\ strings' = strings \o e
      /\ ran' = Append(ran, call) /\ pc' = "running" /\ log' = Append(log, Header(Len(ran) + 1))
  BY DEF Run, last
<1> HIDE DEF u, t
<1>6. /\ new \in Seq(TeeOf(S)) /\ Len(new) = a
      /\ (runtee = 0 => new[1] = u)
  <2>1. <<u>> \in Seq(TeeOf(S)) /\ Len(<<u>>) = 1 /\ <<u>>[1] = u
    BY <1>3
  <2> QED
    BY <2>1, EmptySeq
<1>7. e \in Seq(Seq(S)) /\ Len(e) = Len(new) /\ \A i \in 1 .. Len(e) : e[i] = <<>>
  <2>1. Len(new) \in Nat /\ <<>> \in Seq(S)
    BY <1>6, EmptySeq
  <2> QED
    BY <2>1, IsASeq
<1> HIDE DEF new, e, a, b
<1>8. /\ made \in Seq(TeeOf(S)) /\ Len(made) = Len(tees) + a
      /\ \A k \in 1 .. Len(tees) : made[k] = tees[k]
      /\ runtee = 0 => made[Len(tees) + 1] = u
  <2>1. /\ made \in Seq(TeeOf(S)) /\ Len(made) = Len(tees) + Len(new)
        /\ \A i \in 1 .. Len(tees) + Len(new) :
             made[i] = IF i <= Len(tees) THEN tees[i] ELSE new[i - Len(tees)]
    BY <1>0, <1>1, <1>6, ConcatProperties
  <2> HIDE DEF made
  <2>2. ASSUME NEW k \in 1 .. Len(tees) PROVE made[k] = tees[k]
    <3>1. k \in 1 .. Len(tees) + Len(new) /\ k <= Len(tees)
      BY <1>0, <1>1, <1>6
    <3> QED
      BY <2>1, <3>1
  <2>3. runtee = 0 => made[Len(tees) + 1] = u
    <3>1. Len(tees) + 1 - Len(tees) = 1 /\ ~(Len(tees) + 1 <= Len(tees))
      BY <1>1
    <3> QED
      BY <1>0, <1>1, <1>6, <2>1, <3>1
  <2> QED
    BY <1>0, <1>1, <1>6, <2>1, <2>2, <2>3
<1>9. t \in 1 .. Len(made) /\ made[t].into = t
  <2>1. CASE runtee = 0
    BY <1>0, <1>1, <1>3, <1>8, <2>1 DEF t
  <2>2. CASE runtee # 0
    <3>1. runtee \in 1 .. Len(tees) /\ tees[runtee].into = runtee
      BY <2>2 DEF TypeInv, TeesOK, Base
    <3> QED
      BY <1>0, <1>1, <1>8, <2>2, <3>1 DEF t
  <2> QED
    BY <2>1, <2>2
<1> HIDE DEF made
<1>10. /\ more \in Seq(TeeOf(S)) /\ Len(more) = b
       /\ (teeout => more[1] = Tee(t, 0))
  <2>1. <<Tee(t, 0)>> \in Seq(TeeOf(S)) /\ Len(<<Tee(t, 0)>>) = 1 /\ <<Tee(t, 0)>>[1] = Tee(t, 0)
    BY <1>4
  <2> QED
    BY <1>0, <2>1, EmptySeq
<1> HIDE DEF more
<1>11. /\ tees' \in Seq(TeeOf(S)) /\ Len(tees') = Len(made) + b
       /\ \A k \in 1 .. Len(made) : tees'[k] = made[k]
       /\ teeout => tees'[Len(made) + 1] = Tee(t, 0)
  <2> DEFINE ts == made \o more
  <2>1. /\ ts \in Seq(TeeOf(S)) /\ Len(ts) = Len(made) + Len(more)
        /\ \A i \in 1 .. Len(made) + Len(more) :
             ts[i] = IF i <= Len(made) THEN made[i] ELSE more[i - Len(made)]
    BY <1>8, <1>10, ConcatProperties
  <2> HIDE DEF ts
  <2>2. Len(made) \in Nat
    BY <1>8, <1>1
  <2>3. \A k \in 1 .. Len(made) : ts[k] = made[k]
    BY <1>10, <2>1, <2>2
  <2>4. teeout => ts[Len(made) + 1] = Tee(t, 0)
    <3> SUFFICES ASSUME teeout PROVE ts[Len(made) + 1] = more[1]
      BY <1>10
    <3> DEFINE i == Len(made) + 1
    <3>1. i - Len(made) = 1 /\ ~(i <= Len(made)) /\ i \in 1 .. Len(made) + Len(more)
      BY <1>0, <1>10, <2>2
    <3> HIDE DEF i
    <3>2. ts[i] = more[1]
      BY <2>1, <3>1
    <3> QED
      BY <3>2 DEF i
  <2> QED
    BY <1>5, <1>10, <2>1, <2>3, <2>4 DEF ts
<1>12. Len(made) \in Nat /\ Len(tees) <= Len(made) /\ Len(made) <= Len(tees')
       /\ (runtee # 0 => Len(made) = Len(tees))
  BY <1>0, <1>1, <1>8, <1>11
<1>13. /\ strings' \in Seq(Seq(S)) /\ Len(strings') = Len(strings) + a
       /\ \A i \in 1 .. Len(strings) : strings'[i] = strings[i]
       /\ \A i \in 1 .. Len(strings') : i \notin 1 .. Len(strings) => strings'[i] = <<>>
  <2> DEFINE ss == strings \o e
  <2>1. /\ ss \in Seq(Seq(S)) /\ Len(ss) = Len(strings) + Len(e)
        /\ \A i \in 1 .. Len(strings) + Len(e) :
             ss[i] = IF i <= Len(strings) THEN strings[i] ELSE e[i - Len(strings)]
    BY <1>1, <1>7, ConcatProperties
  <2> HIDE DEF ss
  <2>2. \A i \in 1 .. Len(strings) : ss[i] = strings[i]
    <3>1. Len(e) \in Nat /\ Len(strings) \in Nat
      BY <1>1, <1>7, LenProperties
    <3>2. \A i \in 1 .. Len(strings) : i \in 1 .. Len(strings) + Len(e) /\ i <= Len(strings)
      BY <3>1
    <3> QED
      BY <2>1, <3>2
  <2>3. ASSUME NEW i \in 1 .. Len(ss), i \notin 1 .. Len(strings) PROVE ss[i] = <<>>
    <3>1. i - Len(strings) \in 1 .. Len(e) /\ ~(i <= Len(strings)) /\ i \in 1 .. Len(strings) + Len(e)
      BY <1>0, <1>1, <1>6, <1>7, <2>1, <2>3
    <3> QED
      BY <1>7, <2>1, <3>1
  <2> QED
    BY <1>5, <1>6, <1>7, <2>1, <2>2, <2>3 DEF ss
<1>14. tees'[t] = made[t] /\ t \in 1 .. Len(tees')
  BY <1>9, <1>11, <1>12
<1>15. to \in 1 .. Len(tees')
  BY <1>0, <1>1, <1>9, <1>11, <1>12
<1>16. made[t].writer1 \in 1 .. Len(strings')
  <2>1. CASE runtee = 0
    BY <1>0, <1>1, <1>3, <1>8, <1>13, <2>1 DEF t
  <2>2. CASE runtee # 0
    <3>1. Base(runtee) /\ runtee \in 1 .. Len(tees)
      BY <2>2 DEF TypeInv, TeesOK, Base
    <3>2. tees[runtee].writer1 \in 1 .. Len(strings)
      BY <3>1 DEF TypeInv, TeesOK
    <3> QED
      BY <1>0, <1>1, <1>8, <1>13, <2>2, <3>1, <3>2 DEF t
  <2> QED
    BY <2>1, <2>2
<1>17. ASSUME NEW k \in 1 .. Len(tees'), k \notin 1 .. Len(tees)
       PROVE  \E w \in Nat : tees'[k] = Tee(t, w) /\ (k = t => w = Len(strings) + 1)
  <2>1. CASE k \in 1 .. Len(made)
    <3>1. runtee = 0 /\ k = Len(tees) + 1 /\ tees'[k] = u
      BY <1>0, <1>1, <1>8, <1>11, <1>12, <1>17, <2>1
    <3> QED
      BY <1>1, <3>1 DEF t, u
  <2>2. CASE k \notin 1 .. Len(made)
    <3>1. b \in {0, 1} /\ (b = 1 => teeout) /\ Len(tees') = Len(made) + b /\ Len(made) \in Nat
      BY <1>0, <1>11, <1>12
    <3>2. teeout /\ k = Len(made) + 1
      BY <1>17, <2>2, <3>1
    <3>3. tees'[k] = Tee(t, 0) /\ k # t
      BY <1>9, <1>11, <2>2, <3>2
    <3> QED
      BY <3>3
  <2> QED
    BY <2>1, <2>2
<1> HIDE DEF to
<1>18. call \in Call /\ call.sent = 0 /\ call.result = <<>> /\ call.to = to
       /\ call.strbuf = made[t].writer1 /\ call.out = out
  <2>1. to \in Nat /\ made[t].writer1 \in Nat
    BY <1>1, <1>11, <1>12, <1>13, <1>15, <1>16
  <2>2. <<>> \in Seq(AnyItem)
    BY EmptySeq
  <2> QED
    BY <2>1, <2>2 DEF Call
<1> HIDE DEF call
<1>19. ran \in Seq(Call)
  BY DEF TypeInv, TypeOK, CallsOK
<1>20. /\ ran' \in Seq(Call) /\ Len(ran') = Len(ran) + 1 /\ ran'[Len(ran) + 1] = call
       /\ \A c \in 1 .. Len(ran) : ran'[c] = ran[c]
  BY <1>1, <1>5, <1>18, <1>19, AppendProperties
<1>21. CallsOK(ran) /\ \A c \in 1 .. Len(ran) : ran[c] \in Call
  BY <1>19, ElementOfSeq DEF TypeInv, TypeOK
<1>22. Grows(ran, ran')
  <2>1. Grows(ran, ran)
    BY <1>21, GrowsSame
  <2>2. Len(ran) <= Len(ran')
    BY <1>1, <1>20
  <2> QED
    BY <1>20, <2>1, <2>2 DEF Grows
<1>23. CallsOK(ran')
  <2>1. Items(ran) \subseteq Items(ran')
    <3> SUFFICES ASSUME NEW x \in AnyItem, x.of \in 1 .. Len(ran), x.n <= ran[x.of].sent
                 PROVE  x.of \in 1 .. Len(ran') /\ x.n <= ran'[x.of].sent
      BY DEF Items
    <3> QED
      BY <1>1, <1>20
  <2>2. Seq(Items(ran)) \subseteq Seq(Items(ran'))
    BY <2>1, SeqSubset
  <2>3. <<>> \in Seq(Items(ran'))
    BY EmptySeq
  <2>4. out \in Seq({"part", "line", "latin1"})
    BY RunAssumption
  <2>5. Len(out) \in Nat
    BY <2>4, LenProperties
  <2>6. ASSUME NEW c \in 1 .. Len(ran')
        PROVE  ran'[c].sent <= Len(ran'[c].out) /\ ran'[c].result \in Seq(Items(ran'))
    <3>1. CASE c \in 1 .. Len(ran)
      BY <1>20, <1>21, <2>2, <3>1 DEF CallsOK
    <3>2. CASE c \notin 1 .. Len(ran)
      <4>1. ran'[c] = call
        BY <1>1, <1>20, <3>2
      <4>2. 0 <= Len(out)
        BY <2>5
      <4> QED
        BY <1>18, <2>3, <4>1, <4>2
    <3> QED
      BY <3>1, <3>2
  <2> QED
    BY <1>20, <2>6 DEF CallsOK
<1>24. runtee = 0 => t \notin 1 .. Len(tees)
  BY <1>1 DEF t
<1>25. runtee # 0 => t = runtee
  BY DEF t
<1>26. /\ tees'[runtee'].into = runtee' /\ tees'[runtee'].writer1 \in 1 .. Len(strings')
       /\ ran'[Len(ran')].to \in 1 .. Len(tees') /\ ran'[Len(ran')].strbuf = tees'[runtee'].writer1
       /\ ran'[Len(ran')].sent = 0 /\ ran'[Len(ran')].result = <<>>
  BY <1>5, <1>9, <1>14, <1>15, <1>16, <1>18, <1>20
<1>27. /\ Len(tees) <= Len(tees') /\ \A k \in 1 .. Len(tees) : tees'[k] = tees[k]
  BY <1>0, <1>1, <1>8, <1>11, <1>12
<1>28. Len(strings) <= Len(strings') /\ (runtee = 0 => Len(strings') = Len(strings) + 1)
  BY <1>0, <1>1, <1>13
<1>29. \A k \in 1 .. Len(tees') : k \notin 1 .. Len(tees) =>
         \E w \in Nat : tees'[k] = Tee(runtee', w) /\ (k = runtee' => w = Len(strings) + 1)
  BY <1>5, <1>17
<1>30. /\ runtee' \in 1 .. Len(tees') /\ (runtee # 0 => runtee' = runtee)
       /\ (runtee = 0 => runtee' \notin 1 .. Len(tees))
  BY <1>5, <1>14, <1>24, <1>25
<1>31. /\ tees' \in Seq(TeeOf(Items(ran))) /\ strings' \in Seq(Seq(Items(ran)))
       /\ Len(ran') = Len(ran) + 1 /\ \A c \in 1 .. Len(ran) : ran'[c] = ran[c]
  BY <1>11, <1>13, <1>20
<1> HIDE DEF a, b, S
<1> QED
  BY Zenon, <1>13, <1>22, <1>23, <1>26, <1>27, <1>28, <1>29, <1>30, <1>31

LEMMA RunType ==
  ASSUME TypeInv, NEW out \in Outputs, NEW teeout \in BOOLEAN, Run(out, teeout)
  PROVE  TypeInv'
<1> DEFINE n == Len(ran)
           m == Len(tees)
<1>1. /\ CallsOK(ran') /\ Grows(ran, ran') /\ Len(ran') = n + 1
      /\ \A c \in 1 .. n : ran'[c] = ran[c]
      /\ ran'[Len(ran')].sent = 0 /\ ran'[Len(ran')].result = <<>>
      /\ ran'[Len(ran')].to \in 1 .. Len(tees') /\ ran'[Len(ran')].strbuf = tees'[runtee'].writer1
  BY RunIs
<1>2. /\ m <= Len(tees') /\ \A k \in 1 .. m : tees'[k] = tees[k]
      /\ runtee' \in 1 .. Len(tees') /\ tees'[runtee'].into = runtee'
      /\ (runtee # 0 => runtee' = runtee) /\ (runtee = 0 => runtee' \notin 1 .. m)
      /\ tees'[runtee'].writer1 \in 1 .. Len(strings') /\ tees' \in Seq(TeeOf(Items(ran)))
  BY RunIs
<1>3. \A k \in 1 .. Len(tees') : k \notin 1 .. m => \E w \in Nat : tees'[k] = Tee(runtee', w)
  BY RunIs
<1>4. strings' \in Seq(Seq(Items(ran))) /\ Len(strings) <= Len(strings')
  BY RunIs
<1>5. n \in Nat /\ m \in Nat /\ Len(strings) \in Nat /\ Len(tees') \in Nat /\ Len(strings') \in Nat
  <2>1. /\ ran \in Seq(Call) /\ tees \in Seq(TeeOf(Items(ran)))
        /\ strings \in Seq(Seq(Items(ran)))
    BY DEF TypeInv, TypeOK, CallsOK
  <2> QED
    BY <1>2, <1>4, <2>1, LenProperties
<1>6. pc' = "running" /\ log' = Append(log, Header(n + 1)) /\ saved' = saved
  BY DEF Run, last
<1> HIDE DEF n, m
<1>7. CallsOK(ran)
  BY DEF TypeInv, TypeOK
<1>8. /\ \A k \in 1 .. m : tees[k] \in TeeOf(Own(ran', k))
      /\ log \in Seq(Items(ran'))
  BY <1>1, TypesKept DEF TypeInv, m
<1>9. /\ tees' \in Seq(TeeOf(Items(ran'))) /\ strings' \in Seq(Seq(Items(ran')))
  BY <1>1, <1>2, <1>4, <1>7, GrowsIs
<1>10. log' \in Seq(Items(ran'))
  <2>1. Header(n + 1) \in Items(ran')
    BY <1>1, <1>5 DEF Header, Items, AnyItem, Kinds
  <2> QED
    BY <1>6, <1>8, <2>1, AppendProperties
<1>11. ASSUME NEW k \in 1 .. Len(tees')
       PROVE  /\ tees'[k] \in TeeOf(Own(ran', k))
              /\ tees'[k].into \in 1 .. Len(tees') /\ tees'[tees'[k].into].into = tees'[k].into
              /\ tees'[k].into = k => tees'[k].writer1 \in 1 .. Len(strings')
              /\ tees'[k].at = "string" => tees'[k].held \in 1 .. Len(strings')
  <2>1. CASE k \in 1 .. m
    <3> DEFINE j == tees[k].into
    <3>1. /\ j \in 1 .. m /\ tees[j].into = j
          /\ j = k => tees[k].writer1 \in 1 .. Len(strings)
          /\ tees[k].at = "string" => tees[k].held \in 1 .. Len(strings)
      BY <2>1 DEF TypeInv, TeesOK, Base, m
    <3> HIDE DEF j
    <3>2. tees'[k] = tees[k] /\ tees'[k].into = j /\ tees'[j] = tees[j]
      BY <1>2, <2>1, <3>1 DEF j
    <3>3. tees'[k] \in TeeOf(Own(ran', k))
      BY <1>8, <2>1, <3>2
    <3> QED
      BY <1>2, <1>4, <1>5, <3>1, <3>2, <3>3
  <2>2. CASE k \notin 1 .. m
    <3>1. PICK w \in Nat : tees'[k] = Tee(runtee', w)
      BY <1>3, <2>2
    <3>2. <<>> \in Seq(Own(ran', k)) /\ runtee' \in Nat
      BY <1>2, <1>5, EmptySeq
    <3>3. /\ tees'[k] \in TeeOf(Own(ran', k)) /\ tees'[k].into = runtee' /\ tees'[k].at = "poll"
      BY <3>1, <3>2 DEF Tee, TeeOf
    <3> QED
      BY <1>2, <3>3
  <2> QED
    BY <2>1, <2>2
<1>12. \A c \in 1 .. Len(ran') : ran'[c].to \in 1 .. Len(tees')
  <2> SUFFICES ASSUME NEW c \in 1 .. n PROVE ran[c].to \in 1 .. Len(tees')
    BY <1>1, <1>5
  <2>1. ran[c].to \in 1 .. m
    BY DEF TypeInv, TypeOK, n, m
  <2> QED
    BY <1>2, <1>5, <2>1
<1>13. saved \in Seq(Nat) /\ \A i \in 1 .. Len(saved) : saved[i] = 0 \/ (saved[i] \in 1 .. m /\ tees[saved[i]].into = saved[i])
  BY DEF TypeInv, TypeOK, TeesOK, Base, m
<1>14. \A i \in 1 .. Len(saved) : saved[i] = 0 \/ (saved[i] \in 1 .. Len(tees') /\ tees'[saved[i]].into = saved[i])
  <2>1. \A k \in 1 .. m : k \in 1 .. Len(tees') /\ tees'[k] = tees[k]
    BY <1>2, <1>5
  <2> QED
    BY <1>13, <2>1
<1>15. runtee' \in Nat /\ runtee' # 0 /\ Len(ran') # 0
  BY <1>1, <1>2, <1>5
<1>16. TypeOK'
  BY <1>1, <1>6, <1>9, <1>10, <1>11, <1>12, <1>13, <1>15 DEF TypeOK
<1>17. TeesOK'
  BY <1>1, <1>2, <1>6, <1>11, <1>14, <1>15 DEF TeesOK, Base
<1> QED
  BY <1>16, <1>17 DEF TypeInv

\* What a step of the command that runs, n, does: it prints p to its tee.
Printing(n, to, p) ==
  /\ n = Len(ran) /\ to = ran[n].to /\ Len(ran') = n /\ ran[n].sent \in Nat
  /\ CallsOK(ran') /\ Grows(ran, ran')
  /\ \A c \in 1 .. n : /\ ran'[c].to = ran[c].to /\ ran'[c].out = ran[c].out
                       /\ ran'[c].result = ran[c].result /\ ran'[c].strbuf = ran[c].strbuf
  /\ \A c \in 1 .. n : c # n => ran'[c] = ran[c]
  /\ ran'[n].sent = ran[n].sent + 1
  /\ p = Piece(n, ran[n].sent + 1) /\ p.of = n /\ p.n = ran[n].sent + 1
  /\ tees' = [tees EXCEPT ![to] = [tees[to] EXCEPT !.pipe = Append(tees[to].pipe, p)]]

\* The piece that is printed, and whose it is.
LEMMA PrintIs ==
  ASSUME TypeInv, Print1
  PROVE  \E n \in 1 .. Len(ran), to \in 1 .. Len(tees) : \E p \in Own(ran', to) : Printing(n, to, p)
<1> DEFINE n == Len(ran)
           to == ran[n].to
           p == Piece(n, ran[n].sent + 1)
           x == [ran[n] EXCEPT !.sent = ran[n].sent + 1]
<1>1. CallsOK(ran) /\ ran \in Seq(Call) /\ n \in Nat /\ n # 0 /\ DOMAIN ran = 1 .. n
  BY LenProperties DEF TypeInv, TypeOK, TeesOK, CallsOK, Print1
<1>2. n \in 1 .. n /\ ran[n] \in Call /\ \A c \in 1 .. n : ran[c] \in Call
  BY <1>1, ElementOfSeq
<1>3. ran[n].sent < Len(ran[n].out) /\ ran[n].out \in Seq({"part", "line", "latin1"}) /\ ran[n].sent \in Nat
  BY <1>2, RunAssumption DEF Print1, last, Call
<1>4. to \in 1 .. Len(tees)
  BY <1>2 DEF TypeInv, TypeOK
<1>5. ran' = [ran EXCEPT ![n] = x] /\ tees' = [tees EXCEPT ![to] = [tees[to] EXCEPT !.pipe = Append(tees[to].pipe, p)]]
  BY DEF Print1, last
<1>6. /\ x \in Call /\ x.sent = ran[n].sent + 1 /\ x.to = to /\ x.out = ran[n].out
      /\ x.result = ran[n].result /\ x.strbuf = ran[n].strbuf
  <2> DEFINE c == ran[n]
             y == c.sent + 1
  <2>1. c \in Call /\ y \in Nat
    BY <1>2, <1>3
  <2> HIDE DEF c, y
  <2>2. x = [c EXCEPT !.sent = y]
    BY DEF c, y
  <2> HIDE DEF x
  <2>3. /\ x \in Call /\ x.sent = y /\ x.to = c.to /\ x.out = c.out
        /\ x.result = c.result /\ x.strbuf = c.strbuf
    BY <2>1, <2>2 DEF Call
  <2> QED
    BY <2>3 DEF c, y
<1> HIDE DEF x
<1>7. /\ ran' \in Seq(Call) /\ Len(ran') = n /\ ran'[n] = x
      /\ \A c \in 1 .. n : c # n => ran'[c] = ran[c]
  BY <1>1, <1>2, <1>5, <1>6, ExceptSeq
<1>8. /\ \A c \in 1 .. n : /\ ran'[c].to = ran[c].to /\ ran'[c].out = ran[c].out
                           /\ ran'[c].result = ran[c].result /\ ran'[c].strbuf = ran[c].strbuf
      /\ ran'[n].sent = ran[n].sent + 1
  BY <1>6, <1>7
<1>9. \A c \in 1 .. n : /\ ran[c].sent \in Nat /\ ran'[c].sent \in Nat /\ ran[c].sent <= ran'[c].sent
  <2> SUFFICES ASSUME NEW c \in 1 .. n
               PROVE  ran[c].sent \in Nat /\ ran'[c].sent \in Nat /\ ran[c].sent <= ran'[c].sent
    OBVIOUS
  <2>1. ran[c].sent \in Nat
    BY <1>2 DEF Call
  <2> QED
    BY <1>3, <1>7, <1>8, <2>1
<1>10. Grows(ran, ran')
  <2>1. Len(ran) <= Len(ran')
    <3>1. Len(ran) \in Nat /\ Len(ran') = Len(ran)
      BY Zenon, <1>1, <1>7
    <3> QED
      BY <3>1
  <2>2. \A c \in 1 .. Len(ran) : ran'[c].to = ran[c].to /\ ran[c].sent <= ran'[c].sent
    BY <1>8, <1>9
  <2> QED
    BY <2>1, <2>2 DEF Grows
<1>11. Items(ran) \subseteq Items(ran')
  <2> SUFFICES ASSUME NEW y \in AnyItem, y.of \in 1 .. n, y.n <= ran[y.of].sent
               PROVE  y.of \in 1 .. Len(ran') /\ y.n <= ran'[y.of].sent
    BY DEF Items
  <2>1. y.n \in Nat
    BY DEF AnyItem
  <2> HIDE DEF n
  <2> QED
    BY <1>7, <1>9, <2>1
<1>12. Seq(Items(ran)) \subseteq Seq(Items(ran'))
  BY <1>11, SeqSubset
<1>13. CallsOK(ran')
  <2> SUFFICES ASSUME NEW c \in 1 .. n
               PROVE  ran'[c].sent <= Len(ran'[c].out) /\ ran'[c].result \in Seq(Items(ran'))
    BY <1>7 DEF CallsOK
  <2>1. ran[c].sent <= Len(ran[c].out) /\ ran[c].result \in Seq(Items(ran))
    BY <1>1 DEF CallsOK
  <2>2. Len(ran[n].out) \in Nat
    BY <1>3, LenProperties
  <2>3. ran'[c].sent <= Len(ran'[c].out)
    <3>1. CASE c = n
      BY <1>3, <1>8, <2>2, <3>1
    <3>2. CASE c # n
      BY <1>7, <2>1, <3>2
    <3> QED
      BY <3>1, <3>2
  <2> QED
    BY <1>8, <1>12, <2>1, <2>3
<1>14. p.of = n /\ p.n = ran[n].sent + 1 /\ p.kind \in Kinds
  <2>1. ran[n].sent + 1 \in 1 .. Len(ran[n].out)
    <3>1. Len(ran[n].out) \in Nat
      BY <1>3, LenProperties
    <3> QED
      BY <1>3, <3>1
  <2>2. ran[n].out[ran[n].sent + 1] \in {"part", "line", "latin1"}
    BY <1>3, <2>1, ElementOfSeq
  <2> QED
    BY <2>2 DEF Piece, Kinds
<1>15. p \in Own(ran', to)
  <2>1. p = [of |-> n, n |-> ran[n].sent + 1, kind |-> p.kind]
    BY DEF Piece
  <2>2. p \in AnyItem
    BY <1>1, <1>3, <1>14, <2>1 DEF AnyItem
  <2>3. p \in Items(ran')
    BY <1>2, <1>3, <1>7, <1>8, <1>14, <2>2 DEF Items
  <2>4. n \in CommandsOf(ran', to)
    BY <1>2, <1>7, <1>8 DEF CommandsOf
  <2> QED
    BY <1>3, <1>14, <2>3, <2>4 DEF Own, Ours
<1> HIDE DEF p
<1> QED
  <2> n \in 1 .. Len(ran) /\ to \in 1 .. Len(tees) /\ p \in Own(ran', to)
    BY <1>2, <1>4, <1>15
  <2> WITNESS n \in 1 .. Len(ran), to \in 1 .. Len(tees)
  <2> WITNESS p \in Own(ran', to)
  <2> QED
    BY <1>3, <1>5, <1>7, <1>8, <1>10, <1>13, <1>14 DEF p, Printing

\* A step of one tee that writes to what it wrote before, and of what it writes to.
LEMMA TeeStep ==
  ASSUME TypeInv, CallsOK(ran'), Grows(ran, ran'), Len(ran') = Len(ran),
         \A c \in 1 .. Len(ran) : ran'[c].strbuf = ran[c].strbuf /\ ran'[c].result = ran[c].result,
         NEW k \in 1 .. Len(tees), NEW x \in TeeOf(Own(ran', k)), tees' = [tees EXCEPT ![k] = x],
         x.into = tees[k].into, x.writer1 = tees[k].writer1,
         x.at = "string" => x.held \in 1 .. Len(strings),
         UNCHANGED <<pc, runtee, saved>>,
         strings' \in Seq(Seq(Items(ran))), Len(strings') = Len(strings), log' \in Seq(Items(ran))
  PROVE  /\ TypeInv'
         /\ Len(tees') = Len(tees) /\ tees'[k] = x /\ \A j \in 1 .. Len(tees) : j # k => tees'[j] = tees[j]
<1>1. /\ tees \in Seq(TeeOf(Items(ran'))) /\ \A j \in 1 .. Len(tees) : tees[j] \in TeeOf(Own(ran', j))
  BY TypesKept DEF TypeInv
<1>2. CallsOK(ran) /\ x \in TeeOf(Items(ran'))
  BY OwnIs DEF TypeInv, TypeOK
<1>3. strings' \in Seq(Seq(Items(ran'))) /\ log' \in Seq(Items(ran'))
  BY <1>2, GrowsIs
<1>4. /\ tees' \in Seq(TeeOf(Items(ran'))) /\ Len(tees') = Len(tees) /\ tees'[k] = x
      /\ \A j \in 1 .. Len(tees) : j # k => tees'[j] = tees[j]
  BY <1>1, <1>2, ExceptSeq
<1>5. \A j \in 1 .. Len(tees) : /\ tees'[j].into = tees[j].into /\ tees'[j].writer1 = tees[j].writer1
                                /\ tees'[j] \in TeeOf(Own(ran', j))
                                /\ tees'[j].at = "string" => tees'[j].held \in 1 .. Len(strings)
  <2> SUFFICES ASSUME NEW j \in 1 .. Len(tees)
               PROVE  /\ tees'[j].into = tees[j].into /\ tees'[j].writer1 = tees[j].writer1
                      /\ tees'[j] \in TeeOf(Own(ran', j))
                      /\ tees'[j].at = "string" => tees'[j].held \in 1 .. Len(strings)
    OBVIOUS
  <2>1. CASE j = k
    BY <1>4, <2>1
  <2>2. CASE j # k
    BY <1>1, <1>4, <2>2 DEF TypeInv, TeesOK
  <2> QED
    BY <2>1, <2>2
<1>6. Len(ran) \in Nat /\ \A c \in 1 .. Len(ran) : ran'[c].to = ran[c].to
  BY <1>2, LenProperties DEF CallsOK, Grows
<1>7. TypeOK'
  BY <1>3, <1>4, <1>5, <1>6 DEF TypeInv, TypeOK
<1>8. TeesOK'
  <2> DEFINE Is(j) == j \in 1 .. Len(tees') /\ tees'[j].into = j
  <2>1. \A j \in 1 .. Len(tees) : Is(j) <=> Base(j)
    BY <1>4, <1>5 DEF Base
  <2>2. \A j : Base(j) => j \in 1 .. Len(tees)
    BY DEF Base
  <2>3. \A j \in 1 .. Len(tees) : Is(tees'[j].into)
    BY <1>5, <2>1, <2>2 DEF TypeInv, TeesOK
  <2>4. \A j \in 1 .. Len(tees) : Is(j) => tees'[j].writer1 \in 1 .. Len(strings)
    BY <1>5, <2>1 DEF TypeInv, TeesOK
  <2>5. runtee = 0 \/ (Base(runtee) /\ Is(runtee))
    BY <2>1, <2>2 DEF TypeInv, TeesOK
  <2>6. \A i \in 1 .. Len(saved) : saved[i] = 0 \/ Is(saved'[i])
    <3>1. \A i \in 1 .. Len(saved) : saved[i] = 0 \/ (saved[i] \in 1 .. Len(tees) /\ tees[saved[i]].into = saved[i])
      BY DEF TypeInv, TeesOK, Base
    <3> QED
      BY <1>4, <1>5, <3>1
  <2>7. pc \in {"running", "read", "swapped"} => Len(ran) # 0 /\ runtee # 0
    BY DEF TypeInv, TeesOK
  <2>8. pc = "running" => ran'[Len(ran)].strbuf = tees'[runtee].writer1 /\ ran'[Len(ran)].result = <<>>
    <3> SUFFICES ASSUME pc = "running" PROVE ran'[Len(ran)].strbuf = tees'[runtee].writer1 /\ ran'[Len(ran)].result = <<>>
      OBVIOUS
    <3>1. Len(ran) \in 1 .. Len(ran) /\ runtee \in 1 .. Len(tees)
      BY <1>6, <2>2, <2>5, <2>7
    <3> QED
      BY <1>5, <3>1 DEF TypeInv, TeesOK
  <2>9. /\ runtee' = runtee /\ saved' = saved /\ pc' = pc /\ Len(strings') = Len(strings)
        /\ Len(ran') = Len(ran) /\ Len(tees') = Len(tees)
    BY <1>4
  <2>10. /\ \A j \in 1 .. Len(tees') : Is(tees'[j].into) /\ (Is(j) => tees'[j].writer1 \in 1 .. Len(strings'))
         /\ \A j \in 1 .. Len(tees') : tees'[j].at = "string" => tees'[j].held \in 1 .. Len(strings')
    BY <1>5, <2>3, <2>4, <2>9
  <2>11. /\ runtee' = 0 \/ Is(runtee')
         /\ \A i \in 1 .. Len(saved') : saved'[i] = 0 \/ Is(saved'[i])
    BY <2>5, <2>6, <2>9
  <2>12. /\ pc' \in {"running", "read", "swapped"} => Len(ran') # 0 /\ runtee' # 0
         /\ pc' = "running" => ran'[Len(ran')].strbuf = tees'[runtee'].writer1 /\ ran'[Len(ran')].result = <<>>
    BY <2>7, <2>8, <2>9
  <2> QED
    BY <2>10, <2>11, <2>12 DEF TeesOK, Base
<1> QED
  BY <1>4, <1>7, <1>8 DEF TypeInv

LEMMA PrintType ==
  ASSUME TypeInv, Print1
  PROVE  TypeInv'
<1>a. PICK n \in 1 .. Len(ran), to \in 1 .. Len(tees) : \E p \in Own(ran', to) : Printing(n, to, p)
  BY PrintIs
<1>b. PICK p \in Own(ran', to) : Printing(n, to, p)
  BY <1>a
<1>1. /\ n \in 1 .. Len(ran) /\ to \in 1 .. Len(tees)
      /\ n = Len(ran) /\ to = ran[n].to /\ Len(ran') = n /\ ran[n].sent \in Nat
      /\ CallsOK(ran') /\ Grows(ran, ran')
      /\ \A c \in 1 .. n : /\ ran'[c].to = ran[c].to /\ ran'[c].out = ran[c].out
                           /\ ran'[c].result = ran[c].result /\ ran'[c].strbuf = ran[c].strbuf
  BY <1>a, <1>b DEF Printing
<1>2. /\ p \in Own(ran', to)
      /\ n = Len(ran) /\ Len(ran') = n
      /\ CallsOK(ran') /\ Grows(ran, ran')
      /\ \A c \in 1 .. n : ran'[c].result = ran[c].result /\ ran'[c].strbuf = ran[c].strbuf
      /\ tees' = [tees EXCEPT ![to] = [tees[to] EXCEPT !.pipe = Append(tees[to].pipe, p)]]
  BY <1>b DEF Printing
<1> DEFINE x == [tees[to] EXCEPT !.pipe = Append(tees[to].pipe, p)]
<1>3. tees[to] \in TeeOf(Own(ran', to))
  BY <1>2, TypesKept DEF TypeInv
<1>4. x \in TeeOf(Own(ran', to)) /\ x.into = tees[to].into /\ x.writer1 = tees[to].writer1
      /\ x.at = tees[to].at /\ x.held = tees[to].held
  <2> DEFINE q == Append(tees[to].pipe, p)
  <2>1. q \in Seq(Own(ran', to))
    BY <1>3, AppendProperties DEF TeeOf
  <2>2. x = [tees[to] EXCEPT !.pipe = q]
    OBVIOUS
  <2> HIDE DEF q, x
  <2> QED
    BY <1>3, <2>1, <2>2 DEF TeeOf
<1>5. x.at = "string" => x.held \in 1 .. Len(strings)
  BY <1>4 DEF TypeInv, TeesOK
<1>6. /\ UNCHANGED <<pc, runtee, saved>> /\ strings' \in Seq(Seq(Items(ran)))
      /\ Len(strings') = Len(strings) /\ log' \in Seq(Items(ran))
  BY DEF Print1, TypeInv, TypeOK
<1> HIDE DEF x
<1> QED
  BY <1>2, <1>4, <1>5, <1>6, TeeStep DEF x

\* The steps of a tee.
LEMMA PollIs ==
  ASSUME TypeInv, NEW k \in 1 .. Len(tees), Poll(k)
  PROVE  /\ TypeInv' /\ Len(tees') = Len(tees) /\ \A j \in 1 .. Len(tees) : j # k => tees'[j] = tees[j]
         /\ tees[k].at = "poll" /\ tees'[k].at # "string" /\ ran' = ran /\ pc' = pc /\ runtee' = runtee
         /\ tees'[k].into = tees[k].into /\ tees'[k].writer1 = tees[k].writer1
         /\ strings' = strings /\ log' = log
         /\ Unwritten(tees'[k]) = tees[k].buf \o tees[k].pipe
<1> DEFINE n == Min({ReadSize, Len(tees[k].pipe)})
           x == Read(tees[k], n)
<1>1. tees[k] \in TeeOf(Own(ran, k)) /\ CallsOK(ran)
  BY DEF TypeInv, TypeOK
<1>2. n \in 1 .. Len(tees[k].pipe)
  <2>1. tees[k].pipe \in Seq(Own(ran, k)) /\ tees[k].pipe # <<>>
    BY <1>1 DEF TeeOf, Poll
  <2>2. Len(tees[k].pipe) \in Nat \ {0}
    BY <2>1, LenProperties, EmptySeq
  <2>3. ReadSize \in Nat \ {0}
    BY RunAssumption
  <2> DEFINE T == {ReadSize, Len(tees[k].pipe)}
  <2>4. T \subseteq Nat /\ T # {} /\ T \subseteq Nat \ {0}
    BY <2>2, <2>3
  <2>5. Min(T) \in T /\ \A i \in T : Min(T) <= i
    <3> HIDE DEF T
    <3> QED
      BY <2>4, Least
  <2>6. Min(T) \in Nat \ {0} /\ Min(T) <= Len(tees[k].pipe)
    BY <2>4, <2>5
  <2> QED
    BY <2>2, <2>6
<1>3. /\ tees' = [tees EXCEPT ![k] = x] /\ UNCHANGED <<pc, ran, runtee, saved, strings, log>>
      /\ tees[k].at = "poll"
  BY DEF Poll, Thread, Alive
<1> HIDE DEF n
<1>4. /\ x \in TeeOf(Own(ran, k)) /\ x.at # "string" /\ x.into = tees[k].into
      /\ x.writer1 = tees[k].writer1 /\ Unwritten(x) = tees[k].buf \o tees[k].pipe
  BY <1>1, <1>2, ReadIs
<1> HIDE DEF x
<1>5. Grows(ran, ran) /\ strings \in Seq(Seq(Items(ran))) /\ log \in Seq(Items(ran))
  BY <1>1, GrowsSame DEF TypeInv, TypeOK
<1>6. /\ TypeInv' /\ Len(tees') = Len(tees) /\ tees'[k] = x
      /\ \A j \in 1 .. Len(tees) : j # k => tees'[j] = tees[j]
  BY <1>1, <1>3, <1>4, <1>5, TeeStep
<1> QED
  BY <1>3, <1>4, <1>6

LEMMA WriteLogIs ==
  ASSUME TypeInv, NEW k \in 1 .. Len(tees), WriteLog(k)
  PROVE  /\ TypeInv' /\ Len(tees') = Len(tees) /\ \A j \in 1 .. Len(tees) : j # k => tees'[j] = tees[j]
         /\ tees[k].at = "log" /\ tees'[k].at = "string" /\ ran' = ran /\ pc' = pc /\ runtee' = runtee
         /\ tees'[k].held = tees[tees[k].into].writer1
         /\ tees'[k].into = tees[k].into /\ tees'[k].writer1 = tees[k].writer1
         /\ tees'[k].line = tees[k].line /\ tees'[k].buf = tees[k].buf /\ tees'[k].pipe = tees[k].pipe
         /\ strings' = strings /\ log' = log \o tees[k].line
<1> DEFINE w == tees[tees[k].into].writer1
           x == [tees[k] EXCEPT !.at = "string", !.held = w]
<1>1. tees[k] \in TeeOf(Own(ran, k)) /\ CallsOK(ran) /\ log \in Seq(Items(ran)) /\ tees \in Seq(TeeOf(Items(ran)))
  BY DEF TypeInv, TypeOK
<1>2. w \in 1 .. Len(strings) /\ w \in Nat
  <2>1. tees[k].into \in 1 .. Len(tees) /\ Base(tees[k].into)
    BY DEF TypeInv, TeesOK, Base
  <2>2. w \in 1 .. Len(strings)
    BY <2>1 DEF TypeInv, TeesOK
  <2>3. tees[tees[k].into] \in TeeOf(Items(ran))
    BY <1>1, <2>1, ElementOfSeq
  <2> QED
    BY <2>2, <2>3 DEF TeeOf
<1>3. /\ tees' = [tees EXCEPT ![k] = x] /\ UNCHANGED <<pc, ran, runtee, saved, strings>>
      /\ tees[k].at = "log" /\ log' = log \o tees[k].line
  <2>1. DOMAIN tees = 1 .. Len(tees)
    BY <1>1, LenProperties
  <2> QED
    BY <2>1 DEF WriteLog, Thread, Alive
<1> HIDE DEF w
<1>4. /\ x \in TeeOf(Own(ran, k)) /\ x.at = "string" /\ x.held = w /\ x.into = tees[k].into
      /\ x.writer1 = tees[k].writer1 /\ x.line = tees[k].line /\ x.buf = tees[k].buf /\ x.pipe = tees[k].pipe
  BY <1>1, <1>2 DEF TeeOf
<1> HIDE DEF x
<1>5. Grows(ran, ran) /\ strings \in Seq(Seq(Items(ran)))
  BY <1>1, GrowsSame DEF TypeInv, TypeOK
<1>6. log' \in Seq(Items(ran))
  <2>1. tees[k].line \in Seq(Items(ran))
    BY <1>1, OwnIs DEF TeeOf
  <2> QED
    BY <1>1, <1>3, <2>1, ConcatProperties
<1>7. /\ TypeInv' /\ Len(tees') = Len(tees) /\ tees'[k] = x
      /\ \A j \in 1 .. Len(tees) : j # k => tees'[j] = tees[j]
  BY <1>1, <1>2, <1>3, <1>4, <1>5, <1>6, TeeStep
<1> QED
  BY <1>3, <1>4, <1>7 DEF w

LEMMA WriteStringIs ==
  ASSUME TypeInv, NEW k \in 1 .. Len(tees), WriteString(k)
  PROVE  /\ TypeInv' /\ Len(tees') = Len(tees) /\ \A j \in 1 .. Len(tees) : j # k => tees'[j] = tees[j]
         /\ tees[k].at = "string" /\ tees'[k].at # "string" /\ ran' = ran /\ pc' = pc /\ runtee' = runtee
         /\ tees'[k].into = tees[k].into /\ tees'[k].writer1 = tees[k].writer1
         /\ Unwritten(tees'[k]) = tees[k].buf \o tees[k].pipe
         /\ tees[k].held \in 1 .. Len(strings) /\ strings'[tees[k].held] = strings[tees[k].held] \o tees[k].line
         /\ \A i \in 1 .. Len(strings) : i # tees[k].held => strings'[i] = strings[i]
         /\ Len(strings') = Len(strings) /\ log' = log
<1> DEFINE h == tees[k].held
           y == [tees[k] EXCEPT !.held = 0]
           x == Cut(y)
           s == strings[h] \o tees[k].line
<1>1. tees[k] \in TeeOf(Own(ran, k)) /\ CallsOK(ran) /\ strings \in Seq(Seq(Items(ran))) /\ log \in Seq(Items(ran))
  BY DEF TypeInv, TypeOK
<1>2. /\ tees' = [tees EXCEPT ![k] = x] /\ UNCHANGED <<pc, ran, runtee, saved, log>>
      /\ tees[k].at = "string" /\ strings' = [strings EXCEPT ![h] = s]
  BY DEF WriteString, Thread, Alive, NextLine
<1>3. h \in 1 .. Len(strings)
  BY <1>2 DEF TypeInv, TeesOK
<1>4. y \in TeeOf(Own(ran, k)) /\ y.into = tees[k].into /\ y.writer1 = tees[k].writer1
      /\ y.buf = tees[k].buf /\ y.pipe = tees[k].pipe
  BY <1>1 DEF TeeOf
<1> HIDE DEF y
<1>5. /\ x \in TeeOf(Own(ran, k)) /\ x.at # "string" /\ x.into = tees[k].into
      /\ x.writer1 = tees[k].writer1 /\ Unwritten(x) = tees[k].buf \o tees[k].pipe
  <2>1. y \in TeeOf(Own(ran, k))
    BY <1>4
  <2>2. /\ x \in TeeOf(Own(ran, k)) /\ x.at # "string" /\ x.into = y.into
        /\ x.writer1 = y.writer1 /\ Unwritten(x) = y.buf \o y.pipe
    BY <2>1, CutIs
  <2> HIDE DEF x
  <2> QED
    BY <1>4, <2>2
<1> HIDE DEF x
<1>6. Grows(ran, ran)
  BY <1>1, GrowsSame
<1>7. s \in Seq(Items(ran))
  <2>1. tees[k].line \in Seq(Items(ran)) /\ strings[h] \in Seq(Items(ran))
    BY <1>1, <1>3, OwnIs, ElementOfSeq DEF TeeOf
  <2> QED
    BY <2>1, ConcatProperties
<1> HIDE DEF s
<1>8. /\ strings' \in Seq(Seq(Items(ran))) /\ Len(strings') = Len(strings) /\ strings'[h] = s
      /\ \A i \in 1 .. Len(strings) : i # h => strings'[i] = strings[i]
  BY <1>1, <1>2, <1>3, <1>7, ExceptSeq
<1>9. /\ TypeInv' /\ Len(tees') = Len(tees) /\ tees'[k] = x
      /\ \A j \in 1 .. Len(tees) : j # k => tees'[j] = tees[j]
  BY <1>1, <1>2, <1>5, <1>6, <1>8, TeeStep
<1> QED
  BY <1>2, <1>3, <1>5, <1>8, <1>9 DEF s

\* The steps of the main thread.
LEMMA GetValueIs ==
  ASSUME TypeInv, GetValue
  PROVE  /\ TypeInv' /\ CallsOK(ran') /\ Grows(ran, ran') /\ Len(ran') = Len(ran) /\ Len(ran) # 0
         /\ \A c \in 1 .. Len(ran) : /\ ran'[c].to = ran[c].to /\ ran'[c].sent = ran[c].sent
                                     /\ ran'[c].out = ran[c].out
         /\ \A c \in 1 .. Len(ran) - 1 : ran'[c] = ran[c]
         /\ ran[Len(ran)].result = <<>> /\ ran'[Len(ran)].result = strings[tees[runtee].writer1]
         /\ Base(runtee) /\ pc = "running" /\ pc' = "read" /\ UNCHANGED <<runtee, tees, strings, log>>
<1> DEFINE n == Len(ran)
           w == tees[runtee].writer1
           res == strings[w]
<1>1. CallsOK(ran) /\ n # 0 /\ n \in Nat /\ ran \in Seq(Call) /\ Base(runtee) /\ w \in 1 .. Len(strings)
      /\ ran[n].strbuf = w /\ ran[n].result = <<>> /\ runtee \in 1 .. Len(tees)
      /\ strings \in Seq(Seq(Items(ran))) /\ log \in Seq(Items(ran))
  <2>1. CallsOK(ran) /\ n # 0 /\ ran \in Seq(Call) /\ runtee # 0 /\ runtee \in Nat
        /\ strings \in Seq(Seq(Items(ran))) /\ log \in Seq(Items(ran))
    BY DEF TypeInv, TypeOK, TeesOK, CallsOK, GetValue
  <2>2. Base(runtee) /\ runtee \in 1 .. Len(tees)
    BY <2>1 DEF TypeInv, TeesOK, Base
  <2>3. w \in 1 .. Len(strings)
    BY <2>2 DEF TypeInv, TeesOK
  <2>4. ran[n].strbuf = w /\ ran[n].result = <<>>
    BY DEF TypeInv, TeesOK, GetValue
  <2> QED
    BY <2>1, <2>2, <2>3, <2>4, LenProperties
<1>2. /\ pc = "running" /\ pc' = "read" /\ UNCHANGED <<runtee, saved, tees, strings, log>>
      /\ ran' = [ran EXCEPT ![n].result = res]
  BY <1>1 DEF GetValue, last
<1>3. res \in Seq(Items(ran))
  BY <1>1, ElementOfSeq
<1> HIDE DEF res
<1> DEFINE x == [ran[n] EXCEPT !.result = res]
<1>4. /\ x \in Call /\ x.result = res /\ x.to = ran[n].to /\ x.sent = ran[n].sent /\ x.out = ran[n].out
      /\ x.strbuf = ran[n].strbuf /\ n \in 1 .. n
  <2>1. n \in 1 .. n /\ ran[n] \in Call
    BY <1>1, ElementOfSeq
  <2>2. res \in Seq(AnyItem)
    <3>1. Items(ran) \subseteq AnyItem
      BY DEF Items
    <3> QED
      BY <1>3, <3>1, SeqSubset
  <2> HIDE DEF n
  <2> QED
    BY <2>1, <2>2 DEF Call
<1>5. /\ CallsOK(ran') /\ Grows(ran, ran') /\ Len(ran') = n /\ ran'[n] = x
      /\ \A c \in 1 .. n : c # n => ran'[c] = ran[c]
      /\ \A c \in 1 .. n : ran'[c].to = ran[c].to /\ ran'[c].sent = ran[c].sent /\ ran'[c].out = ran[c].out
  <2>1. ran' = [ran EXCEPT ![n] = x]
    BY <1>2
  <2> HIDE DEF x
  <2>2. Changes(ran, x, ran')
    BY <1>1, <1>3, <1>4, <2>1 DEF Changes
  <2> QED
    BY <2>2, CallChanges
<1> HIDE DEF x
<1>6. \A c \in 1 .. n : ran[c].to \in 1 .. Len(tees)
  BY DEF TypeInv, TypeOK
<1>7. TypeOK'
  <2>1. /\ tees \in Seq(TeeOf(Items(ran'))) /\ \A k \in 1 .. Len(tees) : tees[k] \in TeeOf(Own(ran', k))
        /\ strings \in Seq(Seq(Items(ran'))) /\ log \in Seq(Items(ran'))
    BY <1>5, TypesKept DEF TypeInv
  <2>2. runtee \in Nat /\ saved \in Seq(Nat)
    BY DEF TypeInv, TypeOK
  <2> QED
    BY <1>2, <1>5, <1>6, <2>1, <2>2 DEF TypeOK
<1>8. TeesOK'
  BY <1>1, <1>2, <1>5 DEF TypeInv, TeesOK, Base
<1>9. \A c \in 1 .. n - 1 : ran'[c] = ran[c]
  BY <1>1, <1>5
<1> QED
  BY <1>1, <1>2, <1>4, <1>5, <1>7, <1>8, <1>9 DEF TypeInv, res

LEMMA SwapIs ==
  ASSUME TypeInv, Swap
  PROVE  /\ TypeInv' /\ Base(runtee) /\ Len(tees') = Len(tees)
         /\ \A k \in 1 .. Len(tees) : /\ tees'[k].into = tees[k].into /\ tees'[k].at = tees[k].at
                                      /\ tees'[k].held = tees[k].held /\ tees'[k].line = tees[k].line
                                      /\ tees'[k].buf = tees[k].buf /\ tees'[k].pipe = tees[k].pipe
                                      /\ k # runtee => tees'[k].writer1 = tees[k].writer1
         /\ tees'[runtee].writer1 = Len(strings) + 1 /\ Len(strings') = Len(strings) + 1
         /\ strings'[Len(strings) + 1] = <<>> /\ \A i \in 1 .. Len(strings) : strings'[i] = strings[i]
         /\ pc = "read" /\ pc' = "swapped" /\ UNCHANGED <<ran, runtee, log>>
<1> DEFINE n == Len(strings) + 1
           x == [tees[runtee] EXCEPT !.writer1 = n]
<1>1. CallsOK(ran) /\ strings \in Seq(Seq(Items(ran))) /\ log \in Seq(Items(ran)) /\ Len(ran) # 0
      /\ runtee # 0 /\ runtee \in Nat /\ saved \in Seq(Nat) /\ tees \in Seq(TeeOf(Items(ran)))
      /\ Base(runtee) /\ runtee \in 1 .. Len(tees) /\ tees[runtee].into = runtee
  BY DEF TypeInv, TypeOK, TeesOK, Base, Swap
<1>2. /\ pc = "read" /\ pc' = "swapped" /\ UNCHANGED <<ran, runtee, saved, log>>
      /\ strings' = Append(strings, <<>>) /\ tees' = [tees EXCEPT ![runtee] = x]
  BY DEF Swap
<1>3. n \in Nat /\ Len(strings) \in Nat /\ <<>> \in Seq(Items(ran)) /\ Len(tees) \in Nat
  BY <1>1, LenProperties, EmptySeq
<1>4. /\ strings' \in Seq(Seq(Items(ran))) /\ Len(strings') = n /\ strings'[n] = <<>>
      /\ \A i \in 1 .. Len(strings) : strings'[i] = strings[i]
  BY <1>1, <1>2, <1>3, AppendProperties
<1> HIDE DEF n
<1>5. tees[runtee] \in TeeOf(Own(ran, runtee))
  BY <1>1 DEF TypeInv, TypeOK
<1>6. /\ x \in TeeOf(Own(ran, runtee)) /\ x \in TeeOf(Items(ran))
      /\ x.into = tees[runtee].into /\ x.at = tees[runtee].at /\ x.held = tees[runtee].held
      /\ x.line = tees[runtee].line /\ x.buf = tees[runtee].buf /\ x.pipe = tees[runtee].pipe
      /\ x.writer1 = n
  <2>1. x \in TeeOf(Own(ran, runtee))
    BY <1>3, <1>5 DEF TeeOf
  <2>2. x \in TeeOf(Items(ran))
    BY <2>1, OwnIs
  <2> QED
    BY <1>5, <2>1, <2>2 DEF TeeOf
<1> HIDE DEF x
<1>7. /\ tees' \in Seq(TeeOf(Items(ran))) /\ Len(tees') = Len(tees) /\ tees'[runtee] = x
      /\ \A k \in 1 .. Len(tees) : k # runtee => tees'[k] = tees[k]
  BY <1>1, <1>2, <1>6, ExceptSeq
<1>8. \A k \in 1 .. Len(tees) : /\ tees'[k].into = tees[k].into /\ tees'[k].at = tees[k].at
                                /\ tees'[k].held = tees[k].held /\ tees'[k].line = tees[k].line
                                /\ tees'[k].buf = tees[k].buf /\ tees'[k].pipe = tees[k].pipe
                                /\ k # runtee => tees'[k].writer1 = tees[k].writer1
                                /\ tees'[k] \in TeeOf(Own(ran, k))
  <2> SUFFICES ASSUME NEW k \in 1 .. Len(tees)
               PROVE  /\ tees'[k].into = tees[k].into /\ tees'[k].at = tees[k].at
                      /\ tees'[k].held = tees[k].held /\ tees'[k].line = tees[k].line
                      /\ tees'[k].buf = tees[k].buf /\ tees'[k].pipe = tees[k].pipe
                      /\ k # runtee => tees'[k].writer1 = tees[k].writer1
                      /\ tees'[k] \in TeeOf(Own(ran, k))
    OBVIOUS
  <2>1. CASE k = runtee
    BY <1>6, <1>7, <2>1
  <2>2. CASE k # runtee
    BY <1>7, <2>2 DEF TypeInv, TypeOK
  <2> QED
    BY <2>1, <2>2
<1>9. TypeOK'
  BY <1>1, <1>2, <1>4, <1>7, <1>8 DEF TypeInv, TypeOK
<1>10. ASSUME NEW k \in 1 .. Len(tees)
       PROVE  /\ tees'[k].into \in 1 .. Len(tees) /\ tees'[tees'[k].into].into = tees'[k].into
              /\ tees'[k].into = k => tees'[k].writer1 \in 1 .. n
              /\ tees'[k].at = "string" => tees'[k].held \in 1 .. n
  <2>1. /\ tees[k].into \in 1 .. Len(tees) /\ tees[tees[k].into].into = tees[k].into
        /\ tees[k].into = k => tees[k].writer1 \in 1 .. Len(strings)
        /\ tees[k].at = "string" => tees[k].held \in 1 .. Len(strings)
    BY DEF TypeInv, TeesOK, Base
  <2>2. 1 .. Len(strings) \subseteq 1 .. n /\ n \in 1 .. n
    BY <1>3 DEF n
  <2> QED
    BY <1>6, <1>7, <1>8, <2>1, <2>2
<1>11. \A i \in 1 .. Len(saved) : saved[i] = 0 \/ (saved[i] \in 1 .. Len(tees) /\ tees[saved[i]].into = saved[i])
  BY DEF TypeInv, TeesOK, Base
<1>12. TeesOK'
  BY <1>1, <1>2, <1>4, <1>7, <1>8, <1>10, <1>11, SMTT(30) DEF TeesOK, Base
<1> QED
  BY <1>1, <1>2, <1>4, <1>6, <1>7, <1>8, <1>9, <1>12 DEF TypeInv, n

LEMMA ReturnIs ==
  ASSUME TypeInv, NEW exits \in BOOLEAN, Return(exits)
  PROVE  /\ TypeInv' /\ CallsOK(ran') /\ Grows(ran, ran') /\ Len(ran') = Len(ran) /\ Len(ran) # 0
         /\ \A c \in 1 .. Len(ran) : /\ ran'[c].to = ran[c].to /\ ran'[c].sent = ran[c].sent
                                     /\ ran'[c].out = ran[c].out /\ ran'[c].result = ran[c].result
         /\ log' = Append(log, Blank(Len(ran))) /\ Blank(Len(ran)) \in Items(ran)
         /\ pc = "swapped" /\ pc' \in {"idle", "exited"} /\ UNCHANGED <<runtee, tees, strings>>
<1> DEFINE n == Len(ran)
<1>1. CallsOK(ran) /\ n # 0 /\ n \in Nat /\ ran \in Seq(Call) /\ log \in Seq(Items(ran))
  BY LenProperties DEF TypeInv, TypeOK, TeesOK, CallsOK, Return
<1>2. /\ pc = "swapped" /\ pc' \in {"idle", "exited"} /\ UNCHANGED <<runtee, saved, tees, strings>>
      /\ ran' = [ran EXCEPT ![n].done = TRUE] /\ log' = Append(log, Blank(n))
  BY DEF Return, last
<1> DEFINE x == [ran[n] EXCEPT !.done = TRUE]
<1>3. /\ x \in Call /\ x.result = ran[n].result /\ x.to = ran[n].to /\ x.sent = ran[n].sent
      /\ x.out = ran[n].out /\ n \in 1 .. n /\ ran[n] \in Call
  <2>1. n \in 1 .. n /\ ran[n] \in Call
    BY <1>1, ElementOfSeq
  <2> HIDE DEF n
  <2> QED
    BY <2>1 DEF Call
<1>4. x.result \in Seq(Items(ran))
  BY <1>1, <1>3 DEF CallsOK
<1>5. /\ CallsOK(ran') /\ Grows(ran, ran') /\ Len(ran') = n /\ ran'[n] = x
      /\ \A c \in 1 .. n : c # n => ran'[c] = ran[c]
      /\ \A c \in 1 .. n : ran'[c].to = ran[c].to /\ ran'[c].sent = ran[c].sent /\ ran'[c].out = ran[c].out
  <2>1. ran' = [ran EXCEPT ![n] = x]
    BY <1>2
  <2> HIDE DEF x
  <2>2. Changes(ran, x, ran')
    BY <1>1, <1>3, <1>4, <2>1 DEF Changes
  <2> QED
    BY <2>2, CallChanges
<1> HIDE DEF x
<1>6. \A c \in 1 .. n : ran'[c].result = ran[c].result
  BY <1>3, <1>5
<1>7. Blank(n) \in Items(ran)
  <2>1. ran[n].sent \in Nat
    BY <1>3 DEF Call
  <2> HIDE DEF n
  <2>2. Blank(n) \in AnyItem /\ Blank(n).of = n /\ Blank(n).n = 0
    BY <1>1 DEF Blank, AnyItem, Kinds
  <2> QED
    BY <1>1, <1>3, <2>1, <2>2 DEF Items, n
<1>8. log' \in Seq(Items(ran))
  BY <1>1, <1>2, <1>7, AppendProperties
<1>9. \A c \in 1 .. n : ran[c].to \in 1 .. Len(tees)
  BY DEF TypeInv, TypeOK
<1>10. TypeOK'
  <2>1. /\ tees \in Seq(TeeOf(Items(ran'))) /\ \A k \in 1 .. Len(tees) : tees[k] \in TeeOf(Own(ran', k))
        /\ strings \in Seq(Seq(Items(ran')))
    BY <1>5, TypesKept DEF TypeInv
  <2>2. runtee \in Nat /\ saved \in Seq(Nat)
    BY DEF TypeInv, TypeOK
  <2>3. log' \in Seq(Items(ran'))
    BY <1>1, <1>5, <1>8, GrowsIs
  <2> QED
    BY <1>2, <1>5, <1>9, <2>1, <2>2, <2>3 DEF TypeOK
<1>11. TeesOK'
  BY <1>1, <1>2, <1>5 DEF TypeInv, TeesOK, Base
<1> QED
  BY <1>1, <1>2, <1>5, <1>6, <1>7, <1>10, <1>11 DEF TypeInv

\* The steps that change neither calls nor tees.
LEMMA StillIs ==
  ASSUME TypeInv, (\E e \in BOOLEAN : NotFound(e)) \/ Copy \/ Back \/ UNCHANGED vars
  PROVE  TypeInv' /\ UNCHANGED <<ran, tees, strings, log>>
         /\ (UNCHANGED <<pc, runtee>> \/ (pc # "read" /\ pc' # "read"))
<1>1. UNCHANGED <<ran, tees, strings, log>>
  BY DEF NotFound, Copy, Back, vars
<1>2. /\ runtee \in Nat /\ saved \in Seq(Nat) /\ (runtee = 0 \/ Base(runtee))
      /\ \A i \in 1 .. Len(saved) : saved[i] = 0 \/ Base(saved[i])
  BY DEF TypeInv, TypeOK, TeesOK
<1>3. ASSUME NEW e \in BOOLEAN, NotFound(e) PROVE TypeInv' /\ pc # "read" /\ pc' # "read"
  BY <1>3 DEF NotFound, TypeInv, TypeOK, TeesOK, Base
<1>4. CASE Copy
  <2>1. pc' = pc /\ pc = "idle" /\ runtee' = runtee /\ saved' = <<runtee>> \o saved
    BY <1>4 DEF Copy
  <2> DEFINE s == <<runtee>> \o saved
  <2>2. s \in Seq(Nat) /\ Len(s) = Len(saved) + 1 /\ s[1] = runtee /\ \A i \in 2 .. Len(s) : s[i] = saved[i - 1]
    BY <1>2
  <2>3. Len(saved) \in Nat
    BY <1>2, LenProperties
  <2> HIDE DEF s
  <2>4. \A i \in 1 .. Len(s) : s[i] = 0 \/ Base(s[i])
    <3> SUFFICES ASSUME NEW i \in 1 .. Len(s) PROVE s[i] = 0 \/ Base(s[i])
      OBVIOUS
    <3>1. CASE i = 1
      BY <1>2, <2>2, <3>1
    <3>2. CASE i # 1
      <4>1. i \in 2 .. Len(s) /\ i - 1 \in 1 .. Len(saved)
        BY <2>2, <2>3, <3>2
      <4> QED
        BY <1>2, <2>2, <4>1
    <3> QED
      BY <3>1, <3>2
  <2>5. saved' = s
    BY <2>1 DEF s
  <2> QED
    BY <1>1, <2>1, <2>2, <2>4, <2>5 DEF TypeInv, TypeOK, TeesOK, Base
<1>5. CASE Back
  <2>1. pc' = pc /\ pc = "idle" /\ saved # <<>> /\ runtee' = Head(saved) /\ saved' = Tail(saved)
    BY <1>5 DEF Back
  <2>2. /\ Head(saved) \in Nat /\ Tail(saved) \in Seq(Nat) /\ Head(saved) = saved[1]
        /\ Len(Tail(saved)) = Len(saved) - 1
        /\ \A i \in 1 .. Len(Tail(saved)) : Tail(saved)[i] = saved[i + 1]
    BY <1>2, <2>1, HeadTailProperties
  <2>3. Len(saved) \in Nat \ {0}
    BY <1>2, <2>1, LenProperties, EmptySeq
  <2>4. 1 \in 1 .. Len(saved) /\ \A i \in 1 .. Len(Tail(saved)) : i + 1 \in 1 .. Len(saved)
    BY <2>2, <2>3
  <2>5. (Head(saved) = 0 \/ Base(Head(saved)))
        /\ \A i \in 1 .. Len(Tail(saved)) : Tail(saved)[i] = 0 \/ Base(Tail(saved)[i])
    BY <1>2, <2>2, <2>4
  <2> QED
    BY <1>1, <2>1, <2>2, <2>5 DEF TypeInv, TypeOK, TeesOK, Base
<1>6. CASE UNCHANGED vars
  BY <1>6 DEF vars, TypeInv, TypeOK, TeesOK, Base
<1> QED
  BY <1>1, <1>3, <1>4, <1>5, <1>6 DEF Copy, Back, vars

LEMMA StepType == TypeInv /\ [Next]_vars => TypeInv'
<1> SUFFICES ASSUME TypeInv, [Next]_vars PROVE TypeInv'
  OBVIOUS
<1>1. ASSUME NEW out \in Outputs, NEW teeout \in BOOLEAN, Run(out, teeout) PROVE TypeInv'
  BY <1>1, RunType
<1>2. CASE Print1
  BY <1>2, PrintType
<1>3. CASE GetValue
  BY <1>3, GetValueIs
<1>4. CASE Swap
  BY <1>4, SwapIs
<1>5. ASSUME NEW exits \in BOOLEAN, Return(exits) PROVE TypeInv'
  BY <1>5, ReturnIs
<1>6. CASE (\E e \in BOOLEAN : NotFound(e)) \/ Copy \/ Back \/ UNCHANGED vars
  BY <1>6, StillIs
<1>7. ASSUME NEW k \in DOMAIN tees, Flusher(k) PROVE TypeInv'
  <2>1. k \in 1 .. Len(tees)
    BY <1>7, LenProperties DEF TypeInv, TypeOK
  <2>2. CASE Poll(k)
    BY <2>1, <2>2, PollIs
  <2>3. CASE WriteLog(k)
    BY <2>1, <2>3, WriteLogIs
  <2>4. CASE WriteString(k)
    BY <2>1, <2>4, WriteStringIs
  <2> QED
    BY <1>7, <2>2, <2>3, <2>4 DEF Flusher
<1> QED
  BY <1>1, <1>2, <1>3, <1>4, <1>5, <1>6, <1>7 DEF Next, Calls, Main, Scopes, Tees

\* What is printed and what is logged -----------------------------------------------------------

\* What each call of r has printed for tee k.
ListsOf(r, k) ==
  [c \in 1 .. Len(r) |->
     IF r[c].to = k THEN [n \in 1 .. r[c].sent |-> [of |-> c, n |-> n, kind |-> r[c].out[n]]] ELSE <<>>]

\* What is in the log and still to be written by tee k is what was printed for it.
AllThere(r, lg, t, k) == PrintedBy(CommandsOf(r, k), lg) \o Unwritten(t) = FlattenSeq(ListsOf(r, k))

LEMMA NothingLostIs ==
  ASSUME TypeInv
  PROVE  NothingLost <=> \A k \in 1 .. Len(tees) : AllThere(ran, log, tees[k], k)
<1>1. DOMAIN tees = 1 .. Len(tees)
  BY LenProperties DEF TypeInv, TypeOK
<1>2. \A k : Output(log, k) = PrintedBy(CommandsOf(ran, k), log)
  BY DEF Output, Commands, CommandsOf, last
<1>3. \A k : Printed(k) = FlattenSeq(ListsOf(ran, k))
  BY DEF Printed, ListsOf, Piece, last
<1> QED
  BY <1>1, <1>2, <1>3 DEF NothingLost, AllThere, Unwritten

LEMMA ListsIs ==
  ASSUME NEW r, CallsOK(r), NEW k
  PROVE  /\ ListsOf(r, k) \in Seq(Seq(Items(r))) /\ Len(ListsOf(r, k)) = Len(r)
         /\ \A c \in 1 .. Len(r) : r[c].to # k \/ r[c].sent = 0 => ListsOf(r, k)[c] = <<>>
<1>1. Len(r) \in Nat /\ r \in Seq(Call)
  BY LenProperties DEF CallsOK
<1>2. ASSUME NEW c \in 1 .. Len(r)
      PROVE  /\ ListsOf(r, k)[c] \in Seq(Items(r))
             /\ r[c].to # k \/ r[c].sent = 0 => ListsOf(r, k)[c] = <<>>
  <2> DEFINE s == r[c].sent
             f == [n \in 1 .. s |-> [of |-> c, n |-> n, kind |-> r[c].out[n]]]
  <2>1. s \in Nat /\ r[c].out \in Seq({"part", "line", "latin1"}) /\ s <= Len(r[c].out)
    <3>1. r[c] \in Call
      BY <1>1, ElementOfSeq
    <3> QED
      BY <3>1, RunAssumption DEF Call, CallsOK
  <2>2. Len(r[c].out) \in Nat
    BY <2>1, LenProperties
  <2>3. ASSUME NEW n \in 1 .. s PROVE [of |-> c, n |-> n, kind |-> r[c].out[n]] \in Items(r)
    <3>1. n \in 1 .. Len(r[c].out) /\ n \in Nat /\ n <= r[c].sent /\ c \in Nat
      BY <1>1, <2>1, <2>2
    <3>2. r[c].out[n] \in Kinds
      <4>1. r[c].out[n] \in {"part", "line", "latin1"}
        BY <2>1, <3>1, ElementOfSeq
      <4> QED
        BY <4>1 DEF Kinds
    <3> HIDE DEF s
    <3> QED
      BY <3>1, <3>2 DEF Items, AnyItem
  <2>4. f \in Seq(Items(r)) /\ Len(f) = s
    BY <2>1, <2>3, IsASeq
  <2>5. s = 0 => f = <<>>
    BY <2>4, EmptySeq
  <2>6. ListsOf(r, k)[c] = IF r[c].to = k THEN f ELSE <<>>
    BY DEF ListsOf
  <2> HIDE DEF f
  <2>7. <<>> \in Seq(Items(r))
    BY EmptySeq
  <2> QED
    BY <2>4, <2>5, <2>6, <2>7
<1>3. ListsOf(r, k) = [c \in 1 .. Len(r) |-> ListsOf(r, k)[c]]
  BY DEF ListsOf
<1>4. ListsOf(r, k) \in Seq(Seq(Items(r))) /\ Len(ListsOf(r, k)) = Len(r)
  <2> DEFINE f == ListsOf(r, k)
  <2> HIDE DEF f
  <2>1. f = [c \in 1 .. Len(r) |-> f[c]] /\ \A c \in 1 .. Len(r) : f[c] \in Seq(Items(r))
    BY <1>2, <1>3 DEF f
  <2>2. [c \in 1 .. Len(r) |-> f[c]] \in Seq(Seq(Items(r)))
    BY <1>1, <2>1, IsASeq
  <2>3. DOMAIN f = 1 .. Len(r)
    BY <2>1
  <2>4. f \in Seq(Seq(Items(r))) /\ Len(f) = Len(r)
    BY <1>1, <2>1, <2>2, <2>3, LenProperties
  <2> QED
    BY <2>4 DEF f
<1> QED
  BY <1>2, <1>4

\* Calls of which the results may differ.
AsFar(r, s) ==
  /\ Len(s) = Len(r)
  /\ \A c \in 1 .. Len(r) : s[c].to = r[c].to /\ s[c].sent = r[c].sent /\ s[c].out = r[c].out

LEMMA ListsSame ==
  ASSUME NEW r, NEW s, AsFar(r, s), NEW k
  PROVE  ListsOf(s, k) = ListsOf(r, k) /\ CommandsOf(s, k) = CommandsOf(r, k) /\ Items(s) = Items(r)
BY DEF AsFar, ListsOf, CommandsOf, Items

LEMMA UnwrittenIs ==
  ASSUME NEW S, NEW t \in TeeOf(S)
  PROVE  /\ Unwritten(t) \in Seq(S) /\ t.buf \o t.pipe \in Seq(S)
         /\ t.at # "log" => Unwritten(t) = t.buf \o t.pipe
         /\ t.at = "log" => Unwritten(t) = t.line \o (t.buf \o t.pipe)
<1> DEFINE l == t.line
           b == t.buf
           p == t.pipe
<1>1. l \in Seq(S) /\ b \in Seq(S) /\ p \in Seq(S)
  BY DEF TeeOf
<1>2. Unwritten(t) = ((IF t.at = "log" THEN l ELSE <<>>) \o b) \o p
  BY DEF Unwritten
<1> HIDE DEF l, b, p
<1>3. b \o p \in Seq(S) /\ l \o (b \o p) \in Seq(S)
  <2>1. b \o p \in Seq(S)
    BY <1>1, ConcatProperties
  <2> QED
    BY <1>1, <2>1, ConcatProperties
<1>4. <<>> \o b = b
  BY <1>1, ConcatEmptySeq
<1>5. (l \o b) \o p = l \o (b \o p)
  <2>1. Associates(l, b, p)
    BY <1>1, Associative
  <2> QED
    BY <2>1 DEF Associates
<1> QED
  BY <1>2, <1>3, <1>4, <1>5 DEF l, b, p

\* The pieces of a tee are those of its commands, and of no others'.
LEMMA OwnPrinted ==
  ASSUME NEW r, NEW k, NEW q \in Seq(Own(r, k))
  PROVE  /\ PrintedBy(CommandsOf(r, k), q) = q
         /\ \A j : j # k => PrintedBy(CommandsOf(r, j), q) = <<>>
<1>1. \A x \in Own(r, k) : Ours(CommandsOf(r, k), x)
  BY DEF Own
<1>2. PrintedBy(CommandsOf(r, k), q) = q
  BY <1>1, PrintedAll
<1>3. ASSUME NEW j, j # k PROVE PrintedBy(CommandsOf(r, j), q) = <<>>
  <2>1. \A i \in 1 .. Len(q) : q[i] \in Own(r, k)
    BY ElementOfSeq
  <2>2. \A x \in Own(r, k) : ~Ours(CommandsOf(r, j), x)
    BY <1>3 DEF Own, Ours, CommandsOf
  <2>3. \A i \in 1 .. Len(q) : ~Ours(CommandsOf(r, j), q[i])
    BY <2>1, <2>2
  <2> QED
    BY <2>3, PrintedNone
<1> QED
  BY <1>2, <1>3

AllIn == \A k \in 1 .. Len(tees) : AllThere(ran, log, tees[k], k)

LEMMA RunLoses ==
  ASSUME TypeInv, AllIn, NEW out \in Outputs, NEW teeout \in BOOLEAN, Run(out, teeout)
  PROVE  AllIn'
<1> SUFFICES ASSUME NEW k \in 1 .. Len(tees') PROVE AllThere(ran', log', tees'[k], k)
  BY DEF AllIn
<1> DEFINE n == Len(ran)
           A == FlattenSeq(ListsOf(ran, k))
           B == PrintedBy(CommandsOf(ran, k), log)
<1>1. /\ CallsOK(ran) /\ CallsOK(ran') /\ Grows(ran, ran') /\ Len(ran') = n + 1 /\ n \in Nat
      /\ \A c \in 1 .. n : ran'[c] = ran[c]
      /\ ran'[n + 1].sent = 0 /\ Len(tees) \in Nat /\ log \in Seq(Items(ran))
  <2>1. CallsOK(ran) /\ ran \in Seq(Call) /\ tees \in Seq(TeeOf(Items(ran))) /\ log \in Seq(Items(ran))
    BY DEF TypeInv, TypeOK, CallsOK
  <2> QED
    BY <2>1, RunIs, LenProperties
<1>2. log' = Append(log, Header(n + 1)) /\ Header(n + 1).n = 0
  BY DEF Run, last, Header
<1>3. FlattenSeq(ListsOf(ran', k)) = A
  <2> DEFINE l == ListsOf(ran, k)
             m == ListsOf(ran', k)
             S == Items(ran')
  <2>1. l \in Seq(Seq(Items(ran))) /\ Seq(Seq(Items(ran))) \subseteq Seq(Seq(S)) /\ Len(l) = n
    BY <1>1, ListsIs, GrowsIs
  <2>2. m \in Seq(Seq(S)) /\ Len(m) = n + 1 /\ m[n + 1] = <<>>
    BY <1>1, ListsIs
  <2>3. ASSUME NEW c \in 1 .. n PROVE m[c] = l[c]
    <3>1. c \in 1 .. Len(ran') /\ ran'[c] = ran[c]
      BY <1>1
    <3> QED
      BY <3>1 DEF ListsOf
  <2> HIDE DEF l, m, S
  <2>4. FlattenSeq(m) = FlattenSeq(l) \o m[Len(m)]
    BY <2>1, <2>2, <2>3, FlattenMore
  <2>5. FlattenSeq(l) \o <<>> = FlattenSeq(l)
    BY <2>1, FlattenType, ConcatEmptySeq
  <2> QED
    BY <2>2, <2>4, <2>5 DEF l, m
<1>4. PrintedBy(CommandsOf(ran', k), log') = B
  <2>1. PrintedBy(CommandsOf(ran', k), log) = B /\ log \in Seq(Items(ran'))
    BY <1>1, GrowsIs
  <2> DEFINE S == Items(ran') \cup {Header(n + 1)}
  <2>2. log \in Seq(S) /\ Header(n + 1) \in S
    BY <2>1, SeqSubset
  <2>3. ~Ours(CommandsOf(ran', k), Header(n + 1))
    BY <1>2 DEF Ours
  <2> HIDE DEF S
  <2>4. PrintedBy(CommandsOf(ran', k), Append(log, Header(n + 1))) = PrintedBy(CommandsOf(ran', k), log)
    <3> DEFINE h == Header(n + 1)
               cs == CommandsOf(ran', k)
    <3>1. log \in Seq(S) /\ h \in S /\ ~Ours(cs, h)
      BY <2>2, <2>3
    <3> HIDE DEF h, cs
    <3>2. PrintedBy(cs, Append(log, h)) = IF Ours(cs, h) THEN PrintedBy(cs, log) \o <<h>> ELSE PrintedBy(cs, log)
      BY <3>1, PrintedAppend, ZenonT(30)
    <3> QED
      BY <3>1, <3>2 DEF h, cs
  <2> QED
    BY <1>2, <2>1, <2>4
<1>5. CASE k \in 1 .. Len(tees)
  <2>1. tees'[k] = tees[k]
    BY <1>5, RunIs
  <2>2. B \o Unwritten(tees[k]) = A
    BY <1>5 DEF AllIn, AllThere
  <2> QED
    BY <1>3, <1>4, <2>1, <2>2 DEF AllThere
<1>6. CASE k \notin 1 .. Len(tees)
  <2>1. PICK w \in Nat : tees'[k] = Tee(runtee', w)
    BY <1>6, RunIs
  <2>2. Unwritten(tees'[k]) = <<>>
    <3>1. <<>> \in Seq({}) /\ <<>> \o <<>> = <<>>
      BY EmptySeq, ConcatEmptySeq
    <3> QED
      BY <2>1, <3>1 DEF Tee, Unwritten
  <2>3. \A c \in 1 .. n : ran[c].to # k
    BY <1>6 DEF TypeInv, TypeOK
  <2>4. A = <<>>
    <3> DEFINE l == ListsOf(ran, k)
    <3>1. l \in Seq(Seq(Items(ran))) /\ \A c \in 1 .. Len(l) : l[c] = <<>>
      BY <1>1, <2>3, ListsIs
    <3> HIDE DEF l
    <3> QED
      BY <3>1, FlattenEmpty DEF l
  <2>5. B = <<>>
    <3>1. \A i \in 1 .. Len(log) : ~Ours(CommandsOf(ran, k), log[i])
      <4>1. \A i : ~(i \in CommandsOf(ran, k))
        BY <2>3 DEF CommandsOf
      <4> QED
        BY <4>1 DEF Ours
    <3> QED
      BY <1>1, <3>1, PrintedNone
  <2>6. <<>> \o <<>> = <<>>
    OBVIOUS
  <2> QED
    BY <1>3, <1>4, <2>2, <2>4, <2>5, <2>6 DEF AllThere
<1> QED
  BY <1>5, <1>6

LEMMA PrintLoses ==
  ASSUME TypeInv, AllIn, Print1
  PROVE  AllIn'
<1>a. PICK n \in 1 .. Len(ran), to \in 1 .. Len(tees) : \E p \in Own(ran', to) : Printing(n, to, p)
  BY PrintIs
<1>b. PICK p \in Own(ran', to) : Printing(n, to, p)
  BY <1>a
<1>1. /\ n \in 1 .. Len(ran) /\ to \in 1 .. Len(tees)
      /\ n = Len(ran) /\ to = ran[n].to /\ Len(ran') = n /\ ran[n].sent \in Nat
      /\ CallsOK(ran') /\ Grows(ran, ran')
      /\ \A c \in 1 .. n : ran'[c].to = ran[c].to /\ ran'[c].out = ran[c].out
      /\ \A c \in 1 .. n : c # n => ran'[c] = ran[c]
      /\ ran'[n].sent = ran[n].sent + 1
  BY <1>a, <1>b DEF Printing
<1>2. /\ p \in Own(ran', to)
      /\ p = Piece(n, ran[n].sent + 1)
      /\ tees' = [tees EXCEPT ![to] = [tees[to] EXCEPT !.pipe = Append(tees[to].pipe, p)]]
  BY <1>b DEF Printing
<1> DEFINE S == Items(ran')
           y == <<p>>
<1>3. CallsOK(ran) /\ log' = log /\ log \in Seq(Items(ran)) /\ tees \in Seq(TeeOf(Items(ran)))
      /\ p \in S /\ y \in Seq(S)
  <2>1. p \in S
    BY <1>2, OwnIs
  <2> QED
    BY <2>1 DEF Print1, TypeInv, TypeOK
<1> HIDE DEF y
<1>4. \A k : PrintedBy(CommandsOf(ran', k), log) = PrintedBy(CommandsOf(ran, k), log)
             /\ PrintedBy(CommandsOf(ran', k), log) \in Seq(S)
  <2>1. log \in Seq(S)
    BY <1>1, <1>3, GrowsIs
  <2> QED
    <3>1. \A k : PrintedBy(CommandsOf(ran', k), log) = PrintedBy(CommandsOf(ran, k), log)
      BY <1>1, <1>3, GrowsIs
    <3>2. \A k : PrintedBy(CommandsOf(ran', k), log) \in Seq(S)
      BY <2>1, KeptIs
    <3> QED
      BY <3>1, <3>2
<1>5. DOMAIN tees = 1 .. Len(tees) /\ Len(tees') = Len(tees)
      /\ tees'[to] = [tees[to] EXCEPT !.pipe = Append(tees[to].pipe, p)]
      /\ \A k \in 1 .. Len(tees) : k # to => tees'[k] = tees[k]
  <2>1. DOMAIN tees = 1 .. Len(tees)
    BY <1>3, LenProperties
  <2>2. [tees[to] EXCEPT !.pipe = Append(tees[to].pipe, p)] \in TeeOf(S)
    <3> DEFINE q == Append(tees[to].pipe, p)
               x == [tees[to] EXCEPT !.pipe = q]
    <3>1. tees[to] \in TeeOf(S)
      BY <1>1, <1>3, GrowsIs, ElementOfSeq
    <3>2. q \in Seq(S)
      BY <1>3, <3>1, AppendProperties DEF TeeOf
    <3> HIDE DEF q
    <3>3. x \in TeeOf(S)
      BY <3>1, <3>2 DEF TeeOf
    <3> QED
      BY <3>3 DEF q
  <2>3. tees \in Seq(TeeOf(S))
    BY <1>1, <1>3, GrowsIs
  <2> QED
    BY <1>2, <2>1, <2>2, <2>3, ExceptSeq
<1> SUFFICES ASSUME NEW k \in 1 .. Len(tees) PROVE AllThere(ran', log', tees'[k], k)
  BY <1>5 DEF AllIn
<1> DEFINE A == FlattenSeq(ListsOf(ran, k))
           B == PrintedBy(CommandsOf(ran, k), log)
           U == Unwritten(tees[k])
           l == ListsOf(ran, k)
           m == ListsOf(ran', k)
<1>6. l \in Seq(Seq(S)) /\ m \in Seq(Seq(S)) /\ Len(l) = n /\ Len(m) = n
  BY <1>1, <1>3, ListsIs, GrowsIs
<1>7. B \o U = A
  BY DEF AllIn, AllThere
<1>8. CASE k = to
  <2>1. \A c \in 1 .. n : c # n => m[c] = l[c]
    BY <1>1 DEF ListsOf
  <2>2. m[n] = l[n] \o y
    <3> DEFINE s == ran[n].sent
               f == [i \in 1 .. s |-> [of |-> n, n |-> i, kind |-> ran[n].out[i]]]
               g == [i \in 1 .. s + 1 |-> [of |-> n, n |-> i, kind |-> ran[n].out[i]]]
    <3>1. l[n] = f /\ m[n] = g
      BY <1>1, <1>8 DEF ListsOf
    <3>2. p = [of |-> n, n |-> s + 1, kind |-> ran[n].out[s + 1]]
      BY <1>2 DEF Piece
    <3>3. s \in Nat
      BY <1>1
    <3>4. f \in Seq(S) /\ g \in Seq(S) /\ Len(f) = s /\ Len(g) = s + 1
      <4>1. l[n] \in Seq(S) /\ m[n] \in Seq(S)
        BY <1>1, <1>6, ElementOfSeq
      <4>2. DOMAIN f = 1 .. s /\ DOMAIN g = 1 .. s + 1
        OBVIOUS
      <4> HIDE DEF f, g
      <4> QED
        BY <3>1, <3>3, <4>1, <4>2, LenProperties
    <3>5. /\ \A i \in 1 .. s : g[i] = f[i]
          /\ g[s + 1] = p
      BY <3>2, <3>3
    <3> HIDE DEF f, g, s
    <3>6. /\ Append(f, p) \in Seq(S) /\ Len(Append(f, p)) = s + 1
          /\ \A i \in 1 .. s : Append(f, p)[i] = f[i]
          /\ Append(f, p)[s + 1] = p
      BY <1>3, <3>4, AppendProperties
    <3>7. \A i \in 1 .. s + 1 : Append(f, p)[i] = g[i]
      BY <3>3, <3>5, <3>6
    <3>8. g = Append(f, p)
      BY <3>4, <3>6, <3>7, SeqEqual
    <3>9. Append(f, p) = f \o <<p>>
      BY <1>3, <3>4, AppendIsConcat
    <3> QED
      BY <3>1, <3>8, <3>9 DEF y
  <2> HIDE DEF l, m, S
  <2>3. Longer(l, m, y)
    <3>1. l # <<>>
      BY <1>1, <1>6, EmptySeq
    <3>2. \A i \in 1 .. n - 1 : i \in 1 .. n /\ i # n
      OBVIOUS
    <3> QED
      BY <1>6, <2>1, <2>2, <3>1, <3>2 DEF Longer
  <2>4. FlattenSeq(m) = FlattenSeq(l) \o y
    BY <1>3, <1>6, <2>3, FlattenLonger
  <2>5. Unwritten(tees'[k]) = U \o y
    <3> DEFINE t == tees[to]
               q == Append(t.pipe, p)
               x == [t EXCEPT !.pipe = q]
               a == (IF t.at = "log" THEN t.line ELSE <<>>) \o t.buf
               b == t.pipe
    <3>1. t \in TeeOf(S)
      BY <1>1, <1>3, GrowsIs, ElementOfSeq DEF S
    <3>2. t.line \in Seq(S) /\ t.buf \in Seq(S) /\ b \in Seq(S) /\ <<>> \in Seq(S)
      BY <3>1, EmptySeq DEF TeeOf
    <3>3. a \in Seq(S)
      BY <3>2, ConcatProperties
    <3>4. q = b \o y
      BY <1>3, <3>2, AppendIsConcat DEF y
    <3> HIDE DEF q
    <3>5. x.pipe = q /\ x.at = t.at /\ x.line = t.line /\ x.buf = t.buf
      BY <3>1 DEF TeeOf
    <3> HIDE DEF x
    <3>6. Unwritten(x) = a \o q /\ Unwritten(t) = a \o b
      BY <3>5 DEF Unwritten
    <3> HIDE DEF a, b
    <3>7. a \o (b \o y) = (a \o b) \o y
      <4>1. a \in Seq(S) /\ b \in Seq(S) /\ y \in Seq(S)
        BY <1>3, <3>2, <3>3
      <4>9. Associates(a, b, y)
        BY <4>1, Associative
      <4> QED
        BY <4>9 DEF Associates
    <3>8. tees'[k] = x
      BY <1>5, <1>8 DEF x, q
    <3> QED
      BY <1>8, <3>4, <3>6, <3>7, <3>8
  <2>6. (B \o U) \o y = B \o (U \o y)
    <3>1. B \in Seq(S)
      BY <1>4
    <3>2. U \in Seq(S)
      <4>1. tees[k] \in TeeOf(S)
        BY <1>1, <1>3, GrowsIs, ElementOfSeq DEF S
      <4> QED
        BY <4>1, UnwrittenIs
    <3> HIDE DEF B, U
    <3>9. Associates(B, U, y)
      BY <1>3, <3>1, <3>2, Associative
    <3> QED
      BY <3>9 DEF Associates
  <2> QED
    BY <1>3, <1>4, <1>7, <2>4, <2>5, <2>6 DEF AllThere, l, m
<1>9. CASE k # to
  <2>1. m = l
    BY <1>1, <1>9 DEF ListsOf
  <2> QED
    BY <1>3, <1>4, <1>5, <1>7, <1>9, <2>1 DEF AllThere
<1> QED
  BY <1>8, <1>9

LEMMA MainLoses ==
  ASSUME TypeInv, AllIn,
         GetValue \/ Swap \/ (\E exits \in BOOLEAN : Return(exits))
           \/ (\E e \in BOOLEAN : NotFound(e)) \/ Copy \/ Back \/ UNCHANGED vars
  PROVE  AllIn'
<1> DEFINE n == Len(ran)
           S == Items(ran)
<1>1. CallsOK(ran) /\ log \in Seq(S)
  BY DEF TypeInv, TypeOK
<1>2. ASSUME GetValue \/ \E exits \in BOOLEAN : Return(exits)
      PROVE  AllIn'
  <2>1. /\ tees' = tees /\ Len(ran') = n
        /\ \A c \in 1 .. n : ran'[c].to = ran[c].to /\ ran'[c].sent = ran[c].sent /\ ran'[c].out = ran[c].out
    BY <1>2, GetValueIs, ReturnIs
  <2>2. log' = log \/ \E b \in S : b.n = 0 /\ log' = Append(log, b)
    <3>1. ASSUME NEW exits \in BOOLEAN, Return(exits)
          PROVE  Blank(n) \in S /\ Blank(n).n = 0 /\ log' = Append(log, Blank(n))
      <4>1. Blank(n) \in S /\ log' = Append(log, Blank(n))
        BY <3>1, ReturnIs
      <4>2. Blank(n).n = 0
        BY DEF Blank
      <4> QED
        BY <4>1, <4>2
    <3>2. GetValue => log' = log
      BY DEF GetValue
    <3> QED
      BY <1>2, <3>1, <3>2
  <2>3. \A k : PrintedBy(CommandsOf(ran, k), log') = PrintedBy(CommandsOf(ran, k), log)
    <3> SUFFICES ASSUME NEW b \in S, b.n = 0, log' = Append(log, b), NEW k
                 PROVE  PrintedBy(CommandsOf(ran, k), Append(log, b)) = PrintedBy(CommandsOf(ran, k), log)
      BY <2>2
    <3>1. ~Ours(CommandsOf(ran, k), b)
      BY DEF Ours
    <3> HIDE DEF S
    <3> QED
      BY <1>1, <3>1, PrintedAppend
  <2>4. AsFar(ran, ran')
    BY <2>1 DEF AsFar
  <2>5. \A k : ListsOf(ran', k) = ListsOf(ran, k) /\ CommandsOf(ran', k) = CommandsOf(ran, k)
    BY <2>4, ListsSame
  <2> QED
    BY <2>1, <2>3, <2>5 DEF AllIn, AllThere
<1>3. CASE Swap
  <2>1. /\ Len(tees') = Len(tees) /\ ran' = ran /\ log' = log
        /\ \A k \in 1 .. Len(tees) : /\ tees'[k].at = tees[k].at /\ tees'[k].line = tees[k].line
                                     /\ tees'[k].buf = tees[k].buf /\ tees'[k].pipe = tees[k].pipe
    BY <1>3, SwapIs
  <2>2. \A k \in 1 .. Len(tees) : Unwritten(tees'[k]) = Unwritten(tees[k])
    BY <2>1 DEF Unwritten
  <2> QED
    BY <2>1, <2>2 DEF AllIn, AllThere
<1>4. ASSUME (\E e \in BOOLEAN : NotFound(e)) \/ Copy \/ Back \/ UNCHANGED vars
      PROVE  AllIn'
  <2>1. UNCHANGED <<ran, tees, log>>
    BY <1>4, StillIs
  <2> QED
    BY <2>1 DEF AllIn, AllThere
<1> QED
  BY <1>2, <1>3, <1>4

LEMMA TeeLoses ==
  ASSUME TypeInv, AllIn, NEW k \in 1 .. Len(tees), Flusher(k)
  PROVE  AllIn'
<1> DEFINE S == Items(ran)
           t == tees[k]
           bp == t.buf \o t.pipe
           Wrote(j) == PrintedBy(CommandsOf(ran, j), log)
<1>1. /\ t \in TeeOf(Own(ran, k)) /\ Unwritten(t) \in Seq(S) /\ bp \in Seq(S) /\ t.line \in Seq(Own(ran, k))
      /\ t.line \in Seq(S) /\ log \in Seq(S)
      /\ (t.at # "log" => Unwritten(t) = bp) /\ (t.at = "log" => Unwritten(t) = t.line \o bp)
  <2>1. t \in TeeOf(Own(ran, k)) /\ log \in Seq(S)
    BY DEF TypeInv, TypeOK
  <2>2. t \in TeeOf(S)
    BY <2>1, OwnIs
  <2> QED
    BY <2>1, <2>2, UnwrittenIs DEF TeeOf
<1>2. \A j \in 1 .. Len(tees) : Wrote(j) \o Unwritten(tees[j]) = FlattenSeq(ListsOf(ran, j))
  BY DEF AllIn, AllThere
<1>3. CASE Poll(k) \/ WriteString(k)
  <2>1. /\ Len(tees') = Len(tees) /\ ran' = ran /\ log' = log /\ t.at # "log"
        /\ \A j \in 1 .. Len(tees) : j # k => tees'[j] = tees[j]
        /\ Unwritten(tees'[k]) = bp
    BY <1>3, PollIs, WriteStringIs
  <2>2. \A j \in 1 .. Len(tees) : Unwritten(tees'[j]) = Unwritten(tees[j])
    BY <1>1, <2>1
  <2> QED
    BY <1>2, <2>1, <2>2 DEF AllIn, AllThere
<1>4. CASE WriteLog(k)
  <2>1. /\ TypeInv' /\ Len(tees') = Len(tees) /\ ran' = ran /\ log' = log \o t.line /\ t.at = "log"
        /\ \A j \in 1 .. Len(tees) : j # k => tees'[j] = tees[j]
        /\ tees'[k].at = "string" /\ tees'[k].buf = t.buf /\ tees'[k].pipe = t.pipe
    BY <1>4, WriteLogIs
  <2>2. Unwritten(tees'[k]) = bp
    <3>1. tees'[k] \in TeeOf(Own(ran', k))
      BY <2>1 DEF TypeInv, TypeOK
    <3>2. tees'[k].at # "log" => Unwritten(tees'[k]) = tees'[k].buf \o tees'[k].pipe
      BY <3>1, UnwrittenIs
    <3> QED
      BY <2>1, <3>2
  <2> SUFFICES ASSUME NEW j \in 1 .. Len(tees)
               PROVE  PrintedBy(CommandsOf(ran, j), log \o t.line) \o Unwritten(tees'[j]) = FlattenSeq(ListsOf(ran, j))
    BY <2>1 DEF AllIn, AllThere
  <2>3. /\ PrintedBy(CommandsOf(ran, j), log \o t.line) = Wrote(j) \o PrintedBy(CommandsOf(ran, j), t.line)
        /\ Wrote(j) \in Seq(S)
    <3> HIDE DEF S, t
    <3>1. PrintedBy(CommandsOf(ran, j), log \o t.line) = PrintedBy(CommandsOf(ran, j), log) \o PrintedBy(CommandsOf(ran, j), t.line)
      BY <1>1, PrintedConcat, SMTT(30)
    <3>2. PrintedBy(CommandsOf(ran, j), log) \in Seq(S)
      BY <1>1, KeptIs
    <3> QED
      BY <3>1, <3>2
  <2>4. PrintedBy(CommandsOf(ran, j), t.line) = IF j = k THEN t.line ELSE <<>>
    BY <1>1, OwnPrinted
  <2>5. CASE j = k
    <3> DEFINE a == Wrote(j)
               l == t.line
    <3>1. a \in Seq(S) /\ l \in Seq(S) /\ bp \in Seq(S)
      BY <1>1, <2>3
    <3> HIDE DEF a, l, bp, S
    <3>2. (a \o l) \o bp = a \o (l \o bp)
      <4>1. Associates(a, l, bp)
        BY <3>1, Associative
      <4> QED
        BY <4>1 DEF Associates
    <3> QED
      BY <1>1, <1>2, <2>1, <2>2, <2>3, <2>4, <2>5, <3>2 DEF a, l
  <2>6. CASE j # k
    <3>1. Wrote(j) \o <<>> = Wrote(j)
      <4> DEFINE a == Wrote(j)
      <4>1. a \in Seq(S)
        BY <2>3
      <4> HIDE DEF a
      <4>2. a \o <<>> = a
        BY <4>1, ConcatEmptySeq
      <4> QED
        BY <4>2 DEF a
    <3> QED
      BY <1>2, <2>1, <2>3, <2>4, <2>6, <3>1
  <2> QED
    BY <2>5, <2>6
<1> QED
  BY <1>3, <1>4 DEF Flusher

\* The type invariant, the calls and the tees: tees end in tees with a string, the
\* running command takes its output from the context's tee.
THEOREM RunTypes == Spec => []TypeInv
<1>1. Init => TypeInv
  BY InitType
<1>2. TypeInv /\ [Next]_vars => TypeInv'
  BY StepType
<1> QED
  BY <1>1, <1>2, PTL DEF Spec

\* _Tee._flusher(): what a command printed is in the run log or in the tee, in the order
\* it was printed, nothing twice and nothing lost.
THEOREM OutputInLog == Spec => []NothingLost
<1>1. Init => AllIn
  <2> SUFFICES ASSUME Init PROVE AllIn
    OBVIOUS
  <2>1. Len(tees) = 0
    BY DEF Init
  <2> QED
    BY <2>1 DEF AllIn
<1>2. TypeInv /\ AllIn /\ [Next]_vars => AllIn'
  <2> SUFFICES ASSUME TypeInv, AllIn, [Next]_vars PROVE AllIn'
    OBVIOUS
  <2>1. ASSUME NEW out \in Outputs, NEW teeout \in BOOLEAN, Run(out, teeout) PROVE AllIn'
    BY <2>1, RunLoses
  <2>2. CASE Print1
    BY <2>2, PrintLoses
  <2>3. CASE \/ GetValue \/ Swap \/ (\E exits \in BOOLEAN : Return(exits))
             \/ (\E e \in BOOLEAN : NotFound(e)) \/ Copy \/ Back \/ UNCHANGED vars
    BY <2>3, MainLoses
  <2>4. ASSUME NEW k \in DOMAIN tees, Flusher(k) PROVE AllIn'
    <3>1. k \in 1 .. Len(tees)
      BY <2>4, LenProperties DEF TypeInv, TypeOK
    <3> QED
      BY <2>4, <3>1, TeeLoses
  <2> QED
    BY <2>1, <2>2, <2>3, <2>4 DEF Next, Calls, Main, Scopes, Tees
<1>3. TypeInv => (AllIn <=> NothingLost)
  BY NothingLostIs DEF AllIn
<1> QED
  BY RunTypes, <1>1, <1>2, <1>3, PTL DEF Spec

\* The strings ------------------------------------------------------------------------------------

\* Where the lines of tee k go.
W(k) == tees[tees[k].into].writer1

\* Another tee's string is another string, has none of k's output and gets none.
Apart ==
  \A k, j \in 1 .. Len(tees) : tees[j].into = j /\ j # tees[k].into =>
    /\ tees[j].writer1 # W(k)
    /\ PrintedBy(CommandsOf(ran, k), strings[tees[j].writer1]) = <<>>
    /\ tees[k].at = "string" => tees[k].held # tees[j].writer1

LEMMA BaseIs ==
  ASSUME TypeInv, NEW k \in 1 .. Len(tees)
  PROVE  /\ tees[k].into \in 1 .. Len(tees) /\ tees[tees[k].into].into = tees[k].into
         /\ W(k) \in 1 .. Len(strings) /\ strings[W(k)] \in Seq(Items(ran))
         /\ (tees[k].into = k => tees[k].writer1 \in 1 .. Len(strings)
                                 /\ strings[tees[k].writer1] \in Seq(Items(ran)))
         /\ (tees[k].at = "string" => tees[k].held \in 1 .. Len(strings))
<1>1. /\ tees[k].into \in 1 .. Len(tees) /\ tees[tees[k].into].into = tees[k].into
      /\ W(k) \in 1 .. Len(strings)
      /\ (tees[k].into = k => tees[k].writer1 \in 1 .. Len(strings))
      /\ (tees[k].at = "string" => tees[k].held \in 1 .. Len(strings))
  BY DEF TypeInv, TeesOK, Base, W
<1>2. \A i \in 1 .. Len(strings) : strings[i] \in Seq(Items(ran))
  BY ElementOfSeq DEF TypeInv, TypeOK
<1> QED
  BY <1>1, <1>2

LEMMA RunApart ==
  ASSUME TypeInv, Apart, NEW out \in Outputs, NEW teeout \in BOOLEAN, Run(out, teeout)
  PROVE  Apart'
<1> DEFINE m == Len(tees)
           n == Len(strings)
<1>1. /\ CallsOK(ran) /\ CallsOK(ran') /\ Grows(ran, ran') /\ m \in Nat /\ n \in Nat
  <2>1. CallsOK(ran) /\ tees \in Seq(TeeOf(Items(ran))) /\ strings \in Seq(Seq(Items(ran)))
    BY DEF TypeInv, TypeOK
  <2> QED
    BY <2>1, RunIs, LenProperties
<1>2. /\ m <= Len(tees') /\ \A k \in 1 .. m : tees'[k] = tees[k]
      /\ runtee' \in 1 .. Len(tees') /\ tees'[runtee'].into = runtee'
      /\ (runtee # 0 => runtee' = runtee) /\ (runtee = 0 => runtee' \notin 1 .. m)
      /\ tees'[runtee'].writer1 \in 1 .. Len(strings')
  BY RunIs
<1>3. \A k \in 1 .. Len(tees') : k \notin 1 .. m =>
        tees'[k].into = runtee' /\ tees'[k].at = "poll" /\ (k = runtee' => tees'[k].writer1 = n + 1)
  <2> SUFFICES ASSUME NEW k \in 1 .. Len(tees'), k \notin 1 .. m
               PROVE  tees'[k].into = runtee' /\ tees'[k].at = "poll" /\ (k = runtee' => tees'[k].writer1 = n + 1)
    OBVIOUS
  <2>1. PICK w \in Nat : tees'[k] = Tee(runtee', w) /\ (k = runtee' => w = n + 1)
    BY RunIs
  <2> QED
    BY <2>1 DEF Tee
<1>4. /\ strings' \in Seq(Seq(Items(ran))) /\ n <= Len(strings') /\ (runtee = 0 => Len(strings') = n + 1)
      /\ \A i \in 1 .. n : strings'[i] = strings[i]
      /\ \A i \in 1 .. Len(strings') : i \notin 1 .. n => strings'[i] = <<>>
  BY RunIs
<1>5. runtee # 0 => runtee \in 1 .. m /\ tees[runtee].into = runtee
  BY DEF TypeInv, TeesOK, Base
<1>6. \A k, i : i \in 1 .. Len(strings') => PrintedBy(CommandsOf(ran', k), strings'[i]) = PrintedBy(CommandsOf(ran, k), strings'[i])
  <2>1. \A i \in 1 .. Len(strings') : strings'[i] \in Seq(Items(ran))
    BY <1>4, ElementOfSeq
  <2> QED
    BY <1>1, <2>1, GrowsIs
<1>7. \A k : k \notin 1 .. m => \A i \in 1 .. Len(strings') : PrintedBy(CommandsOf(ran, k), strings'[i]) = <<>>
  <2> SUFFICES ASSUME NEW k, k \notin 1 .. m, NEW i \in 1 .. Len(strings')
               PROVE  PrintedBy(CommandsOf(ran, k), strings'[i]) = <<>>
    OBVIOUS
  <2>1. strings'[i] \in Seq(Items(ran))
    BY <1>4, ElementOfSeq
  <2>2. \A x : ~Ours(CommandsOf(ran, k), x)
    BY DEF TypeInv, TypeOK, CommandsOf, Ours
  <2> QED
    BY <2>1, <2>2, PrintedNone
<1>8. \A k \in 1 .. m : /\ tees[k].into \in 1 .. m /\ tees[tees[k].into].into = tees[k].into
                        /\ W(k) \in 1 .. n /\ (tees[k].into = k => tees[k].writer1 \in 1 .. n)
                        /\ (tees[k].at = "string" => tees[k].held \in 1 .. n)
  BY BaseIs
<1> SUFFICES ASSUME NEW k \in 1 .. Len(tees'), NEW j \in 1 .. Len(tees'),
                    tees'[j].into = j, j # tees'[k].into
             PROVE  /\ tees'[j].writer1 # tees'[tees'[k].into].writer1
                    /\ PrintedBy(CommandsOf(ran', k), strings'[tees'[j].writer1]) = <<>>
                    /\ tees'[k].at = "string" => tees'[k].held # tees'[j].writer1
  BY DEF Apart, W
<1> HIDE DEF m, n
<1>9. CASE k \in 1 .. m /\ j \in 1 .. m
  <2>1. tees'[k] = tees[k] /\ tees'[j] = tees[j] /\ tees'[tees[k].into] = tees[tees[k].into]
    BY <1>2, <1>8, <1>9
  <2>2. /\ tees[j].writer1 # W(k)
        /\ PrintedBy(CommandsOf(ran, k), strings[tees[j].writer1]) = <<>>
        /\ tees[k].at = "string" => tees[k].held # tees[j].writer1
    BY <1>9, <2>1 DEF Apart, m
  <2>3. tees[j].writer1 \in 1 .. n /\ tees[j].writer1 \in 1 .. Len(strings')
    <3>1. tees[j].writer1 \in 1 .. n
      BY <1>8, <1>9, <2>1
    <3>2. Len(strings') \in Nat
      BY <1>4, LenProperties
    <3> QED
      BY <1>1, <1>4, <3>1, <3>2
  <2> DEFINE w == tees[j].writer1
  <2>4. tees'[j].writer1 = w /\ tees'[tees'[k].into].writer1 = W(k) /\ strings'[w] = strings[w]
    BY <1>4, <2>1, <2>3 DEF W
  <2>5. PrintedBy(CommandsOf(ran', k), strings'[w]) = PrintedBy(CommandsOf(ran, k), strings[w])
    BY <1>6, <2>3, <2>4
  <2> QED
    BY <2>1, <2>2, <2>4, <2>5
<1>10. CASE k \in 1 .. m /\ j \notin 1 .. m
  <2>1. tees'[k] = tees[k] /\ tees'[tees[k].into] = tees[tees[k].into]
    BY <1>2, <1>8, <1>10
  <2>2. j = runtee' /\ tees'[j].writer1 = n + 1
    BY <1>3, <1>10
  <2>3. n + 1 \in 1 .. Len(strings') /\ n + 1 \notin 1 .. n
    BY <1>1, <1>2, <2>2
  <2>4. PrintedBy(CommandsOf(ran', k), strings'[n + 1]) = <<>>
    BY <1>4, <2>3, PrintedNothing
  <2> QED
    BY <1>8, <1>10, <2>1, <2>2, <2>3, <2>4 DEF W
<1>11. CASE k \notin 1 .. m
  <2>1. tees'[k].into = runtee' /\ tees'[k].at = "poll"
    BY <1>3, <1>11
  <2>2. j \in 1 .. m
    BY <1>3, <2>1
  <2>3. tees'[j] = tees[j] /\ tees[j].writer1 \in 1 .. n
    BY <1>2, <1>8, <2>2
  <2>4. tees[j].writer1 \in 1 .. Len(strings')
    <3>1. Len(strings') \in Nat
      BY <1>4, LenProperties
    <3> QED
      BY <1>1, <1>4, <2>3, <3>1
  <2>5. PrintedBy(CommandsOf(ran', k), strings'[tees[j].writer1]) = <<>>
    BY <1>6, <1>7, <1>11, <2>4
  <2>6. tees[j].writer1 # tees'[runtee'].writer1
    <3>1. CASE runtee = 0
      <4>1. tees'[runtee'].writer1 = n + 1 /\ n + 1 \notin 1 .. n
        BY <1>1, <1>2, <1>3, <3>1
      <4> QED
        BY <2>3, <4>1
    <3>2. CASE runtee # 0
      <4>1. runtee' = runtee /\ runtee \in 1 .. m /\ tees[runtee].into = runtee /\ tees'[runtee] = tees[runtee]
        BY <1>2, <1>5, <3>2
      <4>2. tees[j].into = j /\ j # runtee
        BY <2>1, <2>3, <4>1
      <4>3. tees[j].writer1 # W(runtee)
        BY <2>2, <4>1, <4>2 DEF Apart, m
      <4> QED
        BY <4>1, <4>3 DEF W
    <3> QED
      BY <3>1, <3>2
  <2> QED
    BY <2>1, <2>3, <2>5, <2>6
<1> QED
  BY <1>9, <1>10, <1>11

LEMMA SwapApart ==
  ASSUME TypeInv, Apart, Swap
  PROVE  Apart'
<1> DEFINE m == Len(tees)
           n == Len(strings)
<1>1. /\ Base(runtee) /\ Len(tees') = m /\ n \in Nat /\ ran' = ran
      /\ \A k \in 1 .. m : /\ tees'[k].into = tees[k].into /\ tees'[k].at = tees[k].at
                           /\ tees'[k].held = tees[k].held
                           /\ k # runtee => tees'[k].writer1 = tees[k].writer1
      /\ tees'[runtee].writer1 = n + 1
      /\ strings'[n + 1] = <<>> /\ \A i \in 1 .. n : strings'[i] = strings[i]
  <2>1. n \in Nat
    BY LenProperties DEF TypeInv, TypeOK
  <2> QED
    BY <2>1, SwapIs
<1>2. \A k \in 1 .. m : /\ tees[k].into \in 1 .. m /\ tees[tees[k].into].into = tees[k].into
                        /\ W(k) \in 1 .. n /\ (tees[k].into = k => tees[k].writer1 \in 1 .. n)
                        /\ (tees[k].at = "string" => tees[k].held \in 1 .. n)
  BY BaseIs
<1> SUFFICES ASSUME NEW k \in 1 .. m, NEW j \in 1 .. m, tees'[j].into = j, j # tees'[k].into
             PROVE  /\ tees'[j].writer1 # tees'[tees'[k].into].writer1
                    /\ PrintedBy(CommandsOf(ran, k), strings'[tees'[j].writer1]) = <<>>
                    /\ tees'[k].at = "string" => tees'[k].held # tees'[j].writer1
  BY <1>1, SMTT(30) DEF Apart, W
<1>3. /\ tees[j].into = j /\ j # tees[k].into
      /\ tees[j].writer1 # W(k) /\ PrintedBy(CommandsOf(ran, k), strings[tees[j].writer1]) = <<>>
      /\ tees[k].at = "string" => tees[k].held # tees[j].writer1
  BY <1>1 DEF Apart
<1> HIDE DEF m, n
<1>4. n + 1 \notin 1 .. n /\ PrintedBy(CommandsOf(ran, k), <<>>) = <<>>
  BY <1>1, PrintedNothing
<1>5. CASE j = runtee
  <2>1. tees'[j].writer1 = n + 1 /\ tees'[tees'[k].into].writer1 = W(k)
    BY <1>1, <1>2, <1>3, <1>5 DEF W
  <2>2. W(k) \in 1 .. n /\ (tees'[k].at = "string" => tees'[k].held \in 1 .. n)
    BY <1>1, <1>2
  <2>3. PrintedBy(CommandsOf(ran, k), strings'[n + 1]) = <<>>
    BY <1>1, <1>4
  <2> QED
    BY <1>4, <2>1, <2>2, <2>3
<1>6. CASE j # runtee
  <2>1. tees'[j].writer1 = tees[j].writer1 /\ tees[j].writer1 \in 1 .. n
    BY <1>1, <1>2, <1>3, <1>6
  <2>2. tees'[tees'[k].into].writer1 \in {W(k), n + 1}
    BY <1>1, <1>2 DEF W
  <2> QED
    BY <1>1, <1>3, <1>4, <2>1, <2>2
<1> QED
  BY <1>5, <1>6

\* Steps after which every tee's lines go where they went.
LEMMA SameApart ==
  ASSUME TypeInv, Apart, Len(tees') = Len(tees), strings' = strings,
         \A k \in 1 .. Len(tees) : /\ tees'[k].into = tees[k].into /\ tees'[k].writer1 = tees[k].writer1
                                   /\ tees'[k].at = "string" => tees'[k].held = W(k) \/
                                        (tees[k].at = "string" /\ tees'[k].held = tees[k].held),
         \A k : \A q \in Seq(Items(ran)) : PrintedBy(CommandsOf(ran', k), q) = PrintedBy(CommandsOf(ran, k), q)
  PROVE  Apart'
<1> SUFFICES ASSUME NEW k \in 1 .. Len(tees), NEW j \in 1 .. Len(tees), tees'[j].into = j, j # tees'[k].into
             PROVE  /\ tees'[j].writer1 # tees'[tees'[k].into].writer1
                    /\ PrintedBy(CommandsOf(ran', k), strings[tees'[j].writer1]) = <<>>
                    /\ tees'[k].at = "string" => tees'[k].held # tees'[j].writer1
  BY DEF Apart, W
<1>1. /\ tees[j].into = j /\ j # tees[k].into
      /\ tees[j].writer1 # W(k) /\ PrintedBy(CommandsOf(ran, k), strings[tees[j].writer1]) = <<>>
      /\ tees[k].at = "string" => tees[k].held # tees[j].writer1
  BY DEF Apart
<1>2. tees[k].into \in 1 .. Len(tees)
  BY BaseIs
<1>3. strings[tees[j].writer1] \in Seq(Items(ran))
  BY <1>1, BaseIs
<1>4. tees'[tees'[k].into].writer1 = W(k) /\ tees'[j].writer1 = tees[j].writer1
  BY <1>2 DEF W
<1> QED
  BY <1>1, <1>3, <1>4

LEMMA StringApart ==
  ASSUME TypeInv, Apart, NEW t \in 1 .. Len(tees), WriteString(t)
  PROVE  Apart'
<1>1. /\ Len(tees') = Len(tees) /\ \A k \in 1 .. Len(tees) : k # t => tees'[k] = tees[k]
      /\ tees[t].at = "string" /\ tees'[t].at # "string" /\ ran' = ran
      /\ tees'[t].into = tees[t].into /\ tees'[t].writer1 = tees[t].writer1
      /\ tees[t].held \in 1 .. Len(strings) /\ strings'[tees[t].held] = strings[tees[t].held] \o tees[t].line
      /\ \A i \in 1 .. Len(strings) : i # tees[t].held => strings'[i] = strings[i]
  BY WriteStringIs
<1>2. \A k \in 1 .. Len(tees) : /\ tees'[k].into = tees[k].into /\ tees'[k].writer1 = tees[k].writer1
                                /\ tees'[k].at = "string" => tees[k].at = "string" /\ tees'[k].held = tees[k].held
  BY <1>1
<1> SUFFICES ASSUME NEW k \in 1 .. Len(tees), NEW j \in 1 .. Len(tees), tees'[j].into = j, j # tees'[k].into
             PROVE  /\ tees'[j].writer1 # tees'[tees'[k].into].writer1
                    /\ PrintedBy(CommandsOf(ran, k), strings'[tees'[j].writer1]) = <<>>
                    /\ tees'[k].at = "string" => tees'[k].held # tees'[j].writer1
  BY <1>1, SMTT(30) DEF Apart, W
<1>3. /\ tees[j].into = j /\ j # tees[k].into
      /\ tees[j].writer1 # W(k) /\ PrintedBy(CommandsOf(ran, k), strings[tees[j].writer1]) = <<>>
      /\ tees[k].at = "string" => tees[k].held # tees[j].writer1
  BY <1>2 DEF Apart
<1>4. tees[k].into \in 1 .. Len(tees) /\ tees[j].writer1 \in 1 .. Len(strings)
      /\ strings[tees[j].writer1] \in Seq(Items(ran))
  BY <1>3, BaseIs
<1>5. tees'[tees'[k].into].writer1 = W(k) /\ tees'[j].writer1 = tees[j].writer1
  BY <1>2, <1>4 DEF W
<1>6. PrintedBy(CommandsOf(ran, k), strings'[tees[j].writer1]) = <<>>
  <2>1. CASE tees[j].writer1 # tees[t].held
    BY <1>1, <1>3, <1>4, <2>1
  <2>2. CASE tees[j].writer1 = tees[t].held
    <3>1. j = tees[t].into
      BY <1>1, <1>3, <2>2 DEF Apart
    <3>2. k # t
      BY <1>3, <3>1
    <3> DEFINE l == tees[t].line
               s == strings[tees[j].writer1]
               S == Items(ran)
    <3>3. l \in Seq(Own(ran, t)) /\ l \in Seq(S) /\ s \in Seq(S)
      <4>1. tees[t] \in TeeOf(Own(ran, t))
        BY DEF TypeInv, TypeOK
      <4> QED
        BY <1>4, <4>1, OwnIs DEF TeeOf
    <3>4. PrintedBy(CommandsOf(ran, k), l) = <<>>
      <4> HIDE DEF l
      <4> QED
        BY <3>2, <3>3, OwnPrinted
    <3>5. PrintedBy(CommandsOf(ran, k), s \o l) = PrintedBy(CommandsOf(ran, k), s) \o PrintedBy(CommandsOf(ran, k), l)
      <4> HIDE DEF l, s, S
      <4> QED
        BY <3>3, PrintedConcat
    <3>6. strings'[tees[j].writer1] = s \o l
      BY <1>1, <2>2
    <3>7. PrintedBy(CommandsOf(ran, k), s) = <<>>
      BY <1>3
    <3>8. <<>> \o <<>> = <<>>
      OBVIOUS
    <3> HIDE DEF l, s
    <3> QED
      BY <3>4, <3>5, <3>6, <3>7, <3>8
  <2> QED
    BY <2>1, <2>2
<1> QED
  BY <1>2, <1>3, <1>5, <1>6

LEMMA StepApart == TypeInv /\ Apart /\ [Next]_vars => Apart'
<1> SUFFICES ASSUME TypeInv, Apart, [Next]_vars PROVE Apart'
  OBVIOUS
<1>1. ASSUME NEW out \in Outputs, NEW teeout \in BOOLEAN, Run(out, teeout) PROVE Apart'
  BY <1>1, RunApart
<1>2. CallsOK(ran)
  BY DEF TypeInv, TypeOK
<1>3. CASE Print1
  <2>a. PICK n \in 1 .. Len(ran), to \in 1 .. Len(tees) : \E p \in Own(ran', to) : Printing(n, to, p)
    BY <1>3, PrintIs
  <2>b. PICK p \in Own(ran', to) : Printing(n, to, p)
    BY <2>a
  <2>1. /\ n \in 1 .. Len(ran) /\ to \in 1 .. Len(tees)
        /\ CallsOK(ran') /\ Grows(ran, ran')
    BY <2>a, <2>b DEF Printing
  <2>2. /\ p \in Own(ran', to)
        /\ tees' = [tees EXCEPT ![to] = [tees[to] EXCEPT !.pipe = Append(tees[to].pipe, p)]]
    BY <2>b DEF Printing
  <2> DEFINE q == Append(tees[to].pipe, p)
  <2>3. tees \in Seq(TeeOf(Items(ran))) /\ tees[to] \in TeeOf(Own(ran, to)) /\ TypeInv'
    BY <1>3, PrintType DEF TypeInv, TypeOK
  <2>4. DOMAIN tees = 1 .. Len(tees) /\ DOMAIN tees' = 1 .. Len(tees')
        /\ Len(tees) \in Nat /\ Len(tees') \in Nat
    BY <2>3, LenProperties DEF TypeInv, TypeOK
  <2> HIDE DEF q
  <2>5. tees' = [tees EXCEPT ![to] = [tees[to] EXCEPT !.pipe = q]]
    BY <2>2 DEF q
  <2>6. DOMAIN tees' = DOMAIN tees
    BY <2>5
  <2>7. Len(tees') = Len(tees)
    <3>1. \A a, b \in Nat : a < b => b \in 1 .. b /\ b \notin 1 .. a
      OBVIOUS
    <3>2. ~(Len(tees) < Len(tees')) /\ ~(Len(tees') < Len(tees))
      BY <2>4, <2>6, <3>1
    <3>3. Len(tees) \in Nat /\ Len(tees') \in Nat
      BY <2>4
    <3> QED
      BY <3>2, <3>3
  <2>8. \A k \in 1 .. Len(tees) : /\ tees'[k].into = tees[k].into /\ tees'[k].writer1 = tees[k].writer1
                                  /\ tees'[k].at = tees[k].at /\ tees'[k].held = tees[k].held
    BY <2>3, <2>4, <2>5 DEF TeeOf
  <2>9. \A k : \A s \in Seq(Items(ran)) : PrintedBy(CommandsOf(ran', k), s) = PrintedBy(CommandsOf(ran, k), s)
    BY <1>2, <2>1, GrowsIs
  <2>10. strings' = strings
    BY <1>3 DEF Print1
  <2> QED
    BY <2>7, <2>8, <2>9, <2>10, SameApart
<1>4. CASE GetValue \/ \E exits \in BOOLEAN : Return(exits)
  <2>1. tees' = tees /\ strings' = strings /\ CallsOK(ran') /\ Grows(ran, ran')
    BY <1>4, GetValueIs, ReturnIs
  <2>2. \A k : \A s \in Seq(Items(ran)) : PrintedBy(CommandsOf(ran', k), s) = PrintedBy(CommandsOf(ran, k), s)
    BY <1>2, <2>1, GrowsIs
  <2> QED
    BY <2>1, <2>2, SameApart
<1>5. CASE Swap
  BY <1>5, SwapApart
<1>6. CASE (\E e \in BOOLEAN : NotFound(e)) \/ Copy \/ Back \/ UNCHANGED vars
  BY <1>6, StillIs DEF Apart, W
<1>7. ASSUME NEW k \in DOMAIN tees, Flusher(k) PROVE Apart'
  <2>1. k \in 1 .. Len(tees)
    BY <1>7, LenProperties DEF TypeInv, TypeOK
  <2>2. CASE Poll(k)
    <3>1. /\ Len(tees') = Len(tees) /\ ran' = ran /\ strings' = strings
          /\ \A j \in 1 .. Len(tees) : j # k => tees'[j] = tees[j]
          /\ tees'[k].at # "string" /\ tees'[k].into = tees[k].into /\ tees'[k].writer1 = tees[k].writer1
      BY <2>1, <2>2, PollIs
    <3> QED
      BY <3>1, SameApart
  <2>3. CASE WriteLog(k)
    <3>1. /\ Len(tees') = Len(tees) /\ ran' = ran /\ strings' = strings
          /\ \A j \in 1 .. Len(tees) : j # k => tees'[j] = tees[j]
          /\ tees'[k].held = W(k) /\ tees'[k].into = tees[k].into /\ tees'[k].writer1 = tees[k].writer1
      BY <2>1, <2>3, WriteLogIs DEF W
    <3> QED
      BY <3>1, SameApart
  <2>4. CASE WriteString(k)
    BY <2>1, <2>4, StringApart
  <2> QED
    BY <1>7, <2>2, <2>3, <2>4 DEF Flusher
<1> QED
  BY <1>1, <1>3, <1>4, <1>5, <1>6, <1>7 DEF Next, Calls, Main, Scopes, Tees

\* The order of the results ---------------------------------------------------------------------------

\* The results of r that tee k's commands printed; what waits in the string that the next
\* result is taken from, but for a string that was just taken; and the line that will
\* get there.
ResultsOf(r, k) == FlattenSeq([c \in 1 .. Len(r) |-> PrintedBy(CommandsOf(r, k), r[c].result)])
Live(j) == ~(pc = "read" /\ runtee = j)
Waits(k) == IF Live(tees[k].into) THEN PrintedBy(CommandsOf(ran, k), strings[W(k)]) ELSE <<>>
Pending(k) ==
  IF tees[k].at = "log" \/ (tees[k].at = "string" /\ Live(tees[k].into) /\ tees[k].held = W(k))
  THEN tees[k].line ELSE <<>>

InOrder(a, b, c, d) == Ascending(((a \o b) \o c) \o d)
Order ==
  \A k \in 1 .. Len(tees) :
    InOrder(ResultsOf(ran, k), Waits(k), Pending(k), tees[k].buf \o tees[k].pipe)

\* Four lists that are in order stay so when: the third is dropped,
LEMMA DropThird ==
  ASSUME NEW S, NEW a \in Seq(S), NEW b \in Seq(S), NEW c \in Seq(S), NEW d \in Seq(S), InOrder(a, b, c, d)
  PROVE  InOrder(a, b, <<>>, d)
<1> DEFINE e == a \o b
<1>1. e \in Seq(S) /\ Ascending((e \o c) \o d)
  BY ConcatProperties DEF InOrder
<1> HIDE DEF e
<1>2. Ascending(e \o d) /\ e \o <<>> = e
  BY <1>1, AscendingPart, ConcatEmptySeq
<1>3. Ascending((e \o <<>>) \o d)
  BY <1>2
<1> QED
  BY <1>3 DEF InOrder, e

\* the second goes to the end of the first,
LEMMA TakeSecond ==
  ASSUME NEW S, NEW a \in Seq(S), NEW b \in Seq(S), NEW c \in Seq(S), NEW d \in Seq(S), InOrder(a, b, c, d)
  PROVE  InOrder(a \o b, <<>>, c, d)
<1> DEFINE e == a \o b
<1>1. e \in Seq(S) /\ Ascending((e \o c) \o d)
  BY ConcatProperties DEF InOrder
<1> HIDE DEF e
<1>2. e \o <<>> = e
  BY <1>1, ConcatEmptySeq
<1>3. Ascending(((e \o <<>>) \o c) \o d)
  BY <1>1, <1>2
<1> QED
  BY <1>3 DEF InOrder, e

\* the third goes to the end of the second and the fourth is split,
LEMMA TakeThird ==
  ASSUME NEW S, NEW a \in Seq(S), NEW b \in Seq(S), NEW c \in Seq(S), NEW d \in Seq(S), InOrder(a, b, c, d),
         NEW u \in Seq(S), NEW v \in Seq(S), d = u \o v
  PROVE  InOrder(a, b \o c, u, v)
<1>1. (a \o b) \o c = a \o (b \o c)
  <2>1. Associates(a, b, c)
    BY Associative
  <2> QED
    BY <2>1 DEF Associates
<1> DEFINE e == a \o (b \o c)
<1>2. e \in Seq(S)
  <2> DEFINE f == b \o c
  <2>1. f \in Seq(S)
    BY ConcatProperties
  <2> HIDE DEF f
  <2>2. a \o f \in Seq(S)
    BY <2>1, ConcatProperties
  <2> QED
    BY <2>2 DEF f
<1>3. Ascending(e \o d)
  BY <1>1 DEF InOrder
<1> HIDE DEF e
<1>4. e \o (u \o v) = (e \o u) \o v
  <2>1. Associates(e, u, v)
    BY <1>2, Associative
  <2> QED
    BY <2>1 DEF Associates
<1>5. Ascending((e \o u) \o v)
  BY <1>3, <1>4
<1> QED
  BY <1>5 DEF InOrder, e

\* or something behind all they have is appended.
LEMMA AppendFourth ==
  ASSUME NEW S, NEW a \in Seq(S), NEW b \in Seq(S), NEW c \in Seq(S), NEW d \in Seq(S), InOrder(a, b, c, d),
         NEW T, S \subseteq T, NEW x \in T, \A y \in S : Less(y, x)
  PROVE  InOrder(a, b, c, d \o <<x>>)
<1> DEFINE f == a \o b
           e == f \o c
           g == e \o d
           z == <<x>>
<1>1. f \in Seq(S)
  BY ConcatProperties
<1> HIDE DEF f
<1>2. e \in Seq(S)
  BY <1>1, ConcatProperties
<1> HIDE DEF e
<1>3. g \in Seq(S) /\ Ascending(g)
  BY <1>2, ConcatProperties DEF InOrder, e, f
<1>4. Seq(S) \subseteq Seq(T) /\ z \in Seq(T)
  BY SeqSubset
<1> HIDE DEF g
<1>5. \A i \in 1 .. Len(g) : Less(g[i], x)
  BY <1>3, ElementOfSeq
<1>6. Ascending(g \o z)
  BY <1>3, <1>4, <1>5, AscendingAppend
<1> HIDE DEF z
<1>7. (e \o d) \o z = e \o (d \o z)
  <2>1. e \in Seq(T) /\ d \in Seq(T) /\ z \in Seq(T)
    BY <1>2, <1>4
  <2>9. Associates(e, d, z)
    BY <2>1, Associative
  <2> QED
    BY <2>9 DEF Associates
<1>8. Ascending(e \o (d \o z))
  BY <1>6, <1>7 DEF g
<1> QED
  BY <1>8 DEF InOrder, e, f, z

LEMMA OrderFirst ==
  ASSUME NEW S, NEW a \in Seq(S), NEW b \in Seq(S), NEW c \in Seq(S), NEW d \in Seq(S), InOrder(a, b, c, d)
  PROVE  Ascending(a)
<1> DEFINE f == a \o b
           e == f \o c
<1>1. f \in Seq(S)
  BY ConcatProperties
<1> HIDE DEF f
<1>2. e \in Seq(S)
  BY <1>1, ConcatProperties
<1> HIDE DEF e
<1>3. Ascending(e \o d)
  BY DEF InOrder, e, f
<1>4. Ascending(e)
  BY <1>2, <1>3, AscendingFront
<1>5. Ascending(f)
  BY <1>1, <1>4, AscendingFront DEF e
<1> QED
  BY <1>5, AscendingFront DEF f

\* The lists of results.
ResultLists(r, k) == [c \in 1 .. Len(r) |-> PrintedBy(CommandsOf(r, k), r[c].result)]

LEMMA ResultsIs ==
  ASSUME NEW r, CallsOK(r), NEW k
  PROVE  /\ ResultLists(r, k) \in Seq(Seq(Items(r))) /\ Len(ResultLists(r, k)) = Len(r)
         /\ \A c \in 1 .. Len(r) : ResultLists(r, k)[c] = PrintedBy(CommandsOf(r, k), r[c].result)
         /\ ResultsOf(r, k) = FlattenSeq(ResultLists(r, k)) /\ ResultsOf(r, k) \in Seq(Items(r))
<1>1. Len(r) \in Nat
  BY LenProperties DEF CallsOK
<1>2. \A c \in 1 .. Len(r) : PrintedBy(CommandsOf(r, k), r[c].result) \in Seq(Items(r))
  BY KeptIs DEF CallsOK
<1>3. ResultLists(r, k) \in Seq(Seq(Items(r))) /\ Len(ResultLists(r, k)) = Len(r)
  BY <1>1, <1>2, IsASeq DEF ResultLists
<1>4. ResultsOf(r, k) = FlattenSeq(ResultLists(r, k))
  BY DEF ResultsOf, ResultLists
<1>5. ResultsOf(r, k) \in Seq(Items(r))
  BY <1>3, <1>4, FlattenType
<1> QED
  BY <1>3, <1>4, <1>5 DEF ResultLists

\* Results that are the same are the results of the same tee.
LEMMA ResultsSame ==
  ASSUME NEW r, CallsOK(r), NEW s, CallsOK(s), Grows(r, s), Len(s) = Len(r),
         \A c \in 1 .. Len(r) : s[c].result = r[c].result, NEW k
  PROVE  ResultsOf(s, k) = ResultsOf(r, k)
<1>1. \A c \in 1 .. Len(r) : PrintedBy(CommandsOf(s, k), s[c].result) = PrintedBy(CommandsOf(r, k), r[c].result)
  <2> SUFFICES ASSUME NEW c \in 1 .. Len(r)
               PROVE  PrintedBy(CommandsOf(s, k), s[c].result) = PrintedBy(CommandsOf(r, k), r[c].result)
    OBVIOUS
  <2>1. r[c].result \in Seq(Items(r)) /\ s[c].result = r[c].result
    BY DEF CallsOK
  <2> QED
    BY <2>1, GrowsIs
<1>2. ResultLists(s, k) = ResultLists(r, k)
  BY <1>1 DEF ResultLists
<1> QED
  BY <1>2, ResultsIs

\* A new call has no result.
LEMMA ResultsMore ==
  ASSUME NEW r, CallsOK(r), NEW s, CallsOK(s), Grows(r, s), Len(s) = Len(r) + 1,
         \A c \in 1 .. Len(r) : s[c] = r[c], s[Len(s)].result = <<>>, NEW k
  PROVE  ResultsOf(s, k) = ResultsOf(r, k)
<1> DEFINE l == ResultLists(r, k)
           m == ResultLists(s, k)
           S == Items(s)
<1>1. Len(r) \in Nat
  BY LenProperties DEF CallsOK
<1>2. l \in Seq(Seq(S)) /\ Len(l) = Len(r) /\ ResultsOf(r, k) = FlattenSeq(l)
  BY ResultsIs, GrowsIs
<1>3. m \in Seq(Seq(S)) /\ Len(m) = Len(s) /\ ResultsOf(s, k) = FlattenSeq(m)
  BY ResultsIs
<1>4. \A c \in 1 .. Len(r) : m[c] = l[c]
  <2> SUFFICES ASSUME NEW c \in 1 .. Len(r) PROVE m[c] = l[c]
    OBVIOUS
  <2>1. c \in 1 .. Len(s) /\ s[c] = r[c] /\ r[c].result \in Seq(Items(r))
    BY <1>1 DEF CallsOK
  <2>2. m[c] = PrintedBy(CommandsOf(s, k), r[c].result) /\ l[c] = PrintedBy(CommandsOf(r, k), r[c].result)
    BY <2>1 DEF ResultLists
  <2> QED
    BY <2>1, <2>2, GrowsIs
<1>5. m[Len(s)] = <<>>
  <2>1. Len(s) \in 1 .. Len(s)
    BY <1>1
  <2>2. m[Len(s)] = PrintedBy(CommandsOf(s, k), <<>>)
    BY <2>1 DEF ResultLists
  <2> QED
    BY <2>2, PrintedNothing
<1> HIDE DEF l, m, S
<1>6. FlattenSeq(m) = FlattenSeq(l) \o m[Len(m)]
  BY <1>2, <1>3, <1>4, FlattenMore
<1>7. FlattenSeq(l) \o <<>> = FlattenSeq(l)
  BY <1>2, FlattenType, ConcatEmptySeq
<1> QED
  BY <1>2, <1>3, <1>5, <1>6, <1>7

\* The parts of a tee's order.
LEMMA OrderIs ==
  ASSUME TypeInv, NEW k \in 1 .. Len(tees)
  PROVE  /\ ResultsOf(ran, k) \in Seq(Items(ran)) /\ Waits(k) \in Seq(Items(ran))
         /\ Pending(k) \in Seq(Items(ran)) /\ tees[k].buf \o tees[k].pipe \in Seq(Items(ran))
         /\ tees[k].line \in Seq(Own(ran, k)) /\ tees[k].line \in Seq(Items(ran))
         /\ tees[k].buf \in Seq(Items(ran)) /\ tees[k].pipe \in Seq(Items(ran))
<1>1. CallsOK(ran) /\ tees[k] \in TeeOf(Own(ran, k)) /\ strings[W(k)] \in Seq(Items(ran))
  BY BaseIs DEF TypeInv, TypeOK
<1>2. /\ tees[k].line \in Seq(Own(ran, k)) /\ tees[k].line \in Seq(Items(ran))
      /\ tees[k].buf \in Seq(Items(ran)) /\ tees[k].pipe \in Seq(Items(ran))
  BY <1>1, OwnIs DEF TeeOf
<1>3. tees[k].buf \o tees[k].pipe \in Seq(Items(ran))
  BY <1>2, ConcatProperties
<1>4. <<>> \in Seq(Items(ran)) /\ PrintedBy(CommandsOf(ran, k), strings[W(k)]) \in Seq(Items(ran))
  BY <1>1, EmptySeq, KeptIs
<1>5. Waits(k) \in Seq(Items(ran)) /\ Pending(k) \in Seq(Items(ran))
  BY <1>2, <1>4 DEF Waits, Pending
<1> QED
  BY <1>1, <1>2, <1>3, <1>5, ResultsIs

LEMMA RunOrders ==
  ASSUME TypeInv, Order, NEW out \in Outputs, NEW teeout \in BOOLEAN, Run(out, teeout)
  PROVE  Order'
<1> DEFINE m == Len(tees)
<1>1. /\ CallsOK(ran) /\ CallsOK(ran') /\ Grows(ran, ran')
      /\ Len(ran') = Len(ran) + 1 /\ \A c \in 1 .. Len(ran) : ran'[c] = ran[c]
      /\ ran'[Len(ran')].result = <<>>
  BY RunIs DEF TypeInv, TypeOK
<1>2. /\ \A k \in 1 .. m : tees'[k] = tees[k]
      /\ \A i \in 1 .. Len(strings) : strings'[i] = strings[i]
      /\ tees' \in Seq(TeeOf(Items(ran))) /\ strings' \in Seq(Seq(Items(ran)))
  BY RunIs
<1>3. pc = "idle" /\ pc' = "running"
  BY DEF Run
<1>4. \A k : ResultsOf(ran', k) = ResultsOf(ran, k)
  BY <1>1, ResultsMore
<1> SUFFICES ASSUME NEW k \in 1 .. Len(tees')
             PROVE  InOrder(ResultsOf(ran', k), Waits(k)', Pending(k)', tees'[k].buf \o tees'[k].pipe)
  BY DEF Order
<1>5. CASE k \in 1 .. m
  <2> DEFINE j == tees[k].into
  <2>1. j \in 1 .. m /\ W(k) \in 1 .. Len(strings) /\ strings[W(k)] \in Seq(Items(ran))
    BY <1>5, BaseIs
  <2>2. tees'[k] = tees[k] /\ tees'[j] = tees[j]
    BY <1>2, <1>5, <2>1
  <2>3. tees'[tees'[k].into].writer1 = W(k) /\ strings'[W(k)] = strings[W(k)]
    BY <1>2, <2>1, <2>2 DEF W
  <2>4. Waits(k)' = PrintedBy(CommandsOf(ran', k), strings[W(k)])
        /\ Waits(k) = PrintedBy(CommandsOf(ran, k), strings[W(k)])
    BY <1>3, <2>3 DEF Waits, Live, W
  <2>5. Waits(k)' = Waits(k)
    BY <1>1, <2>1, <2>4, GrowsIs
  <2>6. Pending(k)' = Pending(k)
    BY <1>3, <2>2, <2>3 DEF Pending, Live, W
  <2>7. InOrder(ResultsOf(ran, k), Waits(k), Pending(k), tees[k].buf \o tees[k].pipe)
    BY <1>5 DEF Order
  <2> QED
    BY <1>4, <2>2, <2>5, <2>6, <2>7
<1>6. CASE k \notin 1 .. m
  <2>1. PICK w \in Nat : tees'[k] = Tee(runtee', w)
    BY <1>6, RunIs
  <2>2. tees'[k].into = runtee' /\ tees'[k].at = "poll" /\ tees'[k].buf = <<>> /\ tees'[k].pipe = <<>>
    BY <2>1 DEF Tee
  <2>3. \A c \in 1 .. Len(ran) : ran[c].to # k
    BY <1>6 DEF TypeInv, TypeOK
  <2>4. \A x : ~Ours(CommandsOf(ran, k), x)
    BY <2>3 DEF CommandsOf, Ours
  <2>5. ResultsOf(ran, k) = <<>>
    <3> DEFINE l == ResultLists(ran, k)
    <3>1. l \in Seq(Seq(Items(ran))) /\ Len(l) = Len(ran) /\ ResultsOf(ran, k) = FlattenSeq(l)
      BY <1>1, ResultsIs
    <3>2. ASSUME NEW c \in 1 .. Len(ran) PROVE l[c] = <<>>
      <4>1. ran[c].result \in Seq(Items(ran)) /\ l[c] = PrintedBy(CommandsOf(ran, k), ran[c].result)
        BY <1>1 DEF CallsOK, ResultLists
      <4> QED
        BY <2>4, <4>1, PrintedNone
    <3> HIDE DEF l
    <3> QED
      BY <3>1, <3>2, FlattenEmpty
  <2>6. Waits(k)' = <<>>
    <3> DEFINE s == strings'[tees'[runtee'].writer1]
    <3>1. s \in Seq(Items(ran))
      BY <1>2, RunIs, ElementOfSeq
    <3>2. PrintedBy(CommandsOf(ran', k), s) = PrintedBy(CommandsOf(ran, k), s)
      BY <1>1, <3>1, GrowsIs
    <3>3. PrintedBy(CommandsOf(ran, k), s) = <<>>
      BY <2>4, <3>1, PrintedNone
    <3>4. Waits(k)' \in {PrintedBy(CommandsOf(ran', k), s), <<>>}
      BY <2>2 DEF Waits, W
    <3> QED
      BY <3>2, <3>3, <3>4
  <2>7. Pending(k)' = <<>>
    BY <2>2 DEF Pending
  <2>8. InOrder(<<>>, <<>>, <<>>, <<>> \o <<>>)
    <3>1. ((<<>> \o <<>>) \o <<>>) \o (<<>> \o <<>>) = <<>>
      OBVIOUS
    <3>2. Ascending(<<>>)
      BY DEF Ascending
    <3> QED
      BY <3>1, <3>2 DEF InOrder
  <2> QED
    BY <1>4, <2>2, <2>5, <2>6, <2>7, <2>8
<1> QED
  BY <1>5, <1>6

LEMMA PrintOrders ==
  ASSUME TypeInv, Order, Print1
  PROVE  Order'
<1>a. PICK n \in 1 .. Len(ran), to \in 1 .. Len(tees) : \E p \in Own(ran', to) : Printing(n, to, p)
  BY PrintIs
<1>b. PICK p \in Own(ran', to) : Printing(n, to, p)
  BY <1>a
<1>1. /\ n \in 1 .. Len(ran) /\ to \in 1 .. Len(tees)
      /\ n = Len(ran) /\ Len(ran') = n /\ ran[n].sent \in Nat
      /\ CallsOK(ran') /\ Grows(ran, ran')
      /\ \A c \in 1 .. n : ran'[c].result = ran[c].result
  BY <1>a, <1>b DEF Printing
<1>2. /\ p \in Own(ran', to)
      /\ p.of = n /\ p.n = ran[n].sent + 1
      /\ tees' = [tees EXCEPT ![to] = [tees[to] EXCEPT !.pipe = Append(tees[to].pipe, p)]]
  BY <1>b DEF Printing
<1> DEFINE S == Items(ran)
           T == Items(ran')
           q == Append(tees[to].pipe, p)
           x == [tees[to] EXCEPT !.pipe = q]
<1>3. CallsOK(ran) /\ S \subseteq T /\ p \in T /\ tees \in Seq(TeeOf(T)) /\ tees[to] \in TeeOf(T)
      /\ pc' = pc /\ runtee' = runtee /\ strings' = strings
  <2>1. CallsOK(ran) /\ tees \in Seq(TeeOf(S))
    BY DEF TypeInv, TypeOK
  <2>2. tees \in Seq(TeeOf(T))
    BY <1>1, <2>1, GrowsIs
  <2>3. S \subseteq T
    BY <1>1, <2>1, GrowsIs
  <2>4. p \in T
    BY <1>2, OwnIs
  <2>5. tees[to] \in TeeOf(T)
    BY <2>2, ElementOfSeq
  <2> QED
    BY <2>1, <2>2, <2>3, <2>4, <2>5 DEF Print1
<1>4. \A y \in S : Less(y, p)
  <2> SUFFICES ASSUME NEW y \in S PROVE Less(y, p)
    OBVIOUS
  <2>1. y.of \in 1 .. n /\ y.n <= ran[y.of].sent /\ y.n \in Nat
    BY <1>1 DEF Items, AnyItem
  <2>2. CASE y.of = n
    <3>1. y.n < ran[n].sent + 1
      BY <1>1, <2>1, <2>2
    <3> QED
      BY <1>2, <2>2, <3>1 DEF Less
  <2>3. CASE y.of # n
    BY <1>2, <2>1, <2>3 DEF Less
  <2> QED
    BY <2>2, <2>3
<1>5. q \in Seq(T)
  BY <1>3, AppendProperties DEF TeeOf
<1>6. tees' = [tees EXCEPT ![to] = x]
  BY <1>2
<1> HIDE DEF q
<1>7. /\ x \in TeeOf(T) /\ x.pipe = q /\ x.buf = tees[to].buf /\ x.line = tees[to].line /\ x.at = tees[to].at
      /\ x.held = tees[to].held /\ x.into = tees[to].into /\ x.writer1 = tees[to].writer1
  BY <1>3, <1>5 DEF TeeOf
<1> HIDE DEF x, S, T
<1>8. /\ Len(tees') = Len(tees) /\ tees'[to] = x
      /\ \A k \in 1 .. Len(tees) : k # to => tees'[k] = tees[k]
  BY <1>3, <1>6, <1>7, ExceptSeq
<1>9. \A k \in 1 .. Len(tees) :
        /\ tees'[k].line = tees[k].line /\ tees'[k].at = tees[k].at /\ tees'[k].held = tees[k].held
        /\ tees'[k].into = tees[k].into /\ tees'[k].writer1 = tees[k].writer1
  BY <1>7, <1>8
<1>10. \A k : ResultsOf(ran', k) = ResultsOf(ran, k)
  BY <1>1, <1>3, ResultsSame
<1> SUFFICES ASSUME NEW k \in 1 .. Len(tees)
             PROVE  InOrder(ResultsOf(ran', k), Waits(k)', Pending(k)', tees'[k].buf \o tees'[k].pipe)
  BY <1>8 DEF Order
<1>11. tees[k].into \in 1 .. Len(tees) /\ strings[W(k)] \in Seq(Items(ran))
  BY BaseIs
<1>12. tees'[tees'[k].into].writer1 = W(k)
  BY <1>9, <1>11 DEF W
<1>13. Waits(k)' = Waits(k)
  <2>1. PrintedBy(CommandsOf(ran', k), strings[W(k)]) = PrintedBy(CommandsOf(ran, k), strings[W(k)])
    BY <1>1, <1>3, <1>11, GrowsIs
  <2>2. Waits(k)' = IF Live(tees[k].into) THEN PrintedBy(CommandsOf(ran', k), strings[W(k)]) ELSE <<>>
    BY <1>3, <1>9, <1>12 DEF Waits, Live, W
  <2> QED
    BY <2>1, <2>2 DEF Waits
<1>14. Pending(k)' = Pending(k)
  BY <1>3, <1>9, <1>12 DEF Pending, Live, W
<1> DEFINE a == ResultsOf(ran, k)
           b == Waits(k)
           c == Pending(k)
           d == tees[k].buf \o tees[k].pipe
<1>15. InOrder(a, b, c, d)
  BY DEF Order
<1>16. CASE k = to
  <2>1. a \in Seq(S) /\ b \in Seq(S) /\ c \in Seq(S) /\ d \in Seq(S)
    BY OrderIs DEF S
  <2>2. tees'[k].buf \o tees'[k].pipe = d \o <<p>>
    <3> DEFINE u == tees[to].buf
               v == tees[to].pipe
               z == <<p>>
    <3>1. u \in Seq(T) /\ v \in Seq(T) /\ z \in Seq(T)
      <4>1. u \in Seq(T) /\ v \in Seq(T)
        BY <1>3 DEF TeeOf
      <4>2. z \in Seq(T)
        <5>1. p \in T
          BY <1>3
        <5> QED
          BY <5>1
      <4> QED
        BY <4>1, <4>2
    <3>2. q = v \o z
      BY <1>3, <3>1, AppendIsConcat DEF q
    <3> HIDE DEF u, v, z
    <3>3. u \o (v \o z) = (u \o v) \o z
      <4>1. Associates(u, v, z)
        BY <3>1, Associative
      <4> QED
        BY <4>1 DEF Associates
    <3>4. tees'[k].buf = u /\ tees'[k].pipe = v \o z
      BY <1>7, <1>8, <1>16, <3>2 DEF u
    <3>5. d = u \o v
      BY <1>16 DEF u, v
    <3> QED
      BY <3>3, <3>4, <3>5 DEF z
  <2> HIDE DEF a, b, c, d
  <2>3. InOrder(a, b, c, d \o <<p>>)
    BY <1>3, <1>4, <1>15, <2>1, AppendFourth
  <2> QED
    BY <1>10, <1>13, <1>14, <2>2, <2>3 DEF a, b, c
<1>17. CASE k # to
  <2>1. tees'[k] = tees[k]
    BY <1>8, <1>17
  <2> QED
    BY <1>10, <1>13, <1>14, <1>15, <2>1
<1> QED
  BY <1>16, <1>17

LEMMA GetValueOrders ==
  ASSUME TypeInv, Apart, Order, GetValue
  PROVE  Order'
<1> DEFINE n == Len(ran)
           w == tees[runtee].writer1
           S == Items(ran')
<1>1. /\ CallsOK(ran) /\ CallsOK(ran') /\ Grows(ran, ran') /\ Len(ran') = n /\ n # 0 /\ n \in Nat
      /\ \A c \in 1 .. n - 1 : ran'[c] = ran[c]
      /\ ran[n].result = <<>> /\ ran'[n].result = strings[w]
      /\ Base(runtee) /\ pc = "running" /\ pc' = "read" /\ UNCHANGED <<runtee, tees, strings>>
  <2>1. CallsOK(ran) /\ n \in Nat
    BY LenProperties DEF TypeInv, TypeOK, CallsOK
  <2> QED
    BY <2>1, GetValueIs
<1>2. \A c \in 1 .. n : ran'[c].to = ran[c].to
  BY GetValueIs
<1>3. runtee \in 1 .. Len(tees) /\ tees[runtee].into = runtee /\ strings[w] \in Seq(Items(ran))
  <2>1. runtee \in 1 .. Len(tees) /\ tees[runtee].into = runtee
    BY <1>1 DEF Base
  <2> QED
    BY <2>1, BaseIs
<1> SUFFICES ASSUME NEW k \in 1 .. Len(tees)
             PROVE  InOrder(ResultsOf(ran', k), Waits(k)', Pending(k)', tees[k].buf \o tees[k].pipe)
  BY <1>1 DEF Order
<1> DEFINE a == ResultsOf(ran, k)
           b == Waits(k)
           c == Pending(k)
           d == tees[k].buf \o tees[k].pipe
           C == CommandsOf(ran, k)
           v == PrintedBy(C, strings[w])
<1>4. a \in Seq(Items(ran)) /\ b \in Seq(Items(ran)) /\ c \in Seq(Items(ran)) /\ d \in Seq(Items(ran))
      /\ v \in Seq(Items(ran)) /\ Seq(Items(ran)) \subseteq Seq(S)
  BY <1>1, <1>3, OrderIs, KeptIs, GrowsIs
<1>5. ResultsOf(ran', k) = a \o v
  <2> DEFINE l == ResultLists(ran, k)
             m == ResultLists(ran', k)
  <2>1. CommandsOf(ran', k) = C
    BY <1>1, <1>2 DEF CommandsOf
  <2>2. l \in Seq(Seq(S)) /\ Len(l) = n /\ a = FlattenSeq(l)
    BY <1>1, ResultsIs, GrowsIs
  <2>3. m \in Seq(Seq(S)) /\ Len(m) = n /\ ResultsOf(ran', k) = FlattenSeq(m)
    BY <1>1, ResultsIs
  <2>4. \A i \in 1 .. n - 1 : m[i] = l[i]
    <3> SUFFICES ASSUME NEW i \in 1 .. n - 1 PROVE m[i] = l[i]
      OBVIOUS
    <3>1. i \in 1 .. n /\ ran'[i] = ran[i]
      BY <1>1
    <3> QED
      BY <1>1, <2>1, <3>1 DEF ResultLists
  <2>5. l[n] = <<>> /\ m[n] = v
    <3>1. n \in 1 .. n
      BY <1>1
    <3>2. l[n] = PrintedBy(C, <<>>) /\ m[n] = v
      BY <1>1, <2>1, <3>1 DEF ResultLists
    <3> QED
      BY <3>2, PrintedNothing
  <2> HIDE DEF l, m, v, S, n
  <2>6. <<>> \o v = v
    BY <1>4, ConcatEmptySeq
  <2>7. Longer(l, m, v)
    <3>1. l # <<>>
      BY <1>1, <2>2, EmptySeq
    <3> QED
      BY <2>2, <2>3, <2>4, <2>5, <2>6, <3>1 DEF Longer
  <2>8. FlattenSeq(m) = FlattenSeq(l) \o v
    BY <1>4, <2>2, <2>3, <2>7, FlattenLonger
  <2> QED
    BY <2>2, <2>3, <2>8
<1>6. InOrder(a, b, c, d)
  BY DEF Order
<1>7. W(k)' = W(k) /\ Live(tees[k].into) /\ (Live(tees[k].into)' <=> tees[k].into # runtee)
  BY <1>1 DEF W, Live
<1>8. CASE tees[k].into = runtee
  <2>1. b = v
    BY <1>7, <1>8 DEF Waits, W
  <2>2. Waits(k)' = <<>>
    BY <1>1, <1>8 DEF Waits, Live
  <2>3. Pending(k)' = c \/ Pending(k)' = <<>>
    BY <1>1, <1>7, <1>8 DEF Pending, Live
  <2> HIDE DEF a, b, c, d, v
  <2>4. InOrder(a \o b, <<>>, c, d)
    BY <1>4, <1>6, TakeSecond
  <2>5. InOrder(a \o b, <<>>, <<>>, d)
    <3> DEFINE e == a \o b
    <3>1. e \in Seq(Items(ran)) /\ <<>> \in Seq(Items(ran))
      BY <1>4, ConcatProperties, EmptySeq
    <3>2. InOrder(e, <<>>, c, d)
      BY <2>4
    <3> HIDE DEF e
    <3>3. InOrder(e, <<>>, <<>>, d)
      BY <1>4, <3>1, <3>2, DropThird
    <3> QED
      BY <3>3 DEF e
  <2> QED
    BY <1>5, <2>1, <2>2, <2>3, <2>4, <2>5 DEF d
<1>9. CASE tees[k].into # runtee
  <2>1. v = <<>>
    BY <1>3, <1>9 DEF Apart
  <2>2. Waits(k)' = b
    <3>1. CommandsOf(ran', k) = C
      BY <1>1, <1>2 DEF CommandsOf
    <3> QED
      BY <1>1, <1>7, <1>9, <3>1 DEF Waits, Live, W
  <2>3. Pending(k)' = c
    BY <1>1, <1>7, <1>9 DEF Pending, Live, W
  <2>4. a \o <<>> = a
    BY <1>4, ConcatEmptySeq
  <2> QED
    BY <1>5, <1>6, <2>1, <2>2, <2>3, <2>4
<1> QED
  BY <1>8, <1>9

LEMMA SwapOrders ==
  ASSUME TypeInv, Apart, Order, Swap
  PROVE  Order'
<1> DEFINE m == Len(tees)
           n == Len(strings)
<1>1. /\ Base(runtee) /\ Len(tees') = m /\ n \in Nat /\ ran' = ran /\ runtee' = runtee
      /\ \A k \in 1 .. m : /\ tees'[k].into = tees[k].into /\ tees'[k].at = tees[k].at
                           /\ tees'[k].held = tees[k].held /\ tees'[k].line = tees[k].line
                           /\ tees'[k].buf = tees[k].buf /\ tees'[k].pipe = tees[k].pipe
                           /\ k # runtee => tees'[k].writer1 = tees[k].writer1
      /\ tees'[runtee].writer1 = n + 1
      /\ strings'[n + 1] = <<>> /\ \A i \in 1 .. n : strings'[i] = strings[i]
      /\ pc = "read" /\ pc' = "swapped"
  <2>1. n \in Nat
    BY LenProperties DEF TypeInv, TypeOK
  <2> QED
    BY <2>1, SwapIs
<1> SUFFICES ASSUME NEW k \in 1 .. m
             PROVE  InOrder(ResultsOf(ran, k), Waits(k)', Pending(k)', tees[k].buf \o tees[k].pipe)
  BY <1>1 DEF Order
<1>2. /\ tees[k].into \in 1 .. m /\ tees[tees[k].into].into = tees[k].into /\ W(k) \in 1 .. n
      /\ tees[k].at = "string" => tees[k].held \in 1 .. n
  BY BaseIs
<1>3. InOrder(ResultsOf(ran, k), Waits(k), Pending(k), tees[k].buf \o tees[k].pipe)
  BY DEF Order
<1>4. Live(tees[k].into) <=> tees[k].into # runtee
  BY <1>1 DEF Live
<1>5. \A j : Live(j)'
  BY <1>1 DEF Live
<1> HIDE DEF m, n
<1>6. CASE tees[k].into = runtee
  <2>1. W(k)' = n + 1
    BY <1>1, <1>6 DEF W
  <2>2. Waits(k) = <<>>
    BY <1>4, <1>6 DEF Waits
  <2>3. Waits(k)' = <<>>
    <3>1. Waits(k)' \in {<<>>, PrintedBy(CommandsOf(ran, k), strings'[n + 1])}
      BY <1>1, <2>1 DEF Waits
    <3> QED
      BY <1>1, <3>1, PrintedNothing
  <2>4. Pending(k)' = Pending(k)
    <3>1. ~(tees[k].at = "string" /\ tees[k].held = n + 1)
      BY <1>1, <1>2
    <3> QED
      BY <1>1, <1>4, <1>6, <2>1, <3>1 DEF Pending
  <2> QED
    BY <1>3, <2>2, <2>3, <2>4
<1>7. CASE tees[k].into # runtee
  <2>1. W(k)' = W(k)
    BY <1>1, <1>2, <1>7 DEF W
  <2>2. Waits(k)' = Waits(k)
    <3>1. Waits(k) = PrintedBy(CommandsOf(ran, k), strings[W(k)])
      BY <1>4, <1>7 DEF Waits
    <3>2. Waits(k)' = PrintedBy(CommandsOf(ran, k), strings'[W(k)])
      BY <1>1, <1>5, <2>1 DEF Waits
    <3> QED
      BY <1>1, <1>2, <3>1, <3>2
  <2>3. Pending(k)' = Pending(k)
    BY <1>1, <1>4, <1>5, <1>7, <2>1 DEF Pending
  <2> QED
    BY <1>3, <2>2, <2>3
<1> QED
  BY <1>6, <1>7

LEMMA ReturnOrders ==
  ASSUME TypeInv, Order,
         (\E exits \in BOOLEAN : Return(exits))
           \/ (\E e \in BOOLEAN : NotFound(e)) \/ Copy \/ Back \/ UNCHANGED vars
  PROVE  Order'
<1>1. tees' = tees /\ strings' = strings /\ \A j : Live(j)' <=> Live(j)
  <2>1. ASSUME NEW exits \in BOOLEAN, Return(exits)
        PROVE  tees' = tees /\ strings' = strings /\ pc # "read" /\ pc' # "read"
    BY <2>1, ReturnIs
  <2>2. ASSUME (\E e \in BOOLEAN : NotFound(e)) \/ Copy \/ Back \/ UNCHANGED vars
        PROVE  UNCHANGED <<tees, strings>> /\ (UNCHANGED <<pc, runtee>> \/ (pc # "read" /\ pc' # "read"))
    BY <2>2, StillIs
  <2> QED
    BY <2>1, <2>2 DEF Live
<1>2. \A k : ResultsOf(ran', k) = ResultsOf(ran, k) /\ CommandsOf(ran', k) = CommandsOf(ran, k)
  <2>1. ASSUME NEW exits \in BOOLEAN, Return(exits)
        PROVE  \A k : ResultsOf(ran', k) = ResultsOf(ran, k) /\ CommandsOf(ran', k) = CommandsOf(ran, k)
    <3>1. /\ CallsOK(ran) /\ CallsOK(ran') /\ Grows(ran, ran') /\ Len(ran') = Len(ran)
          /\ \A c \in 1 .. Len(ran) : ran'[c].to = ran[c].to /\ ran'[c].result = ran[c].result
      BY <2>1, ReturnIs DEF TypeInv, TypeOK
    <3>2. \A k : CommandsOf(ran', k) = CommandsOf(ran, k)
      BY <3>1 DEF CommandsOf
    <3> QED
      BY <3>1, <3>2, ResultsSame
  <2>2. ASSUME (\E e \in BOOLEAN : NotFound(e)) \/ Copy \/ Back \/ UNCHANGED vars
        PROVE  ran' = ran
    BY <2>2, StillIs
  <2> QED
    BY <2>1, <2>2
<1>3. \A k : W(k)' = W(k)
  BY <1>1 DEF W
<1>4. \A k : Waits(k)' = Waits(k)
  BY <1>1, <1>2, <1>3 DEF Waits
<1>5. \A k : Pending(k)' = Pending(k)
  BY <1>1, <1>3 DEF Pending
<1> QED
  BY <1>1, <1>2, <1>4, <1>5 DEF Order

\* A line that was written, or none, and the next one.
LEMMA NextOrders ==
  ASSUME TypeInv, Order, NEW k \in 1 .. Len(tees), TypeInv', ran' = ran, Len(tees') = Len(tees),
         tees'[k].at # "string", Unwritten(tees'[k]) = tees[k].buf \o tees[k].pipe,
         Waits(k)' = Waits(k) \o Pending(k)
  PROVE  InOrder(ResultsOf(ran, k), Waits(k)', Pending(k)', tees'[k].buf \o tees'[k].pipe)
<1> DEFINE S == Items(ran)
           a == ResultsOf(ran, k)
           b == Waits(k)
           c == Pending(k)
           d == tees[k].buf \o tees[k].pipe
           t == tees'[k]
           u == IF t.at = "log" THEN t.line ELSE <<>>
           v == t.buf \o t.pipe
<1>1. a \in Seq(S) /\ b \in Seq(S) /\ c \in Seq(S) /\ d \in Seq(S) /\ InOrder(a, b, c, d)
  BY OrderIs DEF Order
<1>2. t \in TeeOf(S)
  BY OwnIs DEF TypeInv, TypeOK
<1>3. v \in Seq(S) /\ u \in Seq(S) /\ d = u \o v
  <2>1. v \in Seq(S) /\ (t.at # "log" => Unwritten(t) = v) /\ (t.at = "log" => Unwritten(t) = t.line \o v)
    BY <1>2, UnwrittenIs
  <2>2. u \in Seq(S)
    BY <1>2, EmptySeq DEF TeeOf
  <2> HIDE DEF v
  <2>3. <<>> \o v = v
    BY <2>1, ConcatEmptySeq
  <2> QED
    BY <2>1, <2>2, <2>3
<1>4. Pending(k)' = u
  BY DEF Pending
<1> HIDE DEF a, b, c, d, u, v, S
<1>5. InOrder(a, b \o c, u, v)
  BY <1>1, <1>3, TakeThird
<1> QED
  BY <1>4, <1>5 DEF a, b, c, v

LEMMA TeeOrders ==
  ASSUME TypeInv, Apart, Order, NEW t \in 1 .. Len(tees), Flusher(t)
  PROVE  Order'
<1>1. /\ TypeInv' /\ Len(tees') = Len(tees) /\ \A j \in 1 .. Len(tees) : j # t => tees'[j] = tees[j]
      /\ ran' = ran /\ pc' = pc /\ runtee' = runtee
      /\ tees'[t].into = tees[t].into /\ tees'[t].writer1 = tees[t].writer1
  BY PollIs, WriteLogIs, WriteStringIs DEF Flusher
<1>2. \A k \in 1 .. Len(tees) : tees'[k].into = tees[k].into /\ tees'[k].writer1 = tees[k].writer1
  BY <1>1
<1>3. \A k \in 1 .. Len(tees) : W(k)' = W(k) /\ tees[k].into \in 1 .. Len(tees) /\ W(k) \in 1 .. Len(strings)
  <2> SUFFICES ASSUME NEW k \in 1 .. Len(tees)
               PROVE  W(k)' = W(k) /\ tees[k].into \in 1 .. Len(tees) /\ W(k) \in 1 .. Len(strings)
    OBVIOUS
  <2>1. tees[k].into \in 1 .. Len(tees) /\ W(k) \in 1 .. Len(strings)
    BY BaseIs
  <2> QED
    BY <1>2, <2>1 DEF W
<1>4. \A j : Live(j)' <=> Live(j)
  BY <1>1 DEF Live
\* Lines of another tee do not change what waits for k.
<1>5. ASSUME NEW k \in 1 .. Len(tees), k # t PROVE Waits(k)' = Waits(k)
  <2>1. CASE strings'[W(k)] = strings[W(k)]
    BY <1>1, <1>2, <1>3, <1>4, <2>1 DEF Waits
  <2>2. CASE WriteString(t) /\ strings'[W(k)] # strings[W(k)]
    <3>1. strings'[W(k)] = strings[W(k)] \o tees[t].line
      BY <1>3, <2>2, WriteStringIs
    <3> DEFINE s == strings[W(k)]
               l == tees[t].line
               C == CommandsOf(ran, k)
    <3>2. s \in Seq(Items(ran)) /\ l \in Seq(Items(ran)) /\ l \in Seq(Own(ran, t))
      BY BaseIs, OrderIs
    <3> HIDE DEF s, l
    <3>3. PrintedBy(C, s \o l) = PrintedBy(C, s) \o PrintedBy(C, l)
      BY <3>2, PrintedConcat
    <3>4. PrintedBy(C, l) = <<>>
      BY <1>5, <3>2, OwnPrinted
    <3>5. PrintedBy(C, s) \o <<>> = PrintedBy(C, s)
      BY <3>2, KeptIs, ConcatEmptySeq
    <3>6. PrintedBy(C, strings'[W(k)]) = PrintedBy(C, strings[W(k)])
      BY <3>1, <3>3, <3>4, <3>5 DEF s, l
    <3> QED
      BY <1>1, <1>2, <1>3, <1>4, <3>6 DEF Waits
  <2> QED
    BY <2>1, <2>2, PollIs, WriteLogIs DEF Flusher
<1>6. ASSUME NEW k \in 1 .. Len(tees), k # t
      PROVE  InOrder(ResultsOf(ran', k), Waits(k)', Pending(k)', tees'[k].buf \o tees'[k].pipe)
  <2>1. tees'[k] = tees[k]
    BY <1>1, <1>6
  <2>2. Pending(k)' = Pending(k)
    BY <1>3, <1>4, <2>1 DEF Pending
  <2>3. InOrder(ResultsOf(ran, k), Waits(k), Pending(k), tees[k].buf \o tees[k].pipe)
    BY DEF Order
  <2>4. Waits(k)' = Waits(k)
    BY <1>5, <1>6
  <2> QED
    BY <1>1, <2>1, <2>2, <2>3, <2>4
<1> DEFINE a == ResultsOf(ran, t)
           b == Waits(t)
           c == Pending(t)
           d == tees[t].buf \o tees[t].pipe
           S == Items(ran)
<1>7. a \in Seq(S) /\ b \in Seq(S) /\ c \in Seq(S) /\ d \in Seq(S) /\ InOrder(a, b, c, d)
      /\ strings[W(t)] \in Seq(S)
  BY OrderIs, BaseIs DEF Order
<1>8. InOrder(a, Waits(t)', Pending(t)', tees'[t].buf \o tees'[t].pipe)
  <2>1. CASE Poll(t)
    <3>1. tees[t].at = "poll" /\ tees'[t].at # "string" /\ strings' = strings /\ Unwritten(tees'[t]) = d
      BY <2>1, PollIs
    <3>2. c = <<>>
      BY <3>1 DEF Pending
    <3>3. Waits(t)' = b
      BY <1>1, <1>2, <1>3, <1>4, <3>1 DEF Waits
    <3>4. b \o <<>> = b
      BY <1>7, ConcatEmptySeq
    <3>5. Waits(t)' = Waits(t) \o Pending(t)
      BY <3>2, <3>3, <3>4
    <3> QED
      BY <1>1, <3>1, <3>5, NextOrders
  <2>2. CASE WriteLog(t)
    <3>1. /\ tees[t].at = "log" /\ tees'[t].at = "string" /\ strings' = strings
          /\ tees'[t].line = tees[t].line /\ tees'[t].buf = tees[t].buf /\ tees'[t].pipe = tees[t].pipe
      BY <2>2, WriteLogIs
    <3>2. Waits(t)' = b
      BY <1>1, <1>2, <1>3, <1>4, <3>1 DEF Waits
    <3>3. Pending(t)' = c \/ Pending(t)' = <<>>
      BY <3>1 DEF Pending
    <3> HIDE DEF a, b, c, d, S
    <3>4. InOrder(a, b, <<>>, d)
      BY <1>7, DropThird
    <3> QED
      BY <1>7, <3>1, <3>2, <3>3, <3>4 DEF d
  <2>3. CASE WriteString(t)
    <3> DEFINE s == strings[W(t)]
               l == tees[t].line
               C == CommandsOf(ran, t)
    <3>1. /\ tees[t].at = "string" /\ tees'[t].at # "string" /\ Unwritten(tees'[t]) = d
          /\ tees[t].held \in 1 .. Len(strings) /\ strings'[tees[t].held] = strings[tees[t].held] \o l
          /\ \A i \in 1 .. Len(strings) : i # tees[t].held => strings'[i] = strings[i]
      BY <2>3, WriteStringIs
    <3>2. b \o <<>> = b
      BY <1>7, ConcatEmptySeq
    <3>3. CASE ~Live(tees[t].into)
      <4>1. Waits(t)' = <<>> /\ b = <<>> /\ c = <<>>
        BY <1>1, <1>4, <3>1, <3>3 DEF Waits, Pending
      <4>2. Waits(t)' = Waits(t) \o Pending(t)
        BY <3>2, <4>1
      <4> QED
        BY <1>1, <3>1, <4>2, NextOrders
    <3>4. CASE Live(tees[t].into) /\ tees[t].held # W(t)
      <4>1. strings'[W(t)] = s /\ c = <<>>
        BY <1>3, <3>1, <3>4 DEF Pending
      <4>2. Waits(t)' = b
        BY <1>1, <1>3, <1>4, <4>1 DEF Waits
      <4>3. Waits(t)' = Waits(t) \o Pending(t)
        BY <3>2, <4>1, <4>2
      <4> QED
        BY <1>1, <3>1, <4>3, NextOrders
    <3>5. CASE Live(tees[t].into) /\ tees[t].held = W(t)
      <4>1. strings'[W(t)] = s \o l /\ c = l
        BY <3>1, <3>5 DEF Pending
      <4>2. Waits(t)' = PrintedBy(C, strings'[W(t)]) /\ b = PrintedBy(C, s)
        BY <1>1, <1>3, <1>4, <3>5 DEF Waits
      <4>3. l \in Seq(Own(ran, t)) /\ l \in Seq(S) /\ s \in Seq(S)
        BY <1>7, OrderIs
      <4> HIDE DEF s, l
      <4>4. PrintedBy(C, s \o l) = PrintedBy(C, s) \o PrintedBy(C, l) /\ PrintedBy(C, l) = l
        BY <4>3, PrintedConcat, OwnPrinted
      <4>5. Waits(t)' = Waits(t) \o Pending(t)
        BY <4>1, <4>2, <4>4
      <4> QED
        BY <1>1, <3>1, <4>5, NextOrders
    <3> QED
      BY <3>3, <3>4, <3>5
  <2> QED
    BY <2>1, <2>2, <2>3 DEF Flusher
<1> QED
  BY <1>1, <1>6, <1>8 DEF Order

\* util.run(): every piece of output is in the result of one call at most, and the results,
\* in the order of the calls, keep the order in which it was printed.
THEOREM ResultsKeepOrder == Spec => []ResultsInOrder
<1>1. Init => Apart /\ Order
  <2> SUFFICES ASSUME Init PROVE Apart /\ Order
    OBVIOUS
  <2>1. Len(tees) = 0
    BY DEF Init
  <2> QED
    BY <2>1 DEF Apart, Order
<1>2. TypeInv /\ Apart /\ Order /\ [Next]_vars => Apart' /\ Order'
  <2> SUFFICES ASSUME TypeInv, Apart, Order, [Next]_vars PROVE Order'
    BY StepApart
  <2>1. ASSUME NEW out \in Outputs, NEW teeout \in BOOLEAN, Run(out, teeout) PROVE Order'
    BY <2>1, RunOrders
  <2>2. CASE Print1
    BY <2>2, PrintOrders
  <2>3. CASE GetValue
    BY <2>3, GetValueOrders
  <2>4. CASE Swap
    BY <2>4, SwapOrders
  <2>5. CASE (\E exits \in BOOLEAN : Return(exits))
             \/ (\E e \in BOOLEAN : NotFound(e)) \/ Copy \/ Back \/ UNCHANGED vars
    BY <2>5, ReturnOrders
  <2>6. ASSUME NEW k \in DOMAIN tees, Flusher(k) PROVE Order'
    <3>1. k \in 1 .. Len(tees)
      BY <2>6, LenProperties DEF TypeInv, TypeOK
    <3> QED
      BY <2>6, <3>1, TeeOrders
  <2> QED
    BY <2>1, <2>2, <2>3, <2>4, <2>5, <2>6 DEF Next, Calls, Main, Scopes, Tees
<1>3. TypeInv /\ Order => ResultsInOrder
  <2> SUFFICES ASSUME TypeInv, Order, NEW k \in DOMAIN tees
               PROVE  Ascending(FlattenSeq([c \in 1 .. last |-> Output(ran[c].result, k)]))
    BY DEF ResultsInOrder
  <2>1. k \in 1 .. Len(tees)
    BY LenProperties DEF TypeInv, TypeOK
  <2>2. FlattenSeq([c \in 1 .. last |-> Output(ran[c].result, k)]) = ResultsOf(ran, k)
    BY DEF ResultsOf, Output, Commands, CommandsOf, last
  <2> DEFINE a == ResultsOf(ran, k)
             b == Waits(k)
             c == Pending(k)
             d == tees[k].buf \o tees[k].pipe
             S == Items(ran)
  <2>3. a \in Seq(S) /\ b \in Seq(S) /\ c \in Seq(S) /\ d \in Seq(S) /\ InOrder(a, b, c, d)
    BY <2>1, OrderIs DEF Order
  <2> HIDE DEF a, b, c, d, S
  <2>4. Ascending(a)
    BY <2>3, OrderFirst
  <2> QED
    BY <2>2, <2>4 DEF a
<1> QED
  BY RunTypes, <1>1, <1>2, <1>3, PTL DEF Spec

=============================================================================
