-------------------------- MODULE HMStandardProofs --------------------------
(***************************************************************************)
(* The shadow-memory library over the system's malloc, for any number of   *)
(* threads and any blocks the system may hand out.  It has no mutex: what  *)
(* keeps its answers right is that the chunks of the system do not overlap *)
(* and that every call writes the shadow memory of its own block only,     *)
(* before the program holds it or after it has given it back.  First, what *)
(* registerAddr and removeAddr write, and what checkRegistration answers   *)
(* of a block whose shadow bytes are as registerAddr leaves them, in both  *)
(* encodings (a count of accessible bytes, or one bit per byte).           *)
(***************************************************************************)
EXTENDS HMStandard, TLAPS

\* Bits ---------------------------------------------------------------------------------

\* p is the n-th power of two, for the eight bits of a byte.
IsPower(n, p) ==
  \/ n = 0 /\ p = 1
  \/ n = 1 /\ p = 2
  \/ n = 2 /\ p = 4
  \/ n = 3 /\ p = 8
  \/ n = 4 /\ p = 16
  \/ n = 5 /\ p = 32
  \/ n = 6 /\ p = 64
  \/ n = 7 /\ p = 128

\* The powers of two a byte is made of.
LEMMA Powers == \A n \in 0 .. 7 : IsPower(n, 2 ^ n)
<1> SUFFICES ASSUME NEW n \in 0 .. 7 PROVE IsPower(n, 2 ^ n)
  OBVIOUS
<1>1. /\ 2 ^ 0 = 1 /\ 2 ^ 1 = 2 /\ 2 ^ 2 = 4 /\ 2 ^ 3 = 8
      /\ 2 ^ 4 = 16 /\ 2 ^ 5 = 32 /\ 2 ^ 6 = 64 /\ 2 ^ 7 = 128
  OBVIOUS
<1>2. CASE n \in {0, 1, 2, 3}
  BY <1>1, <1>2 DEF IsPower
<1>3. CASE n \in {4, 5, 6, 7}
  BY <1>1, <1>3, ZenonT(60) DEF IsPower
<1>4. n \in {0, 1, 2, 3} \/ n \in {4, 5, 6, 7}
  OBVIOUS
<1> QED
  BY <1>2, <1>3, <1>4

\* 0xFF >> k has the bits that stand for the bytes k .. 7 of a word, and no others.
LEMMA BitsTest ==
  ASSUME NEW k \in 1 .. 7, NEW i \in 0 .. 7
  PROVE  BIT_TST(BitsFrom(k), i) <=> i >= k
<1> DEFINE n == 7 - i
           m == 8 - k
<1>1. n \in 0 .. 7 /\ m \in 0 .. 7 /\ (i >= k <=> n < m)
  OBVIOUS
<1> HIDE DEF n, m
<1>2. IsPower(n, 2 ^ n) /\ IsPower(m, 2 ^ m)
  BY <1>1, Powers
<1>3. \A p, q : IsPower(n, p) /\ IsPower(m, q) => (((q - 1) \div p) % 2 = 1 <=> n < m)
  BY DEF IsPower
<1>4. ((2 ^ m - 1) \div 2 ^ n) % 2 = 1 <=> n < m
  BY <1>2, <1>3, Zenon
<1> QED
  BY <1>1, <1>4 DEF m, n, BIT_TST, BitsFrom

\* Every bit of POISONED is set, none of 0.
LEMMA ByteTest ==
  ASSUME NEW i \in 0 .. 7
  PROVE  BIT_TST(POISONED, i) /\ ~BIT_TST(0, i)
<1> DEFINE n == 7 - i
<1>1. n \in 0 .. 7
  OBVIOUS
<1> HIDE DEF n
<1>2. IsPower(n, 2 ^ n)
  BY <1>1, Powers
<1>3. \A p : IsPower(n, p) => (255 \div p) % 2 = 1 /\ (0 \div p) % 2 # 1
  BY DEF IsPower
<1>4. (255 \div 2 ^ n) % 2 = 1 /\ (0 \div 2 ^ n) % 2 # 1
  BY <1>2, <1>3, Zenon
<1> QED
  BY <1>4 DEF n, BIT_TST, POISONED

\* Words --------------------------------------------------------------------------------

\* A block from L to the end of the right zone that begins at R, with at least one byte
\* for the application.
IsRange(L, R) ==
  /\ L \in Nat /\ R \in Nat /\ L % 8 = 0
  /\ L + RZ < R /\ R + RZ <= Arena

\* The words of the left zone, the full words of the application's bytes, the word the
\* application's last bytes share with the right zone, and the other words of the right
\* zone that registerAddr writes.
LeftWord(L, w) == L \div 8 <= w /\ w < L \div 8 + RZ \div 8
AppWord(L, R, w) == L \div 8 + RZ \div 8 <= w /\ w < R \div 8
PartialWord(R, w) == w = R \div 8 /\ R % 8 # 0
RightWord(R, w) == R \div 8 <= w /\ w < R \div 8 + RZ \div 8 /\ ~PartialWord(R, w)

PartialMark(b, R) == IF b.ASANCheck THEN R % 8 ELSE BitsFrom(R % 8)

\* The shadow memory of the block is as registerAddr leaves it.
Marked(sh, b, L, R) ==
  \A w \in Words :
    /\ LeftWord(L, w) => sh[w] = POISONED
    /\ AppWord(L, R, w) => sh[w] = 0
    /\ PartialWord(R, w) => sh[w] = PartialMark(b, R)
    /\ RightWord(R, w) => sh[w] = POISONED

Written(L, R, w) ==
  LeftWord(L, w) \/ AppWord(L, R, w) \/ PartialWord(R, w) \/ RightWord(R, w)

\* registerAddr marks the block and writes no other word.
LEMMA RegisterMarks ==
  ASSUME NEW sh, NEW b, NEW L, NEW R, IsRange(L, R)
  PROVE  LET s == registerAddr(sh, b, L, R) IN
         /\ DOMAIN s = Words
         /\ Marked(s, b, L, R)
         /\ \A w \in Words : ~Written(L, R, w) => s[w] = sh[w]
<1> DEFINE l == L \div 8
           z == RZ \div 8
           r == R \div 8
           k == R % 8
           sz == R - L - RZ
<1>1. /\ l \in Nat /\ z \in Nat \ {0} /\ r \in Nat /\ k \in 0 .. 7
      /\ (L + RZ) \div 8 = l + z /\ sz % 8 = k /\ sz \div 8 = r - l - z /\ l + z <= r
  BY ZoneAssumption DEF IsRange
<1> HIDE DEF l, z, r, k, sz
<1> DEFINE s == registerAddr(sh, b, L, R)
<1>2. s = [w \in Words |->
             IF k # 0 /\ w = r THEN PartialMark(b, R)
             ELSE IF l + z <= w /\ w < r THEN 0
             ELSE IF r <= w /\ w < r + z THEN POISONED
             ELSE IF l <= w /\ w < l + z THEN POISONED
             ELSE sh[w]]
  <2> DEFINE zoneL == memset(sh, l, POISONED, z)
             zoneR == memset(zoneL, r, POISONED, z)
             region == memset(zoneR, l + z, 0, r - l - z)
             partial == memset(region, r, PartialMark(b, R), 1)
  <2>1. l + z + (r - l - z) = r
    BY <1>1
  <2>2. /\ getShadowMemoryAddress(L) = l /\ getShadowMemoryAddress(R) = r
        /\ getShadowMemoryAddress(L + RZ) = l + z /\ RZ \div 8 = z
        /\ (R - L - RZ) % 8 = k /\ (R - L - RZ) \div 8 = r - l - z
        /\ (IF b.ASANCheck THEN k ELSE BitsFrom(k)) = PartialMark(b, R)
    BY <1>1 DEF getShadowMemoryAddress, PartialMark, l, z, r, k, sz
  <2>3. s = IF k = 0 THEN region ELSE partial
    BY <2>1, <2>2, Zenon DEF registerAddr
  <2>4. /\ zoneL = [w \in Words |-> IF l <= w /\ w < l + z THEN POISONED ELSE sh[w]]
        /\ zoneR = [w \in Words |-> IF r <= w /\ w < r + z THEN POISONED ELSE zoneL[w]]
        /\ region = [w \in Words |-> IF l + z <= w /\ w < r THEN 0 ELSE zoneR[w]]
        /\ partial = [w \in Words |-> IF w = r THEN PartialMark(b, R) ELSE region[w]]
    BY <1>1 DEF memset, Words
  <2> HIDE DEF s, zoneL, zoneR, region, partial
  <2> QED
    BY <1>1, <2>3, <2>4
<1> HIDE DEF s
<1>3. Words \subseteq Nat
  BY DEF Words
<1>4. \A w \in Words :
        /\ LeftWord(L, w) <=> l <= w /\ w < l + z
        /\ AppWord(L, R, w) <=> l + z <= w /\ w < r
        /\ PartialWord(R, w) <=> w = r /\ k # 0
        /\ RightWord(R, w) <=> r <= w /\ w < r + z /\ ~(w = r /\ k # 0)
  BY DEF LeftWord, AppWord, PartialWord, RightWord, l, r, k, z
<1>5. Marked(s, b, L, R)
  BY <1>1, <1>2, <1>3, <1>4 DEF Marked
<1>6. \A w \in Words : ~Written(L, R, w) => s[w] = sh[w]
  BY <1>1, <1>2, <1>3, <1>4 DEF Written
<1> QED
  BY <1>2, <1>5, <1>6 DEF s

\* A block is marked exactly when registerAddr would change nothing.
LEMMA MarkedIsFixed ==
  ASSUME NEW sh, NEW b, NEW L, NEW R, IsRange(L, R)
  PROVE  Marked(sh, b, L, R) <=>
           \A w \in getShadowMemoryAddress(L) .. getShadowMemoryAddress(R + RZ - 1) :
              sh[w] = registerAddr(sh, b, L, R)[w]
<1> DEFINE s == registerAddr(sh, b, L, R)
           Span == getShadowMemoryAddress(L) .. getShadowMemoryAddress(R + RZ - 1)
<1>1. /\ Marked(s, b, L, R)
      /\ \A w \in Words : ~Written(L, R, w) => s[w] = sh[w]
  BY RegisterMarks
<1>2. Span \subseteq Words /\ \A w \in Words : Written(L, R, w) => w \in Span
  BY ZoneAssumption, ArenaAssumption
  DEF IsRange, Words, getShadowMemoryAddress, Written, LeftWord, AppWord, PartialWord, RightWord
<1> HIDE DEF s, Span
<1>3. \A w \in Words : Written(L, R, w) /\ sh[w] = s[w] =>
        /\ LeftWord(L, w) => sh[w] = POISONED
        /\ AppWord(L, R, w) => sh[w] = 0
        /\ PartialWord(R, w) => sh[w] = PartialMark(b, R)
        /\ RightWord(R, w) => sh[w] = POISONED
  BY <1>1 DEF Marked
<1>4. (\A w \in Span : sh[w] = s[w]) => Marked(sh, b, L, R)
  BY <1>2, <1>3 DEF Marked, Written
<1>5. Marked(sh, b, L, R) => \A w \in Span : sh[w] = s[w]
  BY <1>1, <1>2 DEF Marked, Written
<1> QED
  BY <1>4, <1>5 DEF s, Span

\* A chunk of memory of whole words that begins at M and ends before M + U.
IsChunk(M, U) == M \in Nat /\ U \in Nat /\ M % 8 = 0 /\ U % 8 = 0 /\ M + U <= Arena
ChunkWord(M, U, w) == M \div 8 <= w /\ w < (M + U) \div 8

\* removeAddr resets every word of the chunk and writes no other.
LEMMA RemoveFrees ==
  ASSUME NEW sh, NEW M, NEW U, IsChunk(M, U), 2 * RZ <= U
  PROVE  LET s == removeAddr(sh, M, U) IN
         /\ DOMAIN s = Words
         /\ \A w \in Words : s[w] = IF ChunkWord(M, U, w) THEN FREED ELSE sh[w]
<1>1. M \div 8 + (2 * (RZ \div 8) + (U - 2 * RZ + 7) \div 8) = (M + U) \div 8
  BY ZoneAssumption DEF IsChunk
<1>2. \A w \in Words :
        w \in M \div 8 .. (M \div 8 + (2 * (RZ \div 8) + (U - 2 * RZ + 7) \div 8) - 1)
          <=> ChunkWord(M, U, w)
  BY <1>1, ZoneAssumption DEF IsChunk, ChunkWord, Words
<1> QED
  BY <1>2, Zenon DEF removeAddr, memset, getShadowMemoryAddress

\* The words a block is marked in are words of its chunk.
LEMMA WrittenInChunk ==
  ASSUME NEW M, NEW U, NEW R, IsChunk(M, U), IsRange(M, R), R + RZ <= M + U
  PROVE  \A w \in Words : Written(M, R, w) => ChunkWord(M, U, w)
BY ZoneAssumption
DEF IsRange, IsChunk, ChunkWord, Words, Written, LeftWord, AppWord, PartialWord, RightWord

\* Chunks without a byte in common have no word in common.
LEMMA ChunksApart ==
  ASSUME NEW M, NEW U, NEW N, NEW V, IsChunk(M, U), IsChunk(N, V),
         (M .. (M + U - 1)) \cap (N .. (N + V - 1)) = {}
  PROVE  \A w \in Words : ~(ChunkWord(M, U, w) /\ ChunkWord(N, V, w))
<1> SUFFICES ASSUME NEW w \in Words, ChunkWord(M, U, w), ChunkWord(N, V, w) PROVE FALSE
  OBVIOUS
<1>1. 8 * w \in M .. (M + U - 1) /\ 8 * w \in N .. (N + V - 1)
  BY DEF ChunkWord, IsChunk, Words
<1> QED
  BY <1>1

\* Answers ------------------------------------------------------------------------------

\* An access to the application's bytes of a marked block is accepted.
LEMMA MarkedAccepts ==
  ASSUME NEW sh, NEW b \in Build, NEW L, NEW R, IsRange(L, R),
         Marked(sh, b, L, R),
         NEW a \in (L + RZ) .. (R - 1), NEW n \in 1 .. (R - a)
  PROVE  checkRegistration(sh, b, a, n) = 0
<1> DEFINE v == a \div 8
           i == a % 8
           last == a + n - 1
           vLast == last \div 8
           iLast == last % 8
<1>1. /\ v \in Words /\ vLast \in Words /\ v <= vLast
      /\ i \in 0 .. 7 /\ iLast \in 0 .. 7
      /\ AppWord(L, R, v) \/ PartialWord(R, v)
      /\ AppWord(L, R, vLast) \/ PartialWord(R, vLast)
      /\ PartialWord(R, v) => i + n <= R % 8
      /\ PartialWord(R, vLast) => iLast + 1 <= R % 8
      /\ R % 8 \in 0 .. 7 /\ (PartialWord(R, v) \/ PartialWord(R, vLast) => R % 8 \in 1 .. 7)
  BY ZoneAssumption, ArenaAssumption DEF IsRange, Words, AppWord, PartialWord
<1> HIDE DEF v, i, last, vLast, iLast
<1>2. /\ AppWord(L, R, v) => sh[v] = 0
      /\ PartialWord(R, v) => sh[v] = PartialMark(b, R)
      /\ AppWord(L, R, vLast) => sh[vLast] = 0
      /\ PartialWord(R, vLast) => sh[vLast] = PartialMark(b, R)
  BY <1>1 DEF Marked
<1>3. CASE b.ASANCheck
  <2>1. /\ sh[v] # 0 => i + n <= sh[v] /\ sh[v] < 8
        /\ sh[vLast] # 0 => iLast + 1 <= sh[vLast] /\ sh[vLast] < 8
        /\ sh[v] \in Nat /\ sh[vLast] \in Nat
    BY <1>1, <1>2, <1>3 DEF PartialMark
  <2>2. /\ sh[v] # 0 => ~(i + n > sh[v]) /\ sh[v] \notin {FREED, POISONED}
        /\ sh[vLast] # 0 => ~(iLast + 1 > sh[vLast]) /\ sh[vLast] \notin {FREED, POISONED}
    BY <1>1, <2>1 DEF FREED, POISONED
  <2> QED
    BY <1>3, <2>2, Zenon DEF checkRegistration, getShadowMemoryAddress, ByteOf, v, i, last, vLast, iLast
<1>4. CASE ~b.ASANCheck
  <2>1. PartialWord(R, v) => ~BIT_TST(sh[v], i)
    BY <1>1, <1>2, <1>4, BitsTest DEF PartialMark
  <2>2. PartialWord(R, vLast) => ~BIT_TST(sh[vLast], iLast)
    BY <1>1, <1>2, <1>4, BitsTest DEF PartialMark
  <2>3. ~BIT_TST(sh[v], i) /\ ~BIT_TST(sh[vLast], iLast)
    BY <1>1, <1>2, <2>1, <2>2, ByteTest
  <2> QED
    BY <1>4, <2>3, Zenon DEF checkRegistration, getShadowMemoryAddress, ByteOf, v, i, last, vLast, iLast
<1> QED
  BY <1>3, <1>4

\* The word of an address and its place in the word.
LEMMA InWord ==
  \A x \in Nat : x \div 8 \in Nat /\ x % 8 \in 0 .. 7 /\ x = 8 * (x \div 8) + (x % 8)
OBVIOUS

\* What the check answers for one byte of a word whose bytes are all inaccessible.
LEMMA PoisonedReports ==
  ASSUME NEW sh, NEW b \in Build, NEW a \in 0 .. (Arena - 1),
         sh[a \div 8] = POISONED
  PROVE  checkRegistration(sh, b, a, 1) = 1
<1> DEFINE v == a \div 8
           i == a % 8
<1>1. i \in 0 .. 7 /\ a + 1 - 1 = a
  OBVIOUS
<1>2. BIT_TST(sh[v], i) /\ sh[v] # 0 /\ sh[v] \in {FREED, POISONED}
  BY <1>1, ByteTest DEF POISONED
<1> HIDE DEF v, i
<1> QED
  BY <1>1, <1>2, Zenon DEF checkRegistration, getShadowMemoryAddress, ByteOf, v, i

\* In the encoding that counts, so are the bytes of a word that was reset.
LEMMA FreedReports ==
  ASSUME NEW sh, NEW b, b.ASANCheck, NEW a \in 0 .. (Arena - 1),
         sh[a \div 8] = FREED
  PROVE  checkRegistration(sh, b, a, 1) = 1
BY DEF checkRegistration, getShadowMemoryAddress, FREED

\* The words of the right zone that registerAddr writes end here.
EndOfMarks(R) == (R \div 8 + RZ \div 8) * 8

\* A byte of a zone of a marked block is reported, and so is an access that begins in
\* the application's bytes and ends in the right zone.
LEMMA MarkedReports ==
  ASSUME NEW sh, NEW b \in Build, NEW L, NEW R, IsRange(L, R),
         Marked(sh, b, L, R)
  PROVE  /\ \A a \in L .. (L + RZ - 1) : checkRegistration(sh, b, a, 1) = 1
         /\ \A z \in R .. (R + RZ - 1) : z < EndOfMarks(R) =>
              /\ checkRegistration(sh, b, z, 1) = 1
              /\ \A a \in (L + RZ) .. (R - 1) :
                   checkRegistration(sh, b, a, z - a + 1) = 1
<1>1. ASSUME NEW a \in L .. (L + RZ - 1)
      PROVE  checkRegistration(sh, b, a, 1) = 1
  <2>1. a \in 0 .. (Arena - 1) /\ a \div 8 \in Words /\ LeftWord(L, a \div 8)
    BY ZoneAssumption, ArenaAssumption DEF IsRange, Words, LeftWord
  <2> QED
    BY <2>1, PoisonedReports DEF Marked
<1>2. ASSUME NEW a, NEW n \in Nat, NEW z \in R .. (R + RZ - 1), z < EndOfMarks(R),
             n >= 1, z = a + n - 1,
             a = z \/ a \in (L + RZ) .. (R - 1)
      PROVE  checkRegistration(sh, b, a, n) = 1
  <2> DEFINE v == a \div 8
             i == a % 8
             w == z \div 8
             j == z % 8
  <2>1. /\ L \in Nat /\ R \in Nat /\ RZ \in Nat /\ z \in Nat /\ R <= z /\ z < Arena
    BY <1>2, ZoneAssumption, ArenaAssumption DEF IsRange
  <2>2. a \in Nat /\ a <= z /\ (a = z \/ (L + RZ <= a /\ a < R)) /\ a + n - 1 = z
    BY <1>2, <2>1
  <2>3. /\ a \in Nat /\ z \in Nat /\ a + n - 1 = z /\ z < Arena /\ a <= z
        /\ i \in 0 .. 7 /\ j \in 0 .. 7 /\ R % 8 \in 0 .. 7 /\ v \in Nat /\ w \in Nat
        /\ a = 8 * v + i /\ z = 8 * w + j /\ R = 8 * (R \div 8) + (R % 8)
        /\ a = z \/ (L + RZ <= a /\ a < R)
    BY <2>1, <2>2, InWord
  <2>4. /\ v \in Words /\ w \in Words /\ v \in Nat /\ i \in 0 .. 7 /\ j \in 0 .. 7
        /\ RightWord(R, w) \/ PartialWord(R, w)
        /\ PartialWord(R, w) => j >= R % 8
        /\ AppWord(L, R, v) \/ PartialWord(R, v) \/ (a = z /\ RightWord(R, v))
        /\ PartialWord(R, v) => i + n > R % 8
        /\ R % 8 \in 0 .. 7 /\ (PartialWord(R, v) \/ PartialWord(R, w) => R % 8 \in 1 .. 7)
        /\ a # z => n > 1
        /\ a = z => v = w
        /\ a \in Nat /\ a + n - 1 = z
    <3>1. v \in Words /\ w \in Words
      BY <2>3, ArenaAssumption DEF Words
    <3>2. R \div 8 <= w /\ w < R \div 8 + RZ \div 8
      BY <1>2, <2>3, ZoneAssumption DEF EndOfMarks, IsRange
    <3>3. RightWord(R, w) \/ PartialWord(R, w)
      BY <3>2 DEF RightWord
    <3>4. PartialWord(R, w) => j >= R % 8
      BY <1>2, <2>3 DEF PartialWord, IsRange
    <3>5. a # z => AppWord(L, R, v) \/ PartialWord(R, v)
      BY <2>3, ZoneAssumption DEF AppWord, PartialWord, IsRange
    <3>6. a = z => v = w
      OBVIOUS
    <3>7. PartialWord(R, v) => i + n > R % 8
      BY <1>2, <2>3 DEF PartialWord, IsRange
    <3>8. PartialWord(R, v) \/ PartialWord(R, w) => R % 8 \in 1 .. 7
      BY <2>3 DEF PartialWord
    <3>9. a # z => n > 1
      BY <1>2, <2>3
    <3> HIDE DEF v, i, w, j
    <3> QED
      BY <2>3, <3>1, <3>3, <3>4, <3>5, <3>6, <3>7, <3>8, <3>9
  <2> HIDE DEF v, i, w, j
  <2>5. /\ AppWord(L, R, v) => sh[v] = 0
        /\ PartialWord(R, v) => sh[v] = PartialMark(b, R)
        /\ RightWord(R, v) => sh[v] = POISONED
        /\ RightWord(R, w) => sh[w] = POISONED
        /\ PartialWord(R, w) => sh[w] = PartialMark(b, R)
    BY <2>4 DEF Marked
  <2>6. CASE b.ASANCheck
    <3>1. /\ sh[v] # 0 => i + n > sh[v] \/ sh[v] \in {FREED, POISONED}
          /\ sh[v] = 0 =>
               /\ n > 1 /\ sh[w] # 0
               /\ sh[w] \in {FREED, POISONED} \/ j + 1 > sh[w]
      BY <2>4, <2>5, <2>6 DEF PartialMark, POISONED
    <3> QED
      BY <2>4, <2>6, <3>1, Zenon DEF checkRegistration, getShadowMemoryAddress, ByteOf, v, i, w, j
  <2>7. CASE ~b.ASANCheck
    <3>1. BIT_TST(sh[w], j)
      BY <2>4, <2>5, <2>7, BitsTest, ByteTest DEF PartialMark
    <3> QED
      BY <2>4, <2>7, <3>1, Zenon DEF checkRegistration, getShadowMemoryAddress, ByteOf, v, i, w, j
  <2> QED
    BY <2>6, <2>7
<1>3. ASSUME NEW z \in R .. (R + RZ - 1), z < EndOfMarks(R)
      PROVE  /\ checkRegistration(sh, b, z, 1) = 1
             /\ \A a \in (L + RZ) .. (R - 1) :
                  checkRegistration(sh, b, a, z - a + 1) = 1
  <2>1. z \in Nat /\ z = z + 1 - 1
    BY <1>3 DEF IsRange
  <2>2. checkRegistration(sh, b, z, 1) = 1
    BY <1>2, <1>3, <2>1
  <2>3. ASSUME NEW a \in (L + RZ) .. (R - 1)
        PROVE  checkRegistration(sh, b, a, z - a + 1) = 1
    <3>1. z - a + 1 \in Nat /\ z - a + 1 >= 1 /\ z = a + (z - a + 1) - 1
      BY <1>3, ZoneAssumption DEF IsRange
    <3> QED
      BY <1>2, <1>3, <3>1
  <2> QED
    BY <2>2, <2>3
<1> QED
  BY <1>1, <1>3

\* The threads -------------------------------------------------------------------------

\* The variables hold values of their types, and a call has the blocks it is about.
Types ==
  /\ build \in Builds
  /\ heap \subseteq Block /\ live \subseteq heap /\ freed \subseteq 0 .. (Arena - 1)
  /\ pc \in [Thread -> PC]
  /\ blk \in [Thread -> Block \cup {NoBlock}] /\ old \in [Thread -> Block \cup {NoBlock}]
  /\ \A t \in Thread :
       /\ pc[t] = "idle" => blk[t] = NoBlock /\ old[t] = NoBlock
       /\ pc[t] \in {"pattern", "register", "return", "move"} => blk[t] # NoBlock
       /\ pc[t] \in {"move", "remove", "release"} => old[t] # NoBlock

\* The call of the thread has yet to give its old block back.
Frees(t) == old[t] # NoBlock /\ pc[t] # "return"

\* The block a call allocates is its own: no other call allocates or frees it, and the
\* program does not hold it yet.  The block a call frees is no other call's, and the
\* program holds it until the call is about to reset its shadow memory.
Owned ==
  /\ \A t \in Thread : blk[t] # NoBlock => blk[t] \in heap \ live
  /\ \A t \in Thread : Frees(t) =>
       /\ old[t] \in heap
       /\ old[t] \in live <=> pc[t] \in {"pattern", "register", "move"}
  /\ \A t, u \in Thread :
       /\ blk[t] # NoBlock /\ Frees(u) => blk[t] # old[u]
       /\ t # u /\ blk[t] # NoBlock => blk[t] # blk[u]
       /\ t # u /\ Frees(t) /\ Frees(u) => old[t] # old[u]

\* The system's chunks overlap neither each other nor what was given back.
Apart ==
  /\ \A b, c \in heap : b # c => ~Overlap(b, c)
  /\ \A b \in heap : Chunk(b) \cap freed = {}

\* The block is not registered yet; its shadow memory was reset.
Fresh(b) == \E t \in Thread : blk[t] = b /\ pc[t] \in {"pattern", "register"}
Reset(b) == \E t \in Thread : old[t] = b /\ pc[t] = "release"

InBlock(b, w) == ChunkWord(b.M, b.U, w)
AllFreed(b) == \A w \in Words : InBlock(b, w) => shadow[w] = FREED

\* The shadow memory of a block in use is as registerAddr leaves it, from the
\* registration to the reset; every word of a block whose shadow memory was reset, or
\* of memory that was given back, says so; and no other word is marked.
Content == build.useRegistration =>
  /\ \A b \in heap : ~Fresh(b) /\ ~Reset(b) => Marked(shadow, build, b.M, b.R)
  /\ \A b \in heap : Reset(b) => AllFreed(b)
  /\ \A a \in freed : shadow[a \div 8] = FREED
  /\ \A w \in Words : (\A b \in heap : InBlock(b, w) => Fresh(b)) => shadow[w] \in {0, FREED}

HInv == Types /\ Owned /\ Apart /\ Content

\* Blocks -------------------------------------------------------------------------------

\* A block is a chunk of whole words, with both zones inside.
LEMMA BlockFacts ==
  ASSUME NEW b \in Block
  PROVE  /\ IsChunk(b.M, b.U) /\ IsRange(b.M, b.R)
         /\ 2 * RZ <= b.U /\ b.R + RZ <= b.M + b.U
         /\ b # NoBlock
<1>1. IsBlock(b)
  BY BlockAssumption
<1>2. b.R \in Nat /\ b.R > 0 /\ b.M \in Nat
  BY <1>1, ZoneAssumption, ArenaAssumption DEF IsBlock
<1>3. b # NoBlock
  BY <1>2 DEF NoBlock
<1> QED
  BY <1>1, <1>2, <1>3, ZoneAssumption, ArenaAssumption DEF IsBlock, IsChunk, IsRange

\* The bytes of a chunk.
LEMMA ChunkBytes == ASSUME NEW b \in Block PROVE Chunk(b) = b.M .. (b.M + b.U - 1)
BY BlockFacts DEF IsChunk, Chunk, Bytes

\* The word of an address is a chunk's exactly when the address is.
LEMMA ByteInBlock ==
  ASSUME NEW b \in Block, NEW a \in 0 .. (Arena - 1)
  PROVE  a \div 8 \in Words /\ (InBlock(b, a \div 8) <=> a \in Chunk(b))
<1>1. IsChunk(b.M, b.U) /\ Chunk(b) = b.M .. (b.M + b.U - 1)
  BY BlockFacts, ChunkBytes
<1>2. /\ b.M \in Nat /\ b.U \in Nat /\ b.M % 8 = 0 /\ b.U % 8 = 0
      /\ b.M + b.U <= Arena
  BY <1>1 DEF IsChunk
<1>3. a \div 8 \in Words
  BY ArenaAssumption DEF Words
<1>4. b.M <= a /\ a < b.M + b.U <=> b.M \div 8 <= a \div 8 /\ a \div 8 < (b.M + b.U) \div 8
  BY <1>2
<1> QED
  BY <1>1, <1>2, <1>3, <1>4 DEF InBlock, ChunkWord

\* The bytes of a chunk are bytes of the arena.
LEMMA ChunkInArena == ASSUME NEW b \in Block PROVE Chunk(b) \subseteq 0 .. (Arena - 1)
<1>1. Chunk(b) = b.M .. (b.M + b.U - 1)
  BY ChunkBytes
<1>2. b.M \in Nat /\ b.U \in Nat /\ b.M + b.U <= Arena
  BY BlockFacts DEF IsChunk
<1> QED
  BY <1>1, <1>2, ArenaAssumption

\* Blocks that do not overlap have no word in common.
LEMMA BlocksApart ==
  ASSUME NEW b \in Block, NEW c \in Block, ~Overlap(b, c)
  PROVE  \A w \in Words : ~(InBlock(b, w) /\ InBlock(c, w))
<1>1. IsChunk(b.M, b.U) /\ IsChunk(c.M, c.U)
  BY BlockFacts
<1>2. Chunk(b) = b.M .. (b.M + b.U - 1) /\ Chunk(c) = c.M .. (c.M + c.U - 1)
  BY ChunkBytes
<1>3. (b.M .. (b.M + b.U - 1)) \cap (c.M .. (c.M + c.U - 1)) = {}
  BY <1>2 DEF Overlap
<1> QED
  BY <1>1, <1>3, ChunksApart DEF InBlock

\* A block overlaps itself.
LEMMA SelfOverlap == \A b \in Block : Overlap(b, b)
<1> SUFFICES ASSUME NEW b \in Block PROVE Overlap(b, b)
  OBVIOUS
<1>1. b.M \in b.M .. (b.M + b.U - 1)
  BY BlockFacts, ZoneAssumption DEF IsChunk
<1> QED
  BY <1>1, ChunkBytes DEF Overlap

\* Whether a block is marked depends on its own words.
LEMMA MarksInBlock ==
  ASSUME NEW b \in Block, NEW s, NEW s2, NEW bld,
         \A w \in Words : InBlock(b, w) => s2[w] = s[w],
         Marked(s, bld, b.M, b.R)
  PROVE  Marked(s2, bld, b.M, b.R)
<1>1. \A w \in Words : Written(b.M, b.R, w) => s2[w] = s[w]
  BY BlockFacts, WrittenInChunk DEF InBlock
<1> QED
  BY <1>1 DEF Marked, Written

\* registerAddr for a block marks it and leaves all other blocks' words alone.
LEMMA RegisterBlock ==
  ASSUME NEW b \in Block, NEW s, NEW bld
  PROVE  LET s2 == registerAddr(s, bld, b.M, b.R) IN
         /\ Marked(s2, bld, b.M, b.R)
         /\ \A w \in Words : ~InBlock(b, w) => s2[w] = s[w]
BY BlockFacts, RegisterMarks, WrittenInChunk DEF InBlock

\* removeAddr for a block resets its words and leaves all others alone.
LEMMA RemoveBlock ==
  ASSUME NEW b \in Block, NEW s
  PROVE  LET s2 == removeAddr(s, b.M, b.U) IN
         \A w \in Words : s2[w] = IF InBlock(b, w) THEN FREED ELSE s[w]
BY BlockFacts, RemoveFrees DEF InBlock

\* Steps --------------------------------------------------------------------------------

\* The program is correct before any call.
LEMMA InitInv == Init => HInv
<1> SUFFICES ASSUME Init PROVE HInv
  OBVIOUS
<1>1. Types /\ Owned /\ Apart
  BY DEF Init, Types, Owned, Apart, Frees, PC
<1>2. Content
  BY DEF Init, Content, Untouched, Fresh, Reset
<1> QED
  BY <1>1, <1>2 DEF HInv

\* A new chunk belongs to the call that obtained it.
LEMMA ObtainInv ==
  ASSUME HInv, NEW t \in Thread, NEW b \in Block, At(t, "idle"), Obtain(t, b),
         UNCHANGED <<build, shadow, live>>,
         \/ old' = [old EXCEPT ![t] = NoBlock]
         \/ \E c \in Block : Unshared(c) /\ old' = [old EXCEPT ![t] = c]
  PROVE  HInv'
<1> USE DEF HInv
<1>1. /\ pc[t] = "idle" /\ blk[t] = NoBlock /\ old[t] = NoBlock
      /\ \E p \in {"pattern", "register"} : pc' = [pc EXCEPT ![t] = p]
      /\ blk' = [blk EXCEPT ![t] = b] /\ heap' = heap \cup {b}
      /\ \A c \in heap : ~Overlap(b, c)
      /\ freed' = freed \ Chunk(b)
  BY DEF At, Obtain, Goto, Types
<1>2. b \notin heap /\ b # NoBlock
  BY <1>1, SelfOverlap, BlockFacts
<1>3. Types'
  BY <1>1, <1>2, BlockFacts DEF Types, PC, Unshared
<1>4. Owned'
  BY <1>1, <1>2, BlockFacts DEF Owned, Types, Frees, Unshared, At
<1>5. Apart'
  BY <1>1 DEF Apart, Overlap
<1>6. \A c : (Fresh(c)' <=> c = b \/ Fresh(c)) /\ (Reset(c)' <=> Reset(c))
  BY <1>1, <1>2 DEF Fresh, Reset, Types
<1>7. Content'
  <2> SUFFICES ASSUME build.useRegistration
               PROVE  /\ \A c \in heap' : ~Fresh(c)' /\ ~Reset(c)' => Marked(shadow, build, c.M, c.R)
                      /\ \A c \in heap' : Reset(c)' => AllFreed(c)
                      /\ \A a \in freed' : shadow[a \div 8] = FREED
                      /\ \A w \in Words : (\A c \in heap' : InBlock(c, w) => Fresh(c)')
                                         => shadow[w] \in {0, FREED}
    BY DEF Content, AllFreed
  <2>1. \A c \in heap' : ~Fresh(c)' /\ ~Reset(c)' => Marked(shadow, build, c.M, c.R)
    BY <1>1, <1>6 DEF Content
  <2>2. \A c \in heap' : Reset(c)' => AllFreed(c)
    <3>1. ~Reset(b)
      BY <1>2 DEF Reset, Owned, Frees
    <3> QED
      BY <1>1, <1>6, <3>1 DEF Content
  <2>3. \A a \in freed' : shadow[a \div 8] = FREED
    BY <1>1 DEF Content
  <2>4. ASSUME NEW w \in Words, \A c \in heap' : InBlock(c, w) => Fresh(c)'
        PROVE  shadow[w] \in {0, FREED}
    <3>1. \A c \in heap : InBlock(c, w) => Fresh(c)
      BY <1>1, <1>2, <1>6, <2>4
    <3> QED
      BY <3>1 DEF Content
  <2> QED
    BY <2>1, <2>2, <2>3, <2>4
<1> QED
  BY <1>3, <1>4, <1>5, <1>7

\* Steps of a call that write no shadow memory and give no chunk back.
LEMMA QuietInv ==
  ASSUME HInv, NEW t \in Thread,
         UNCHANGED <<build, shadow, heap, freed, blk, old>>,
         \/ /\ pc[t] = "pattern" /\ pc' = [pc EXCEPT ![t] = "register"] /\ live' = live
         \/ /\ pc[t] = "move" /\ pc' = [pc EXCEPT ![t] = "remove"] /\ live' = live \ {old[t]}
  PROVE  HInv'
<1> USE DEF HInv
<1>1. Types'
  BY DEF Types, PC
<1>2. Owned'
  BY DEF Owned, Types, Frees
<1>3. Apart'
  BY DEF Apart, Overlap
<1>4. \A c : (Fresh(c)' <=> Fresh(c)) /\ (Reset(c)' <=> Reset(c))
  BY DEF Fresh, Reset, Types
<1>5. Content'
  BY <1>4 DEF Content, AllFreed
<1> QED
  BY <1>1, <1>2, <1>3, <1>5

\* The program takes a block over.
LEMMA ReturnInv ==
  ASSUME HInv, NEW t \in Thread, At(t, "return"), Leave(t), live' = live \cup {blk[t]},
         UNCHANGED <<build, shadow, heap, freed>>
  PROVE  HInv'
<1> USE DEF HInv
<1>1. /\ pc[t] = "return" /\ pc' = [pc EXCEPT ![t] = "idle"]
      /\ blk' = [blk EXCEPT ![t] = NoBlock] /\ old' = [old EXCEPT ![t] = NoBlock]
  BY DEF At, Leave, Goto
<1>2. Types'
  BY <1>1 DEF Types, PC, Owned
<1>3. Owned'
  BY <1>1 DEF Owned, Types, Frees
<1>4. Apart'
  BY DEF Apart, Overlap
<1>5. \A c \in heap : (Fresh(c)' <=> Fresh(c)) /\ (Reset(c)' <=> Reset(c))
  BY <1>1, BlockFacts DEF Fresh, Reset, Types
<1>6. Content'
  BY <1>5 DEF Content, AllFreed
<1> QED
  BY <1>2, <1>3, <1>4, <1>6

\* A call takes a block back.
LEMMA FreeInv ==
  ASSUME HInv, NEW t \in Thread, NEW b \in Block, Dlib_free(t, b)
  PROVE  HInv'
<1> USE DEF HInv
<1>1. /\ pc[t] = "idle" /\ pc' = [pc EXCEPT ![t] = "remove"]
      /\ blk' = [blk EXCEPT ![t] = NoBlock] /\ old' = [old EXCEPT ![t] = b]
      /\ b \in live /\ live' = live \ {b}
      /\ \A u \in Thread : old[u] = b => pc[u] = "return"
      /\ UNCHANGED <<build, shadow, heap, freed>>
  BY DEF At, Dlib_free, Goto, Unshared
<1>2. Types'
  BY <1>1, BlockFacts DEF Types, PC
<1>3. Owned'
  BY <1>1, BlockFacts DEF Owned, Types, Frees
<1>4. Apart'
  BY <1>1 DEF Apart, Overlap
<1>5. \A c \in heap : (Fresh(c)' <=> Fresh(c)) /\ (Reset(c)' <=> Reset(c))
  BY <1>1, BlockFacts DEF Fresh, Reset, Types
<1>6. Content'
  BY <1>1, <1>5 DEF Content, AllFreed
<1> QED
  BY <1>2, <1>3, <1>4, <1>6

\* A block is registered: its own words are marked, the others stay.
LEMMA RegisterInv ==
  ASSUME HInv, NEW t \in Thread, Register(t)
  PROVE  HInv'
<1> USE DEF HInv
<1>1. /\ pc[t] = "register"
      /\ \E p \in {"return", "move"} :
           pc' = [pc EXCEPT ![t] = p] /\ (p = "return" <=> old[t] = NoBlock)
      /\ UNCHANGED <<build, heap, live, freed, blk, old>>
  BY DEF Register, At, Goto, frames
<1>2. Types'
  BY <1>1 DEF Types, PC
<1>3. Owned'
  BY <1>1 DEF Owned, Types, Frees
<1>4. Apart'
  BY <1>1 DEF Apart, Overlap
<1>5. PICK b \in Block : b = blk[t] /\ b \in heap /\ Fresh(b)
  BY <1>1 DEF Types, Owned, Fresh
<1>6. \A c : /\ c # b => (Fresh(c)' <=> Fresh(c))
             /\ Reset(c)' <=> Reset(c)
  BY <1>1, <1>5 DEF Fresh, Reset, Types
<1>7. ~Fresh(b)' /\ ~Reset(b)'
  BY <1>1, <1>5 DEF Fresh, Reset, Types, Owned, Frees
<1>8. Content'
  <2> SUFFICES ASSUME build.useRegistration PROVE Content'
    BY <1>1 DEF Content
  <2>1. /\ Marked(shadow', build, b.M, b.R)
        /\ \A w \in Words : ~InBlock(b, w) => shadow'[w] = shadow[w]
    BY <1>5, RegisterBlock, ZenonT(60) DEF Register
  <2>2. \A c \in heap : c # b => \A w \in Words : InBlock(c, w) => shadow'[w] = shadow[w]
    BY <1>5, <2>1, BlocksApart DEF Types, Apart
  <2>3. \A a \in freed : shadow'[a \div 8] = shadow[a \div 8]
    BY <1>5, <2>1, ByteInBlock DEF Types, Apart
  <2>4. \A c \in heap : ~Fresh(c)' /\ ~Reset(c)' => Marked(shadow', build, c.M, c.R)
    BY <1>6, <2>1, <2>2, MarksInBlock DEF Types, Content
  <2>5. \A c \in heap : Reset(c)' => AllFreed(c)'
    BY <1>6, <1>7, <2>2 DEF Content, AllFreed
  <2>6. \A a \in freed : shadow'[a \div 8] = FREED
    BY <2>3 DEF Content
  <2>7. ASSUME NEW w \in Words, \A c \in heap : InBlock(c, w) => Fresh(c)'
        PROVE  shadow'[w] \in {0, FREED}
    <3>1. ~InBlock(b, w)
      BY <1>5, <1>7, <2>7
    <3>2. \A c \in heap : InBlock(c, w) => Fresh(c)
      BY <1>6, <2>7, <3>1
    <3> QED
      BY <2>1, <3>1, <3>2 DEF Content
  <2> QED
    BY <1>1, <2>4, <2>5, <2>6, <2>7 DEF Content
<1> QED
  BY <1>2, <1>3, <1>4, <1>8

\* The shadow memory of a block is reset.
LEMMA RemoveInv ==
  ASSUME HInv, NEW t \in Thread, Remove(t)
  PROVE  HInv'
<1> USE DEF HInv
<1>1. /\ pc[t] = "remove" /\ pc' = [pc EXCEPT ![t] = "release"]
      /\ UNCHANGED <<build, heap, live, freed, blk, old>>
  BY DEF Remove, At, Goto, frames
<1>2. Types'
  BY <1>1 DEF Types, PC
<1>3. Owned'
  BY <1>1 DEF Owned, Types, Frees
<1>4. Apart'
  BY <1>1 DEF Apart, Overlap
<1> DEFINE b == old[t]
<1>5. b \in Block /\ b \in heap /\ ~Fresh(b) /\ ~Reset(b)
  BY <1>1 DEF Types, Owned, Frees, Fresh, Reset
<1>6. \A c : /\ Fresh(c)' <=> Fresh(c)
             /\ Reset(c)' <=> c = b \/ Reset(c)
  BY <1>1 DEF Fresh, Reset, Types
<1>7. Content'
  <2> SUFFICES ASSUME build.useRegistration PROVE Content'
    BY <1>1 DEF Content
  <2>1. \A w \in Words : shadow'[w] = IF InBlock(b, w) THEN FREED ELSE shadow[w]
    BY <1>5, RemoveBlock DEF Remove
  <2>2. \A c \in heap : c # b => \A w \in Words : InBlock(c, w) => shadow'[w] = shadow[w]
    BY <1>5, <2>1, BlocksApart DEF Types, Apart
  <2>3. \A a \in freed : shadow'[a \div 8] = shadow[a \div 8]
    BY <1>5, <2>1, ByteInBlock DEF Types, Apart
  <2> HIDE DEF b
  <2>4. \A c \in heap : ~Fresh(c)' /\ ~Reset(c)' => Marked(shadow', build, c.M, c.R)
    BY <1>6, <2>2, MarksInBlock DEF Types, Content
  <2>5. \A c \in heap : Reset(c)' => AllFreed(c)'
    BY <1>6, <2>1, <2>2 DEF Content, AllFreed
  <2>6. \A a \in freed : shadow'[a \div 8] = FREED
    BY <2>3 DEF Content
  <2>7. ASSUME NEW w \in Words, \A c \in heap : InBlock(c, w) => Fresh(c)'
        PROVE  shadow'[w] \in {0, FREED}
    BY <1>6, <2>1, <2>7 DEF Content
  <2> QED
    BY <1>1, <2>4, <2>5, <2>6, <2>7 DEF Content
<1> QED
  BY <1>2, <1>3, <1>4, <1>7

\* A chunk is given back to the system.
LEMMA ReleaseInv ==
  ASSUME HInv, NEW t \in Thread, Release(t)
  PROVE  HInv'
<1> USE DEF HInv
<1> DEFINE b == old[t]
<1>1. /\ pc[t] = "release"
      /\ heap' = heap \ {b} /\ freed' = freed \cup Chunk(b)
      /\ \/ /\ blk[t] = NoBlock /\ pc' = [pc EXCEPT ![t] = "idle"]
            /\ blk' = [blk EXCEPT ![t] = NoBlock] /\ old' = [old EXCEPT ![t] = NoBlock]
         \/ /\ blk[t] # NoBlock /\ pc' = [pc EXCEPT ![t] = "return"]
            /\ UNCHANGED <<blk, old>>
      /\ UNCHANGED <<build, shadow, live>>
  BY DEF Release, At, Goto, frames, Leave
<1>2. b \in Block /\ b \in heap \ live /\ Reset(b) /\ b # NoBlock
  BY <1>1 DEF Types, Owned, Frees, Reset
<1>3. Types'
  BY <1>1, <1>2, ChunkInArena DEF Types, PC
<1>4. Owned'
  BY <1>1, <1>2 DEF Owned, Types, Frees
<1>5. Apart'
  BY <1>1, <1>2 DEF Apart, Overlap
<1>6. \A c \in heap' : (Fresh(c)' <=> Fresh(c)) /\ (Reset(c)' <=> Reset(c))
  BY <1>1, BlockFacts DEF Fresh, Reset, Types
<1>7. Content'
  <2> SUFFICES ASSUME build.useRegistration PROVE Content'
    BY <1>1 DEF Content
  <2>1. AllFreed(b)
    BY <1>2 DEF Content
  <2> HIDE DEF b
  <2>2. ASSUME NEW w \in Words, \A c \in heap' : InBlock(c, w) => Fresh(c)'
        PROVE  shadow[w] \in {0, FREED}
    <3>1. CASE InBlock(b, w)
      BY <2>1, <3>1 DEF AllFreed
    <3>2. CASE ~InBlock(b, w)
      BY <1>1, <1>6, <2>2, <3>2 DEF Content
    <3> QED
      BY <3>1, <3>2
  <2>3. \A a \in freed' : shadow[a \div 8] = FREED
    BY <1>1, <1>2, <2>1, ByteInBlock, ChunkInArena DEF AllFreed, Content
  <2> QED
    BY <1>1, <1>6, <2>1, <2>2, <2>3 DEF Content, AllFreed
<1> QED
  BY <1>3, <1>4, <1>5, <1>7

\* No step of a thread or of the program breaks it.
LEMMA StepInv == HInv /\ [Next]_vars => HInv'
<1> SUFFICES ASSUME HInv, [Next]_vars PROVE HInv'
  OBVIOUS
<1>1. ASSUME UNCHANGED <<build, shadow, heap, live, freed, pc, blk, old>> PROVE HInv'
  BY <1>1
  DEF HInv, Types, Owned, Frees, Apart, Overlap, Content, Fresh, Reset, AllFreed
<1>2. CASE UNCHANGED vars
  BY <1>1, <1>2 DEF vars
<1>3. ASSUME NEW b \in Block, NEW a \in 0 .. (Arena - 1), Store(b, a) PROVE HInv'
  BY <1>1, <1>3 DEF Store, frames
<1>4. ASSUME NEW t \in Thread, NEW b \in Block, Dlib_malloc(t, b) PROVE HInv'
  BY <1>4, ObtainInv DEF Dlib_malloc
<1>5. ASSUME NEW t \in Thread, NEW b \in Block, NEW c \in Block, Dlib_realloc(t, c, b)
      PROVE  HInv'
  BY <1>5, ObtainInv DEF Dlib_realloc
<1>6. ASSUME NEW t \in Thread, NEW b \in Block, Dlib_free(t, b) PROVE HInv'
  BY <1>6, FreeInv
<1>7. ASSUME NEW t \in Thread, Proceed(t) PROVE HInv'
  <2>1. CASE insertRZPattern(t)
    BY <2>1, QuietInv DEF insertRZPattern, At, Goto, frames
  <2>2. CASE Move(t)
    BY <2>2, QuietInv DEF Move, At, Goto, frames
  <2>3. CASE Return(t) \/ Dlib_calloc(t)
    BY <2>3, ReturnInv DEF Return, Dlib_calloc
  <2> QED
    BY <1>7, <2>1, <2>2, <2>3, RegisterInv, RemoveInv, ReleaseInv DEF Proceed
<1> QED
  BY <1>2, <1>3, <1>4, <1>5, <1>6, <1>7 DEF Next, Call

\* The invariant holds in every state, for any threads, blocks, builds and stores.
THEOREM ShadowCorrect == Spec => []HInv
BY InitInv, StepInv, PTL DEF Spec

\* Answers ------------------------------------------------------------------------------

\* A block the program holds is marked.
LEMMA LiveMarked ==
  ASSUME HInv, build.useRegistration
  PROVE  \A b \in live : b \in Block /\ Marked(shadow, build, b.M, b.R)
<1> SUFFICES ASSUME NEW b \in live PROVE b \in Block /\ Marked(shadow, build, b.M, b.R)
  OBVIOUS
<1>1. b \in heap /\ b \in Block
  BY DEF HInv, Types
<1>2. ~Fresh(b) /\ ~Reset(b)
  BY <1>1, BlockFacts DEF HInv, Types, Owned, Frees, Fresh, Reset
<1> QED
  BY <1>1, <1>2 DEF HInv, Content

\* The bytes of a block are those the lemmas on the shadow memory speak of.
LEMMA BlockBytes ==
  ASSUME NEW b \in Block
  PROVE  /\ LeftZone(b) = b.M .. (b.M + RZ - 1)
         /\ AppBytes(b) = (b.M + RZ) .. (b.R - 1)
         /\ RightZone(b) = b.R .. (b.R + RZ - 1)
         /\ MarkedEnd(b) = EndOfMarks(b.R)
BY BlockFacts, ZoneAssumption, SMTT(30)
DEF IsRange, LeftZone, AppBytes, RightZone, Bytes, MarkedEnd, EndOfMarks

\* What a block's marks make of the answers.
LEMMA HInvAccepts == HInv => AppAccessAccepted
<1> SUFFICES ASSUME HInv, build.useRegistration,
                    NEW b \in live, NEW a \in AppBytes(b), NEW n \in 1 .. (b.R - a)
             PROVE  check(a, n) = 0
  BY DEF AppAccessAccepted
<1>1. b \in Block /\ Marked(shadow, build, b.M, b.R) /\ IsRange(b.M, b.R)
  BY LiveMarked, BlockFacts
<1>2. build \in Build /\ a \in (b.M + RZ) .. (b.R - 1)
  BY <1>1, BlockBytes, BoundAssumption DEF HInv, Types
<1>3. checkRegistration(shadow, build, a, n) = 0
  BY <1>1, <1>2, MarkedAccepts
<1> QED
  BY <1>3 DEF check, checkMemoryAccess

\* The zones of a block in use are reported: by the pattern when the program has left it
\* intact and the build looks at it, by the marks when the build registers.
LEMMA HInvReports ==
  HInv /\ (build.useRegistration \/ build.fastCheck) => ZoneAccessReported
<1> SUFFICES ASSUME HInv, build.useRegistration \/ build.fastCheck,
                    NEW b \in live, Intact(b) \/ ~build.fastCheck
             PROVE  /\ \A a \in LeftZone(b) : check(a, 1) = 1
                    /\ \A z \in RightZone(b) : z < MarkedEnd(b) =>
                         check(z, 1) = 1 /\ \A a \in AppBytes(b) : check(a, z - a + 1) = 1
  BY DEF ZoneAccessReported
<1>1. b \in Block /\ IsRange(b.M, b.R) /\ build \in Build
  BY BlockFacts, BoundAssumption DEF HInv, Types
<1>2. build.useRegistration => 
        /\ \A a \in LeftZone(b) : checkRegistration(shadow, build, a, 1) = 1
        /\ \A z \in RightZone(b) : z < MarkedEnd(b) =>
             /\ checkRegistration(shadow, build, z, 1) = 1
             /\ \A a \in AppBytes(b) : checkRegistration(shadow, build, a, z - a + 1) = 1
  BY <1>1, LiveMarked, BlockBytes, MarkedReports, ZenonT(60)
<1>3. build.fastCheck =>
        /\ \A a \in LeftZone(b) : {a, a + 1 - 1} \cap pattern # {}
        /\ \A z \in RightZone(b) :
             /\ {z, z + 1 - 1} \cap pattern # {}
             /\ \A a \in AppBytes(b) : {a, a + (z - a + 1) - 1} \cap pattern # {}
  <2> SUFFICES ASSUME build.fastCheck, LeftZone(b) \cup RightZone(b) \subseteq pattern
               PROVE  /\ \A a \in LeftZone(b) : {a, a + 1 - 1} \cap pattern # {}
                      /\ \A z \in RightZone(b) :
                           /\ {z, z + 1 - 1} \cap pattern # {}
                           /\ \A a \in AppBytes(b) : {a, a + (z - a + 1) - 1} \cap pattern # {}
    BY DEF Intact
  <2>1. \A a \in AppBytes(b), z \in RightZone(b) : a + (z - a + 1) - 1 = z
    BY <1>1, BlockBytes, ZoneAssumption, SMTT(30) DEF IsRange
  <2> QED
    BY <2>1
<1> QED
  BY <1>2, <1>3 DEF check, checkMemoryAccess

\* The words of memory that was given back stay marked until they are handed out again.
LEMMA HInvFreed == HInv => FreedWordsReported
<1> SUFFICES ASSUME HInv, build.ASANCheck, build.useRegistration, NEW a \in freed
             PROVE  checkRegistration(shadow, build, a, 1) = 1
  BY DEF FreedWordsReported
<1>1. a \in 0 .. (Arena - 1) /\ shadow[a \div 8] = FREED
  BY DEF HInv, Types, Content
<1> QED
  BY <1>1, FreedReports

\* Whatever the other threads allocate and free and whatever the program stores: in the
\* builds with useRegistration an access to a live block's bytes is accepted; and one to
\* its left zone, or that ends in the marked part of its right zone, is reported in the
\* builds with useRegistration alone always and in those with fastCheck as long as the
\* program has left both zones' pattern as it is (AccessesAnswered).  Builds with
\* neither switch check nothing.
THEOREM AnswersRight ==
  ASSUME \A b \in Builds : b.useRegistration \/ b.fastCheck
  PROVE  Spec => []AccessesAnswered
<1>1. HInv => AccessesAnswered
  BY HInvAccepts, HInvReports DEF AccessesAnswered, HInv, Types
<1> QED
  BY <1>1, ShadowCorrect, PTL

\* In the builds with ASANCheck and useRegistration every byte that was given back is
\* reported until the system hands that byte out again, whatever becomes of the bytes
\* beside it (FreedWordsReported).
THEOREM FreedReported == Spec => []FreedWordsReported
BY HInvFreed, ShadowCorrect, PTL

\* Refinement ---------------------------------------------------------------------------

InUse == {b \in heap : ~Fresh(b) /\ ~Reset(b)}

\* The blocks that are guarded are those between their registration and their reset.
LEMMA GuardedAreInUse == HInv /\ build.useRegistration => AbstractGuarded = InUse
<1> SUFFICES ASSUME HInv, build.useRegistration, NEW b \in heap
             PROVE  Guarded(b) <=> ~Fresh(b) /\ ~Reset(b)
  BY DEF AbstractGuarded, InUse
<1>1. b \in Block /\ IsRange(b.M, b.R) /\ IsChunk(b.M, b.U) /\ 2 * RZ <= b.U
  BY BlockFacts DEF HInv, Types
<1>2. Guarded(b) <=> Marked(shadow, build, b.M, b.R)
  BY <1>1, MarkedIsFixed DEF Guarded
<1>3. ~Fresh(b) /\ ~Reset(b) => Marked(shadow, build, b.M, b.R)
  BY DEF HInv, Content
<1> DEFINE w == b.M \div 8
<1>4. w \in Words /\ LeftWord(b.M, w) /\ InBlock(b, w)
  BY <1>1, ZoneAssumption, ArenaAssumption
  DEF IsRange, IsChunk, Words, LeftWord, InBlock, ChunkWord
<1> HIDE DEF w
<1>5. Marked(shadow, build, b.M, b.R) => shadow[w] = POISONED
  BY <1>4 DEF Marked
<1>6. Reset(b) => shadow[w] = FREED
  BY <1>4 DEF HInv, Content, AllFreed
<1>7. Fresh(b) => shadow[w] \in {0, FREED}
  <2>1. \A c \in heap : InBlock(c, w) => c = b
    BY <1>1, <1>4, BlocksApart DEF HInv, Types, Apart
  <2> QED
    BY <1>4, <2>1 DEF HInv, Content
<1> QED
  BY <1>2, <1>3, <1>5, <1>6, <1>7 DEF POISONED, FREED

AbstractStep == [Abstract!Next]_(Abstract!vars)

\* A step that changes the blocks in use the way the allocator's actions do is one of
\* its steps.
LEMMA AbstractSteps ==
  ASSUME HInv, AbstractGuarded = InUse, AbstractGuarded' = InUse', NEW b \in Block,
         \/ /\ \A c \in heap : ~Overlap(b, c)
            /\ heap' = heap \cup {b} /\ InUse' = InUse /\ live' = live
         \/ /\ b \in heap \ InUse
            /\ InUse' = InUse \cup {b} /\ heap' = heap /\ live' = live
         \/ /\ b \in InUse \ live
            /\ live' = live \cup {b} /\ heap' = heap /\ InUse' = InUse
         \/ /\ b \in live
            /\ live' = live \ {b} /\ heap' = heap /\ InUse' = InUse
         \/ /\ b \in InUse \ live
            /\ InUse' = InUse \ {b} /\ heap' = heap /\ live' = live
         \/ /\ b \in heap \ InUse
            /\ heap' = heap \ {b} /\ InUse' = InUse /\ live' = live
  PROVE  AbstractStep
<1>1. \/ Abstract!Obtain(b) \/ Abstract!Guard(b) \/ Abstract!HandOver(b)
      \/ Abstract!TakeBack(b) \/ Abstract!Unguard(b) \/ Abstract!Return(b)
  BY DEF Abstract!Obtain, Abstract!Guard, Abstract!HandOver, Abstract!TakeBack,
         Abstract!Unguard, Abstract!Return
<1> QED
  BY <1>1 DEF AbstractStep, Abstract!Next

\* Every step is a step of the allocator or changes nothing it knows.
LEMMA StepMaps ==
  ASSUME HInv, AbstractGuarded = InUse, AbstractGuarded' = InUse', [Next]_vars
  PROVE  AbstractStep
<1> USE DEF HInv
<1>1. ASSUME UNCHANGED <<heap, live, pc, blk, old>> PROVE AbstractStep
  BY <1>1 DEF AbstractStep, Abstract!vars, InUse, Fresh, Reset
<1>2. CASE UNCHANGED vars
  BY <1>1, <1>2 DEF vars
<1>3. ASSUME NEW b \in Block, NEW a \in 0 .. (Arena - 1), Store(b, a) PROVE AbstractStep
  BY <1>1, <1>3 DEF Store, frames
<1>4. ASSUME NEW t \in Thread, NEW b \in Block, At(t, "idle"), Obtain(t, b), live' = live,
             \E c \in Block \cup {NoBlock} : old' = [old EXCEPT ![t] = c]
      PROVE  AbstractStep
  <2>1. /\ pc[t] = "idle"
        /\ \E p \in {"pattern", "register"} : pc' = [pc EXCEPT ![t] = p]
        /\ blk' = [blk EXCEPT ![t] = b] /\ heap' = heap \cup {b}
        /\ \A c \in heap : ~Overlap(b, c)
    BY <1>4 DEF At, Obtain, Goto
  <2>2. b \notin heap
    BY <2>1, SelfOverlap
  <2>3. /\ \A c \in heap : (Fresh(c)' <=> Fresh(c)) /\ (Reset(c)' <=> Reset(c))
        /\ Fresh(b)'
    BY <1>4, <2>1, <2>2 DEF Fresh, Reset, Types
  <2>4. InUse' = InUse
    BY <2>1, <2>2, <2>3 DEF InUse
  <2> QED
    BY <1>4, <2>1, <2>4, AbstractSteps
<1>5. ASSUME NEW t \in Thread, NEW b \in Block, Dlib_malloc(t, b) PROVE AbstractStep
  BY <1>4, <1>5 DEF Dlib_malloc
<1>6. ASSUME NEW t \in Thread, NEW b \in Block, NEW c \in Block, Dlib_realloc(t, c, b)
      PROVE  AbstractStep
  BY <1>4, <1>6 DEF Dlib_realloc
<1>7. ASSUME NEW t \in Thread, NEW b \in Block, Dlib_free(t, b) PROVE AbstractStep
  <2>1. /\ pc[t] = "idle" /\ pc' = [pc EXCEPT ![t] = "remove"]
        /\ blk' = [blk EXCEPT ![t] = NoBlock] /\ old' = [old EXCEPT ![t] = b]
        /\ b \in live /\ live' = live \ {b} /\ heap' = heap
    BY <1>7 DEF At, Dlib_free, Goto, Unshared
  <2>2. \A c \in heap : (Fresh(c)' <=> Fresh(c)) /\ (Reset(c)' <=> Reset(c))
    BY <2>1, BlockFacts DEF Fresh, Reset, Types
  <2>3. InUse' = InUse
    BY <2>1, <2>2 DEF InUse
  <2> QED
    BY <2>1, <2>3, AbstractSteps
<1>8. ASSUME NEW t \in Thread, Proceed(t) PROVE AbstractStep
  <2>1. CASE insertRZPattern(t)
    <3>1. /\ pc[t] = "pattern" /\ pc' = [pc EXCEPT ![t] = "register"]
          /\ UNCHANGED <<heap, live, blk, old>>
      BY <2>1 DEF insertRZPattern, At, Goto, frames
    <3>2. \A c : (Fresh(c)' <=> Fresh(c)) /\ (Reset(c)' <=> Reset(c))
      BY <3>1 DEF Fresh, Reset, Types
    <3> QED
      BY <3>1, <3>2 DEF InUse, AbstractStep, Abstract!vars
  <2>2. CASE Register(t)
    <3>1. /\ pc[t] = "register" /\ \E p \in {"return", "move"} : pc' = [pc EXCEPT ![t] = p]
          /\ UNCHANGED <<heap, live, blk, old>>
      BY <2>2 DEF Register, At, Goto, frames
    <3>2. PICK b \in Block : b = blk[t] /\ b \in heap /\ Fresh(b)
      BY <3>1 DEF Types, Owned, Fresh
    <3>3. \A c : /\ c # b => (Fresh(c)' <=> Fresh(c))
                 /\ Reset(c)' <=> Reset(c)
      BY <3>1, <3>2 DEF Fresh, Reset, Types
    <3>4. ~Fresh(b)' /\ ~Reset(b)'
      BY <3>1, <3>2 DEF Fresh, Reset, Types, Owned, Frees
    <3>5. b \notin InUse /\ InUse' = InUse \cup {b}
      BY <3>1, <3>2, <3>3, <3>4 DEF InUse
    <3> QED
      BY <3>1, <3>2, <3>5, AbstractSteps
  <2>3. CASE Return(t) \/ Dlib_calloc(t)
    <3>1. /\ pc[t] = "return" /\ pc' = [pc EXCEPT ![t] = "idle"]
          /\ blk' = [blk EXCEPT ![t] = NoBlock] /\ old' = [old EXCEPT ![t] = NoBlock]
          /\ live' = live \cup {blk[t]} /\ heap' = heap
      BY <2>3 DEF Return, Dlib_calloc, At, Leave, Goto
    <3>2. \A c \in heap : (Fresh(c)' <=> Fresh(c)) /\ (Reset(c)' <=> Reset(c))
      BY <3>1, BlockFacts DEF Fresh, Reset, Types
    <3>3. InUse' = InUse
      BY <3>1, <3>2 DEF InUse
    <3>4. blk[t] \in Block /\ blk[t] \in InUse \ live
      BY <3>1, BlockFacts DEF InUse, Fresh, Reset, Types, Owned, Frees
    <3> QED
      BY <3>1, <3>3, <3>4, AbstractSteps
  <2>4. CASE Move(t)
    <3>1. /\ pc[t] = "move" /\ pc' = [pc EXCEPT ![t] = "remove"]
          /\ live' = live \ {old[t]} /\ UNCHANGED <<heap, blk, old>>
      BY <2>4 DEF Move, At, Goto, frames
    <3>2. \A c : (Fresh(c)' <=> Fresh(c)) /\ (Reset(c)' <=> Reset(c))
      BY <3>1 DEF Fresh, Reset, Types
    <3>3. InUse' = InUse
      BY <3>1, <3>2 DEF InUse
    <3>4. old[t] \in Block /\ old[t] \in live
      BY <3>1 DEF Types, Owned, Frees
    <3> QED
      BY <3>1, <3>3, <3>4, AbstractSteps
  <2>5. CASE Remove(t)
    <3>1. /\ pc[t] = "remove" /\ pc' = [pc EXCEPT ![t] = "release"]
          /\ UNCHANGED <<heap, live, blk, old>>
      BY <2>5 DEF Remove, At, Goto, frames
    <3>2. PICK b \in Block : b = old[t] /\ b \in heap \ live /\ ~Fresh(b) /\ ~Reset(b)
      BY <3>1 DEF Types, Owned, Frees, Fresh, Reset
    <3>3. \A c : /\ Fresh(c)' <=> Fresh(c)
                 /\ Reset(c)' <=> c = b \/ Reset(c)
      BY <3>1, <3>2 DEF Fresh, Reset, Types
    <3>4. b \in InUse /\ InUse' = InUse \ {b}
      BY <3>1, <3>2, <3>3 DEF InUse
    <3> QED
      BY <3>1, <3>2, <3>4, AbstractSteps
  <2>6. CASE Release(t)
    <3>1. /\ pc[t] = "release" /\ heap' = heap \ {old[t]} /\ live' = live
          /\ \/ /\ blk[t] = NoBlock /\ pc' = [pc EXCEPT ![t] = "idle"]
                /\ blk' = [blk EXCEPT ![t] = NoBlock] /\ old' = [old EXCEPT ![t] = NoBlock]
             \/ /\ blk[t] # NoBlock /\ pc' = [pc EXCEPT ![t] = "return"]
                /\ UNCHANGED <<blk, old>>
      BY <2>6 DEF Release, At, Goto, frames, Leave
    <3>2. PICK b \in Block : b = old[t] /\ b \in heap /\ Reset(b)
      BY <3>1 DEF Types, Owned, Frees, Reset
    <3>3. \A c \in heap' : (Fresh(c)' <=> Fresh(c)) /\ (Reset(c)' <=> Reset(c))
      BY <3>1, BlockFacts DEF Fresh, Reset, Types
    <3>4. b \notin InUse /\ InUse' = InUse
      BY <3>1, <3>2, <3>3 DEF InUse
    <3> QED
      BY <3>1, <3>2, <3>4, AbstractSteps
  <2> QED
    BY <1>8, <2>1, <2>2, <2>3, <2>4, <2>5, <2>6 DEF Proceed
<1> QED
  BY <1>2, <1>3, <1>5, <1>6, <1>7, <1>8 DEF Next, Call

\* In a build with the shadow memory, the library is the allocator RedZones describes:
\* with two threads or any number, every step is one of its steps (RefinesRedZones).
THEOREM ShadowImplementsRedZones ==
  ASSUME \A b \in Builds : b.useRegistration
  PROVE  Spec => RefinesRedZones
<1>1. Init => Abstract!Init
  BY DEF Init, Abstract!Init, AbstractGuarded
<1>2. HInv => AbstractGuarded = InUse
  BY GuardedAreInUse DEF HInv, Types
<1>3. (HInv => AbstractGuarded = InUse)'
  BY <1>2, PTL
<1>4. HInv /\ HInv' /\ [Next]_vars => AbstractStep
  BY <1>2, <1>3, StepMaps
<1> QED
  BY <1>1, <1>4, ShadowCorrect, PTL DEF Spec, RefinesRedZones, Abstract!Spec, AbstractStep
=============================================================================
