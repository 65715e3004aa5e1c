---------------------------- MODULE RedZoneTable ----------------------------
(***************************************************************************)
(* The hash table of red zones of Libraries/dhash.c as data: how an        *)
(* address selects a bucket and a bucket a lock, and what the three list   *)
(* functions do to one bucket.  A block is a pair of red zones, L the      *)
(* address of the left one and R that of the right one; the application's  *)
(* bytes are the ones between them.                                        *)
(*                                                                         *)
(* A bucket is its counter and its list.  The list stands for the chain    *)
(* first -> next -> ... -> last: first is Head(list), last is Last(list),  *)
(* both NULL when it is empty.  The counter is kept apart because the code *)
(* does not always change the two together.  Each function is what it does *)
(* to a list nobody else changes meanwhile: DHashList has its pointers.    *)
(***************************************************************************)
EXTENDS Integers, Sequences, SequencesExt

CONSTANTS
  RZ,          \* rz_sz, the bytes of a red zone (2^scale)
  PAGESZ,      \* pagesz, the bytes of a page
  HASHSZ,      \* the number of buckets
  PageBucket,  \* the bucket a page number hashes to
  Block        \* the blocks the system's malloc can hand out

ASSUME SizeAssumption == RZ \in Nat \ {0} /\ PAGESZ \in Nat \ {0} /\ HASHSZ \in Nat \ {0}

ASSUME BlockAssumption ==
  Block \subseteq {b \in [L : Nat \ {0}, R : Nat \ {0}] : b.L + RZ < b.R}

ASSUME HashAssumption ==
  \A b \in Block : \A a \in b.L .. (b.R + RZ - 1) :
     /\ a \div PAGESZ \in DOMAIN PageBucket
     /\ PageBucket[a \div PAGESZ] \in 0 .. (HASHSZ - 1)

NULL == 0

\* What removeAddrFromList returns when it returns NULL.
NoEntry == [L |-> NULL, R |-> NULL]

\* Addresses to buckets, buckets to locks ------------------------------------

getRZAddrBucket(mem) == PageBucket[mem \div PAGESZ]

Locks == {0, 1}

getLock(bucket) == IF bucket < HASHSZ \div 2 THEN 0 ELSE 1

\* The lock that lock(mem) and unlock(mem) work on.
lockOf(mem) == getLock(getRZAddrBucket(mem))

\* The blocks whose two red zones start in different buckets ("cross-page").
Cross(b) == getRZAddrBucket(b.L) # getRZAddrBucket(b.R)

\* One bucket ----------------------------------------------------------------

BucketType == [counter : Nat, list : Seq(Block)]

EmptyBucket == [counter |-> 0, list |-> <<>>]

\* The code follows first and last without a test whenever the counter is not 0.
Dangling(bucket) == bucket.counter # 0 /\ bucket.list = <<>>

SameRedZone(x, y) == x.L = y.L \/ x.R = y.R

\* Where a loop over the list breaks: the first of some positions, 0 for none.
FirstOf(I) == IF I = {} THEN 0 ELSE Min(I)

Find(list, e) == FirstOf({i \in 1 .. Len(list) : SameRedZone(list[i], e)})

\* Slip: the fast path for increasing addresses taken for every address.
SlipAppendAlways(bucket, toAdd) ==
  [res    |-> "added",
   bucket |-> [counter |-> bucket.counter + 1, list |-> Append(bucket.list, toAdd)]]

\* addAddrToList: the outcome is "added", "denied" (returns 1) or "segv".
addAddrToList(bucket, toAdd) ==
  LET list == bucket.list
      stop == FirstOf({i \in 1 .. Len(list) : SameRedZone(list[i], toAdd)
                                                \/ toAdd.R < list[i].L})
      With(l) == [res    |-> "added",
                  bucket |-> [counter |-> bucket.counter + 1, list |-> l]]
  IN  CASE Dangling(bucket)             -> [res |-> "segv", bucket |-> bucket]
        [] bucket.counter = 0 /\ list = <<>> -> With(<<toAdd>>)
        [] list # <<>> /\ Last(list).R < toAdd.L -> With(Append(list, toAdd))
        [] OTHER ->
             IF stop = 0 THEN With(list)      \* counted, yet linked nowhere
             ELSE IF SameRedZone(list[stop], toAdd)
                  THEN [res |-> "denied", bucket |-> bucket]
                  ELSE With(InsertAt(list, stop, toAdd))

\* Slip: counter-- where the entry is unlinked, and again at the end.
SlipCountTwice(bucket, toRemove) ==
  LET at == Find(bucket.list, toRemove)
  IN  IF at = 0 THEN [found |-> NoEntry, bucket |-> bucket]
      ELSE [found  |-> bucket.list[at],
            bucket |-> [counter |-> bucket.counter - 2,
                        list    |-> RemoveAt(bucket.list, at)]]

\* Slip: first = current->next although there is a prev.
SlipDropPrefix(bucket, toRemove) ==
  LET at == Find(bucket.list, toRemove)
  IN  IF at = 0 THEN [found |-> NoEntry, bucket |-> bucket]
      ELSE [found  |-> bucket.list[at],
            bucket |-> [counter |-> bucket.counter - 1,
                        list    |-> SubSeq(bucket.list, at + 1, Len(bucket.list))]]

\* removeAddrFromList: found is the entry unlinked, or NoEntry.
removeAddrFromList(bucket, toRemove) ==
  LET at == Find(bucket.list, toRemove)
  IN  IF bucket.counter = 0
      THEN [found |-> NoEntry, bucket |-> bucket]
      ELSE IF at = 0
      THEN [found  |-> NoEntry,
            bucket |-> [counter |-> bucket.counter - 1, list |-> bucket.list]]
      ELSE [found  |-> bucket.list[at],
            bucket |-> [counter |-> bucket.counter - 1,
                        list    |-> RemoveAt(bucket.list, at)]]

InZone(a, start) == start <= a /\ a < start + RZ

\* checkRegistration, of a list no thread changes under it: 1 when the access touches a
\* red zone the bucket of its first byte lists, 0 when it does not, "segv" when it follows
\* a NULL first.
checkRegistration(table, mem, accessSize) ==
  LET bucket   == table[getRZAddrBucket(mem)]
      list     == bucket.list
      addedMem == IF accessSize > 1 THEN mem + accessSize - 1 ELSE mem
      Touches(e) == \E a \in {mem, addedMem} : InZone(a, e.L) \/ InZone(a, e.R)
  IN  CASE bucket.counter = 0  -> 0
        [] Dangling(bucket)    -> "segv"
        [] bucket.counter # 0 /\ list # <<>> ->
             IF mem < Head(list).L \/ mem > Last(list).R + RZ THEN 0
             ELSE IF \E i \in 1 .. Len(list) : Touches(list[i]) THEN 1 ELSE 0

=============================================================================
