------------------------------- MODULE DHash --------------------------------
(***************************************************************************)
(* Threads of a program calling Dlib_malloc and Dlib_free of               *)
(* Libraries/dhash.c at the same time.  Every acquisition of a mutex,      *)
(* every list operation and every release is a step of its own, so all     *)
(* the interleavings the two mutexes allow (and those they fail to         *)
(* exclude) are behaviours.  DHashList splits the list operations into     *)
(* their writes and adds the one reader that takes no mutex.               *)
(*                                                                         *)
(* pthread mutexes are modelled from their use: pthread_mutex_trylock      *)
(* succeeds on a free mutex only, and the spin on EBUSY is waiting.        *)
(* pthread_mutex_unlock of a mutex the caller does not hold is undefined   *)
(* for the default mutex the code creates; OwnerChecked says which of the  *)
(* two outcomes a platform gives: EPERM and no effect, or success, which   *)
(* leaves the mutex free whoever holds it.                                 *)
(***************************************************************************)
EXTENDS RedZoneTable, FiniteSets

CONSTANTS
  Thread,        \* the program's threads
  NoThread,      \* the owner of a free mutex
  OwnerChecked,  \* does unlock refuse a mutex the caller does not hold?
  PreInit,       \* was initLib called before the threads started?
  MaxFail        \* bound: how many malloc calls for a list node may fail

ASSUME ThreadAssumption == NoThread \notin Thread

ASSUME FlagAssumption ==
  /\ OwnerChecked \in BOOLEAN
  /\ PreInit \in BOOLEAN
  /\ MaxFail \in Nat

VARIABLES
  init,     \* the library's init flag
  mutex,    \* mutexes[]: who holds each
  table,    \* hashTable[]
  heap,     \* the blocks the system's malloc has handed out
  live,     \* the blocks whose address the program was given and has not freed
  fails,    \* node allocations that failed so far
  crashed,  \* the process died: "no", "segv" or "abort" (an invalid free)
  pc,       \* where each thread is
  blk,      \* memL, and the block it belongs to, of each thread's call
  right,    \* memR, or toRemove.startAddrR, of each thread's call
  undo      \* is removeAddr running as registerAddr's rollback?

vars == <<init, mutex, table, heap, live, fails, crashed, pc, blk, right, undo>>

library == <<init, mutex, table>>
frames  == <<blk, right, undo>>

PC == {"idle", "initLib", "called",
       "reg_lock1", "reg_add1", "reg_swap", "reg_lock2", "reg_add2",
       "reg_unlock", "reg_undo", "reg_deny", "denied",
       "rem_lock1", "rem_list1", "rem_swap", "rem_lock2", "rem_list2",
       "rem_unlock2", "rem_unlock", "rem_abort1", "rem_abort2", "removed"}

NoBlock == NoEntry

Disjoint(b, c) == b.R + RZ <= c.L \/ c.R + RZ <= b.L

Init ==
  /\ init = IF PreInit THEN 1 ELSE 0
  /\ mutex = [l \in Locks |-> NoThread]
  /\ table = [k \in 0 .. (HASHSZ - 1) |-> EmptyBucket]
  /\ heap = {} /\ live = {}
  /\ fails = 0
  /\ crashed = "no"
  /\ pc = [t \in Thread |-> "idle"]
  /\ blk = [t \in Thread |-> NoBlock]
  /\ right = [t \in Thread |-> NULL]
  /\ undo = [t \in Thread |-> FALSE]

\* Locks ---------------------------------------------------------------------

lockL(t) == lockOf(blk[t].L)
lockR(t) == lockOf(right[t])
TwoLocks(t) == lockL(t) # lockR(t)
CrossCall(t) == getRZAddrBucket(blk[t].L) # getRZAddrBucket(right[t])

\* Slip: a trylock whose EBUSY is not looked at.
SlipLockAnyway(t, l) == mutex' = [mutex EXCEPT ![l] = t]

\* lock(mem): the trylock loop ends when the mutex is free.
lock(t, l) == mutex[l] = NoThread /\ mutex' = [mutex EXCEPT ![l] = t]

\* unlock(mem): the return value is 1 exactly when it has no effect.
Refused(t, l) == OwnerChecked /\ mutex[l] # t
unlock(t, l) ==
  mutex' = IF Refused(t, l) THEN mutex ELSE [mutex EXCEPT ![l] = NoThread]

At(t, here) == crashed = "no" /\ pc[t] = here

Goto(t, there) == pc' = [pc EXCEPT ![t] = there]

\* Initialisation ------------------------------------------------------------

\* A function of the library reads init == 0 ...
EnterUninitialised(t) ==
  /\ At(t, "idle") /\ init = 0
  /\ Goto(t, "initLib")
  /\ UNCHANGED <<library, heap, live, fails, crashed, frames>>

\* ... and initLib initialises both mutexes, in whatever state they are.
initLib(t) ==
  /\ At(t, "initLib")
  /\ mutex' = [l \in Locks |-> NoThread]
  /\ init' = 1
  /\ Goto(t, "called")
  /\ UNCHANGED <<table, heap, live, fails, crashed, frames>>

\* The first call may be one that leaves the table alone: a check, a request
\* of 0 bytes, or one that the system's malloc cannot serve.
ReturnAtOnce(t) ==
  /\ At(t, "called")
  /\ Goto(t, "idle")
  /\ UNCHANGED <<library, heap, live, fails, crashed, frames>>

\* Dlib_malloc and registerAddr ----------------------------------------------

\* malloc(ac_sz) returns a free region; the node toAdd is allocated or not.
Dlib_malloc(t, b) ==
  /\ At(t, "called") \/ (At(t, "idle") /\ init = 1)
  /\ \A c \in heap : Disjoint(b, c)
  /\ heap' = heap \cup {b}
  /\ blk' = [blk EXCEPT ![t] = b]
  /\ right' = [right EXCEPT ![t] = b.R]
  /\ undo' = [undo EXCEPT ![t] = FALSE]
  /\ \/ Goto(t, "reg_lock1") /\ fails' = fails
     \/ Goto(t, "denied") /\ fails < MaxFail /\ fails' = fails + 1
  /\ UNCHANGED <<library, live, crashed>>

RegLock1(t) ==
  /\ At(t, "reg_lock1")
  /\ lock(t, lockL(t))
  /\ Goto(t, "reg_add1")
  /\ UNCHANGED <<init, table, heap, live, fails, crashed, frames>>

\* addAddrToList in the left bucket and, for a cross-page block, the
\* allocation of crossToAdd: when it fails toAdd stays in the list.
RegAdd1(t) ==
  LET k == getRZAddrBucket(blk[t].L)
      added == addAddrToList(table[k], [L |-> blk[t].L, R |-> right[t]])
  IN  /\ At(t, "reg_add1")
      /\ table' = [table EXCEPT ![k] = added.bucket]
      /\ \/ /\ added.res = "segv"
            /\ crashed' = "segv" /\ UNCHANGED <<pc, fails>>
         \/ /\ added.res = "denied"
            /\ Goto(t, "reg_deny") /\ UNCHANGED <<fails, crashed>>
         \/ /\ added.res = "added"
            /\ Goto(t, IF ~CrossCall(t) THEN "reg_unlock"
                       ELSE IF TwoLocks(t) THEN "reg_swap" ELSE "reg_add2")
            /\ UNCHANGED <<fails, crashed>>
         \/ /\ added.res = "added" /\ CrossCall(t) /\ fails < MaxFail
            /\ Goto(t, "reg_deny") /\ fails' = fails + 1 /\ UNCHANGED crashed
      /\ UNCHANGED <<init, mutex, heap, live, frames>>

\* unlock(memL) between the two buckets; refused, registerAddr returns 1.
RegSwap(t) ==
  /\ At(t, "reg_swap")
  /\ unlock(t, lockL(t))
  /\ Goto(t, IF Refused(t, lockL(t)) THEN "denied" ELSE "reg_lock2")
  /\ UNCHANGED <<init, table, heap, live, fails, crashed, frames>>

RegLock2(t) ==
  /\ At(t, "reg_lock2")
  /\ lock(t, lockR(t))
  /\ Goto(t, "reg_add2")
  /\ UNCHANGED <<init, table, heap, live, fails, crashed, frames>>

RegAdd2(t) ==
  LET k == getRZAddrBucket(right[t])
      added == addAddrToList(table[k], [L |-> blk[t].L, R |-> right[t]])
  IN  /\ At(t, "reg_add2")
      /\ table' = [table EXCEPT ![k] = added.bucket]
      /\ \/ added.res = "segv" /\ crashed' = "segv" /\ pc' = pc
         \/ added.res = "denied" /\ Goto(t, "reg_undo") /\ UNCHANGED crashed
         \/ added.res = "added" /\ Goto(t, "reg_unlock") /\ UNCHANGED crashed
      /\ UNCHANGED <<init, mutex, heap, live, fails, frames>>

\* Slip: the last unlock of registerAddr forgotten.
SlipKeepLock(t) ==
  /\ At(t, "reg_unlock")
  /\ Goto(t, "idle") /\ live' = live \cup {blk[t]}
  /\ UNCHANGED <<library, heap, fails, crashed, frames>>

\* The last unlock of registerAddr.  Dlib_malloc then returns the address;
\* when unlock was refused it takes the block for not registered.
RegUnlock(t) ==
  /\ At(t, "reg_unlock")
  /\ unlock(t, lockR(t))
  /\ IF Refused(t, lockR(t))
     THEN Goto(t, "denied") /\ live' = live
     ELSE Goto(t, "idle") /\ live' = live \cup {blk[t]}
  /\ UNCHANGED <<init, table, heap, fails, crashed, frames>>

RegDeny(t) ==
  /\ At(t, "reg_deny")
  /\ unlock(t, lockL(t))
  /\ Goto(t, "denied")
  /\ UNCHANGED <<init, table, heap, live, fails, crashed, frames>>

\* The second bucket refused the entry: registerAddr unlocks and calls
\* removeAddr(memL, memR).
RegUndo(t) ==
  /\ At(t, "reg_undo")
  /\ unlock(t, lockR(t))
  /\ undo' = [undo EXCEPT ![t] = TRUE]
  /\ Goto(t, "rem_lock1")
  /\ UNCHANGED <<init, table, heap, live, fails, crashed, blk, right>>

\* "REGISTRATION DENIED": the block is freed, and its address returned.
Denied(t) ==
  /\ At(t, "denied")
  /\ heap' = heap \ {blk[t]}
  /\ live' = live \cup {blk[t]}
  /\ crashed' = IF blk[t] \in heap THEN "no" ELSE "abort"
  /\ Goto(t, "idle")
  /\ UNCHANGED <<library, fails, frames>>

\* Dlib_free and removeAddr --------------------------------------------------

\* Slip: the block freed before its red zones are removed.
SlipFreeFirst(t, b) ==
  /\ At(t, "called") \/ (At(t, "idle") /\ init = 1)
  /\ b \in live
  /\ live' = live \ {b} /\ heap' = heap \ {b}
  /\ blk' = [blk EXCEPT ![t] = b]
  /\ right' = [right EXCEPT ![t] = NULL]
  /\ undo' = [undo EXCEPT ![t] = FALSE]
  /\ Goto(t, "rem_lock1")
  /\ UNCHANGED <<library, fails, crashed>>

Dlib_free(t, b) ==
  /\ At(t, "called") \/ (At(t, "idle") /\ init = 1)
  /\ b \in live
  /\ live' = live \ {b}
  /\ blk' = [blk EXCEPT ![t] = b]
  /\ right' = [right EXCEPT ![t] = NULL]
  /\ undo' = [undo EXCEPT ![t] = FALSE]
  /\ Goto(t, "rem_lock1")
  /\ UNCHANGED <<library, heap, fails, crashed>>

RemLock1(t) ==
  /\ At(t, "rem_lock1")
  /\ lock(t, lockL(t))
  /\ Goto(t, "rem_list1")
  /\ UNCHANGED <<init, table, heap, live, fails, crashed, frames>>

\* removeAddrFromList in the left bucket.  Dlib_free learns the right red
\* zone from the entry; the rollback was given it.
RemList1(t) ==
  LET k == getRZAddrBucket(blk[t].L)
      removed == removeAddrFromList(table[k], [L |-> blk[t].L, R |-> right[t]])
      r == IF undo[t] THEN right[t] ELSE removed.found.R
      CrossTo == getRZAddrBucket(r) # k
      Here == lockOf(r) = lockL(t)
  IN  /\ At(t, "rem_list1")
      /\ table' = [table EXCEPT ![k] = removed.bucket]
      /\ IF removed.found = NoEntry
         THEN Goto(t, "rem_abort1") /\ right' = right
         ELSE /\ right' = [right EXCEPT ![t] = r]
              /\ Goto(t, IF ~CrossTo THEN "rem_unlock"
                         ELSE IF Here THEN "rem_list2" ELSE "rem_swap")
      /\ UNCHANGED <<init, mutex, heap, live, fails, crashed, blk, undo>>

RemSwap(t) ==
  /\ At(t, "rem_swap")
  /\ unlock(t, lockL(t))
  /\ Goto(t, "rem_lock2")
  /\ UNCHANGED <<init, table, heap, live, fails, crashed, frames>>

RemLock2(t) ==
  /\ At(t, "rem_lock2")
  /\ lock(t, lockR(t))
  /\ Goto(t, "rem_list2")
  /\ UNCHANGED <<init, table, heap, live, fails, crashed, frames>>

RemList2(t) ==
  LET k == getRZAddrBucket(right[t])
      removed == removeAddrFromList(table[k], [L |-> blk[t].L, R |-> right[t]])
  IN  /\ At(t, "rem_list2")
      /\ table' = [table EXCEPT ![k] = removed.bucket]
      /\ Goto(t, IF removed.found = NoEntry THEN "rem_abort2" ELSE "rem_unlock2")
      /\ UNCHANGED <<init, mutex, heap, live, fails, crashed, frames>>

\* The unlock at the end of the cross-page branch: lockR is the lock of the
\* left bucket too when the two buckets share one.
RemUnlock2(t) ==
  /\ At(t, "rem_unlock2")
  /\ unlock(t, lockR(t))
  /\ Goto(t, IF TwoLocks(t) /\ Refused(t, lockR(t)) THEN "removed" ELSE "rem_unlock")
  /\ UNCHANGED <<init, table, heap, live, fails, crashed, frames>>

\* The unlock(memL) that every successful branch runs into.
RemUnlock(t) ==
  /\ At(t, "rem_unlock")
  /\ unlock(t, lockL(t))
  /\ Goto(t, "removed")
  /\ UNCHANGED <<init, table, heap, live, fails, crashed, frames>>

RemAbort1(t) ==
  /\ At(t, "rem_abort1")
  /\ unlock(t, lockL(t))
  /\ Goto(t, "removed")
  /\ UNCHANGED <<init, table, heap, live, fails, crashed, frames>>

\* No entry in the right bucket.  Dlib_free unlocks what it holds; the
\* rollback unlocks memL when there are two locks, and nothing otherwise.
RemAbort2(t) ==
  /\ At(t, "rem_abort2")
  /\ IF ~undo[t] THEN unlock(t, lockR(t))
     ELSE IF TwoLocks(t) THEN unlock(t, lockL(t)) ELSE mutex' = mutex
  /\ Goto(t, "removed")
  /\ UNCHANGED <<init, table, heap, live, fails, crashed, frames>>

\* removeAddr returned: the rollback's caller denies the registration, and
\* Dlib_free gives the block back to the system whatever the result.
Removed(t) ==
  /\ At(t, "removed")
  /\ IF undo[t]
     THEN Goto(t, "denied") /\ UNCHANGED <<heap, crashed>>
     ELSE /\ Goto(t, "idle")
          /\ heap' = heap \ {blk[t]}
          /\ crashed' = IF blk[t] \in heap THEN "no" ELSE "abort"
  /\ UNCHANGED <<library, live, fails, frames>>

-----------------------------------------------------------------------------

Registering(t) == RegLock1(t) \/ RegAdd1(t) \/ RegSwap(t) \/ RegLock2(t) \/ RegAdd2(t)
                  \/ RegUnlock(t) \/ RegDeny(t) \/ RegUndo(t) \/ Denied(t)

Removing(t) == RemLock1(t) \/ RemList1(t) \/ RemSwap(t) \/ RemLock2(t) \/ RemList2(t)
                \/ RemUnlock2(t) \/ RemUnlock(t) \/ RemAbort1(t) \/ RemAbort2(t) \/ Removed(t)

\* What a thread inside a call does; which call it makes next is the program's.
Proceed(t) == initLib(t) \/ ReturnAtOnce(t) \/ Registering(t) \/ Removing(t)

Call(t) == EnterUninitialised(t) \/ \E b \in Block : Dlib_malloc(t, b) \/ Dlib_free(t, b)

Next == \E t \in Thread : Call(t) \/ Proceed(t)

Spec == Init /\ [][Next]_vars

\* The operating system keeps running every thread that can run.
FairSpec == Spec /\ \A t \in Thread : WF_vars(Proceed(t))

-----------------------------------------------------------------------------
(***************************************************************************)
(* Properties                                                              *)
(***************************************************************************)

\* Every variable holds a value of its type.
TypeOK ==
  /\ init \in {0, 1}
  /\ mutex \in [Locks -> Thread \cup {NoThread}]
  /\ table \in [0 .. (HASHSZ - 1) -> BucketType]
  /\ heap \subseteq Block /\ live \subseteq Block
  /\ fails \in 0 .. MaxFail
  /\ crashed \in {"no", "segv", "abort"}
  /\ pc \in [Thread -> PC]
  /\ blk \in [Thread -> Block \cup {NoBlock}]
  /\ right \in [Thread -> {NULL} \cup {b.R : b \in Block}]
  /\ undo \in [Thread -> BOOLEAN]

\* The lock whose bucket the code at a position works on.
LeftSection  == {"reg_add1", "reg_swap", "reg_deny", "rem_list1", "rem_swap", "rem_abort1"}
RightSection == {"reg_add2", "reg_unlock", "reg_undo", "rem_list2", "rem_unlock2", "rem_abort2"}
InSection(t, l) ==
  \/ pc[t] \in LeftSection /\ l = lockL(t)
  \/ pc[t] \in RightSection /\ l = lockR(t)

\* The mutexes protect the lists ("created to ensure thread safety when
\* performing operations on the hash table and its buckets", dhash.c:42):
\* no two threads are between lock and unlock of the same mutex.
MutualExclusion ==
  \A l \in Locks : \A t, u \in Thread :
     InSection(t, l) /\ InSection(u, l) => t = u

\* What checkRegistration's early exits rely on ("the list is ordered"):
\* every list is sorted with disjoint blocks, and the counter is its length.
ListOrdered(bucket) ==
  /\ bucket.counter = Len(bucket.list)
  /\ \A i \in 1 .. Len(bucket.list) - 1 : bucket.list[i].R < bucket.list[i + 1].L
ListsOrdered == \A k \in DOMAIN table : ListOrdered(table[k])

Listed(k, b) == \E i \in 1 .. Len(table[k].list) : table[k].list[i] = b

Registered(b) == Listed(getRZAddrBucket(b.L), b) /\ Listed(getRZAddrBucket(b.R), b)

\* A block the program holds is in the table under both its red zones, ...
LiveRegistered == \A b \in live : Registered(b)

\* ... and the table never describes memory that was given back to the system, where
\* the next malloc may put application bytes on top of the old red zones.
NoStaleEntry ==
  \A k \in DOMAIN table : \A i \in 1 .. Len(table[k].list) : table[k].list[i] \in heap

\* Whatever registrations and removals of other blocks are under way between two
\* mutexes, the table has the entries of the blocks in use and none of freed memory.
TableMatchesHeap == LiveRegistered /\ NoStaleEntry

\* What a thread-free view of the library knows: the blocks it owns and, of these,
\* the ones the table lists under both red zones.
AbstractGuarded == {b \in heap : Registered(b)}
Overlap(b, c) == ~Disjoint(b, c)

Abstract == INSTANCE RedZones WITH guarded <- AbstractGuarded

\* Every step of the threads, their interleavings included, is a step (or a
\* stutter) of the allocator RedZones describes.
RefinesRedZones == Abstract!Spec

Bytes(start, end) == start .. (end - 1)

\* The bytes of the blocks' red zones that hash to the bucket of their zone.
SeenZoneBytes(b) ==
  {a \in Bytes(b.L, b.L + RZ) : getRZAddrBucket(a) = getRZAddrBucket(b.L)}
  \cup {a \in Bytes(b.R, b.R + RZ) : getRZAddrBucket(a) = getRZAddrBucket(b.R)}

AppBytes(b) == Bytes(b.L + RZ, b.R)

\* What the table says, between any two list operations, of an access to a red-zone byte of
\* a block the program holds: it is reported, and so is one that starts in the application's
\* bytes (in a bucket that lists the block) and ends in the right red zone.
RedZoneAccessReported ==
  \A b \in live :
    /\ \A a \in SeenZoneBytes(b) : checkRegistration(table, a, 1) = 1
    /\ \A a \in AppBytes(b), z \in Bytes(b.R, b.R + RZ) :
         getRZAddrBucket(a) \in {getRZAddrBucket(b.L), getRZAddrBucket(b.R)}
           => checkRegistration(table, a, z - a + 1) = 1

\* ... and of one inside the application's bytes, of any size: it is not, although the
\* table lists other blocks in the bucket.
AppAccessAccepted ==
  \A b \in live : \A a \in AppBytes(b) : \A sz \in 1 .. (b.R - a) :
     checkRegistration(table, a, sz) = 0

\* The answers of a check during which no thread changes its bucket, whatever
\* registrations and removals stand half done around it.  checkRegistration takes no
\* mutex: the check that a list operation overlaps is DHashList's.
TableAnswers == RedZoneAccessReported /\ AppAccessAccepted

\* No call returns to the program with a mutex still held.
IdleHoldsNoLock ==
  crashed = "no" => \A t \in Thread : pc[t] = "idle" => \A l \in Locks : mutex[l] # t

\* A mutex that is taken is released again, on every path, while the process lives.
LocksReleased ==
  \A l \in Locks : mutex[l] # NoThread ~> (mutex[l] = NoThread \/ crashed # "no")

\* A thread alone always gets back to the program from every call, or dies.
EveryCallReturns ==
  \A t \in Thread : pc[t] # "idle" ~> (pc[t] = "idle" \/ crashed # "no")

=============================================================================
