------------------------------ MODULE RedZones ------------------------------
(***************************************************************************)
(* What the red-zone library promises to the program, with no table, no    *)
(* lock and no thread: a block is allocated, guarded by its two red zones, *)
(* handed to the program, taken back, unguarded and given back to the      *)
(* system, in this order, and at most one block covers a byte.             *)
(***************************************************************************)
CONSTANTS
  Block,                \* the blocks the system can hand out
  Overlap(_, _)         \* do two blocks have bytes in common?

VARIABLES
  heap,     \* blocks owned by the library
  guarded,  \* blocks whose red zones are both known
  live      \* blocks the program holds

vars == <<heap, guarded, live>>

Init == heap = {} /\ guarded = {} /\ live = {}

Obtain(b) ==
  /\ \A c \in heap : ~Overlap(b, c)
  /\ heap' = heap \cup {b}
  /\ UNCHANGED <<guarded, live>>

Guard(b) ==
  /\ b \in heap \ guarded
  /\ guarded' = guarded \cup {b}
  /\ UNCHANGED <<heap, live>>

HandOver(b) ==
  /\ b \in guarded \ live
  /\ live' = live \cup {b}
  /\ UNCHANGED <<heap, guarded>>

TakeBack(b) ==
  /\ b \in live
  /\ live' = live \ {b}
  /\ UNCHANGED <<heap, guarded>>

Unguard(b) ==
  /\ b \in guarded \ live
  /\ guarded' = guarded \ {b}
  /\ UNCHANGED <<heap, live>>

Return(b) ==
  /\ b \in heap \ guarded
  /\ heap' = heap \ {b}
  /\ UNCHANGED <<guarded, live>>

Next == \E b \in Block : Obtain(b) \/ Guard(b) \/ HandOver(b)
                         \/ TakeBack(b) \/ Unguard(b) \/ Return(b)

Spec == Init /\ [][Next]_vars

=============================================================================
