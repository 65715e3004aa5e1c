------------------------------ MODULE MCDHash -------------------------------
(***************************************************************************)
(* Instances of DHash for TLC: red zones of 2 bytes, pages of 16, four     *)
(* buckets.  Pages 0..3 hash to the bucket of their number and page 4 back *)
(* to bucket 0, so that unrelated blocks share a bucket.                   *)
(***************************************************************************)
EXTENDS DHash

MCPageBucket == [p \in 0 .. 7 |-> p % 4]

Low01 == [L |-> 9,  R |-> 17]    \* pages 0-1, buckets 0 and 1 under one lock
Mid12 == [L |-> 22, R |-> 34]    \* pages 1-2, bucket 1 of lock 0, 2 of lock 1
High30 == [L |-> 50, R |-> 66]   \* pages 3-4, bucket 3 of lock 1, 0 of lock 0
CrossBlocks == {Low01, Mid12, High30}
FailCross == {Low01, Mid12, [L |-> 24, R |-> 34], [L |-> 20, R |-> 50]}

=============================================================================
