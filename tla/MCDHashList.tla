---------------------------- MODULE MCDHashList -----------------------------
(***************************************************************************)
(* Instance of DHashList for TLC, in the memory of MCDHash: bucket 0 lists *)
(* up to three blocks, two of which span buckets, from lock 1 to lock 0    *)
(* and from lock 0 to lock 1.                                              *)
(***************************************************************************)
EXTENDS MCDHash, DHashList

At0    == [L |-> 2,  R |-> 6]     \* page 0, bucket 0
High42 == [L |-> 70, R |-> 98]    \* pages 4-6, bucket 0 of lock 0, 2 of lock 1
ListBlocks == {At0, High30, High42}

\* From the last byte of a right red zone of bucket 0 to the first of the next left one.
ListAccess == {[mem |-> 67, size |-> 4]}

=============================================================================
