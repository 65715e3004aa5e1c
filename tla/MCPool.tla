------------------------------- MODULE MCPool -------------------------------
(***************************************************************************)
(* Instance of Pool for TLC: three jobs, one of which takes both of the    *)
(* two nodes; another may write more than one read takes.                  *)
(***************************************************************************)
EXTENDS Pool

CONSTANTS j1, j2, j3

MCnnodes == [j \in Job |-> IF j = j3 THEN 2 ELSE 1]

MCMaxOutput == [j \in Job |-> IF j = j1 THEN 3 ELSE 1]

MCOneUnit == [j \in Job |-> 1]

=============================================================================
