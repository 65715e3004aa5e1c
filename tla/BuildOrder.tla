----------------------------- MODULE BuildOrder -----------------------------
(***************************************************************************)
(* What the setup promises about the order of its work: within a command a *)
(* package becomes ready only when every package it needs is ready, and    *)
(* stays ready until the command ends.                                     *)
(***************************************************************************)
CONSTANTS
  Package,
  needs      \* [Package -> SUBSET Package]: the packages one depends on directly

VARIABLE ready

Init == ready = {}

MakeReady(p) == p \notin ready /\ needs[p] \subseteq ready /\ ready' = ready \cup {p}
EndCommand == ready' = {}

Next == EndCommand \/ \E p \in Package : MakeReady(p)
Spec == Init /\ [][Next]_ready
=============================================================================
