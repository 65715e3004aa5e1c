---------------------------- MODULE MCHMStandard ----------------------------
(***************************************************************************)
(* Instances of HMStandard for TLC: red zones of one word in an arena of   *)
(* eleven words.  The blocks overlap, so that memory is handed out again   *)
(* under other limits, and their sizes leave 0, 1 and 7 bytes in the last  *)
(* word, with and without slack.                                           *)
(***************************************************************************)
EXTENDS HMStandard, TLC

ASAN    == [fastCheck |-> FALSE, ASANCheck |-> TRUE,  useRegistration |-> TRUE]
FastASAN == [ASAN EXCEPT !.fastCheck = TRUE]
Bits    == [ASAN EXCEPT !.ASANCheck = FALSE]

MCBuilds == {ASAN, FastASAN, Bits}

Of(start, sz, usable) == [M |-> start, R |-> start + RZ + sz, U |-> usable]

Threads == Permutations(Thread)

MCBlocks == {Of(0, 7, 40), Of(24, 1, 24), Of(48, 9, 40)}

=============================================================================
