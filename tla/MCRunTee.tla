------------------------------ MODULE MCRunTee -------------------------------
(***************************************************************************)
(* Commands that print a line without an end, or more lines than a pipe    *)
(* holds, the last of them not UTF-8.                                      *)
(***************************************************************************)
EXTENDS RunTee

OutputsDef == {<<"part">>, <<"line">>, <<"line", "latin1">>}
=============================================================================
