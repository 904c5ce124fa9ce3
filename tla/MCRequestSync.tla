---------------------------- MODULE MCRequestSync -----------------------------
(***************************************************************************)
(* Instances of RequestSync for TLC.                                       *)
(***************************************************************************)
EXTENDS RequestSync

CONSTANTS s1, s2  \* s1 waits with a timeout, s2 without

OneCaller  == {s1}
TwoCallers == {s1, s2}
===============================================================================
