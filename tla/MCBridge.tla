------------------------------- MODULE MCBridge -------------------------------
(***************************************************************************)
(* Instances of Bridge for TLC.                                            *)
(***************************************************************************)
EXTENDS Bridge, TLC

CONSTANTS s1, ka

OneAndKeepAlive == {s1, ka}
JustTwo == s1 :> 2
===============================================================================
