----------------------------- MODULE MCSmartSink ------------------------------
(***************************************************************************)
(* Instances of SmartSink for TLC.                                         *)
(***************************************************************************)
EXTENDS SmartSink

CONSTANTS j1, j2, j3, \* requests
          k1, k2      \* sampling chains

OneJob    == {j1}
ThreeJobs == {j1, j2, j3}
TwoChains == {k1, k2}
TwoAngles == {0, 1}
AziOrQuery == {<<"azi", 1>>, Query}
AnyAzi    == ({"azi"} \X {0, 1}) \cup {Query}
===============================================================================
