---------------------------- MODULE MCCamPTZWorker ----------------------------
(***************************************************************************)
(* Instances of CamPTZWorker for TLC: commands and queries to choose from. *)
(***************************************************************************)
EXTENDS CamPTZWorker

CONSTANTS c1, c2, \* commands
          q1      \* a query

ThreeJobs == {c1, c2, q1}
OneQuery  == {q1}
===============================================================================
