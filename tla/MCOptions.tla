------------------------------ MODULE MCOptions -------------------------------
(***************************************************************************)
(* An instance of Options for TLC: an option of each type besides --help.  *)
(***************************************************************************)
EXTENDS Options

CONSTANTS help, keepalive, port, offset, host, whole, decimal, word

SomeSwitches == {help, keepalive}
===============================================================================
