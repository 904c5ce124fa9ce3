------------------------------ MODULE MCRotctld -------------------------------
(***************************************************************************)
(* Instances of Rotctld for TLC.                                           *)
(***************************************************************************)
EXTENDS Rotctld

CONSTANT c1

OneClient        == {c1}
ThreeDescriptors == 3..5

\* A query, a position, a stop, a line like \dump_state, which has no reply but
\* a letter inside, and a query with a second letter.
SomeTexts == {<<"p">>, <<"P", "other">>, <<"S">>, <<"other", "p">>, <<"p", "p">>}
===============================================================================
