---------------------------- MODULE BlockingCalls -----------------------------
(***************************************************************************)
(* What RequestSync promises to threads that call it one call after the    *)
(* other: a call is refused, or submitted to the controller and given back *)
(* later, with its own response if there was one by then, and otherwise    *)
(* with none.  Even a refused call may come back with the response to a    *)
(* call that its caller made before, the controller answered and the       *)
(* caller does not have: the weakest part of the promise.                  *)
(***************************************************************************)
EXTENDS Naturals, Sequences

CONSTANTS
  Callers,    \* the threads that call RequestSync
  MaxCalls,   \* bound: how many calls each of them makes
  None,       \* an empty std::optional<RotatorResponse>
  Running     \* what a call that has not returned has for a result

Calls == Callers \X (1..MaxCalls)

VARIABLES
  pending, status, \* RotatorService
  result           \* the call whose response each call returned

callVars == <<pending, status, result>>

Controller == INSTANCE RotatorService WITH Jobs <- Calls

CallsInit ==
  /\ Controller!Init
  /\ result = [x \in Calls |-> Running]

\* The caller has returned from all its calls before x.
Reached(x) == \A n \in 1..(x[2] - 1) : result[<<x[1], n>>] # Running

\* Calls of the same caller that were answered behind its back.
Late(x) == {y \in Calls : /\ y[1] = x[1] /\ y[2] < x[2]
                          /\ status[y] = "answered" /\ result[y] # y}

Reject(x) ==
  /\ Reached(x)
  /\ Controller!Refuse(x)
  /\ \E r \in Late(x) \cup {None} : result' = [result EXCEPT ![x] = r]

Submit(x) ==
  /\ Reached(x)
  /\ Controller!Admit(x)
  /\ UNCHANGED result

SubmitAnswered(x) ==
  /\ Reached(x)
  /\ Controller!AnswerAtOnce(x)
  /\ UNCHANGED result

Answer == Controller!Answer /\ UNCHANGED result

GiveBack(x) ==
  /\ status[x] \in {"pending", "answered"} /\ result[x] = Running
  /\ \E r \in Late(x) \cup {IF status[x] = "answered" THEN x ELSE None} :
       result' = [result EXCEPT ![x] = r]
  /\ UNCHANGED <<pending, status>>

CallsNext ==
  \/ \E x \in Calls : Reject(x) \/ Submit(x) \/ SubmitAnswered(x) \/ GiveBack(x)
  \/ Answer

CallsSpec == CallsInit /\ [][CallsNext]_callVars
===============================================================================
