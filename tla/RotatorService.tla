---------------------------- MODULE RotatorService ----------------------------
(***************************************************************************)
(* What RotatorController::Request promises its callers, whatever the      *)
(* device behind it: a request is refused at once, answered at once or     *)
(* admitted, admitted requests are answered one at a time in the order of  *)
(* their admission, and no request is answered twice.  Nothing obliges the *)
(* service to answer: the device may fail and the process may stop.        *)
(***************************************************************************)
EXTENDS Sequences

CONSTANT Jobs      \* the calls of Request ever made

VARIABLES pending, \* admitted and not yet answered, in order of admission
          status   \* how far each call has come

vars == <<pending, status>>

Init ==
  /\ pending = <<>>
  /\ status = [j \in Jobs |-> "new"]

\* Request returns false and drops the callback.
Refuse(j) ==
  /\ status[j] = "new"
  /\ status' = [status EXCEPT ![j] = "refused"]
  /\ UNCHANGED pending

\* The request becomes the controller's responsibility.
Admit(j) ==
  /\ status[j] = "new"
  /\ status' = [status EXCEPT ![j] = "pending"]
  /\ pending' = Append(pending, j)

\* The callback is invoked inside Request.
AnswerAtOnce(j) ==
  /\ status[j] = "new"
  /\ status' = [status EXCEPT ![j] = "answered"]
  /\ UNCHANGED pending

\* The callback of the oldest admitted request is invoked.
Answer ==
  /\ pending # <<>>
  /\ status' = [status EXCEPT ![Head(pending)] = "answered"]
  /\ pending' = Tail(pending)

Next ==
  \/ \E j \in Jobs : Refuse(j) \/ Admit(j) \/ AnswerAtOnce(j)
  \/ Answer

Spec == Init /\ [][Next]_vars
===============================================================================
