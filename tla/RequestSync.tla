----------------------------- MODULE RequestSync ------------------------------
(***************************************************************************)
(* RotatorController::RequestSync, the blocking call that the sessions of  *)
(* rotctld and the keep-alive thread make on a controller.                 *)
(*                                                                         *)
(* Each caller is a thread's stack on which one call follows another.  The *)
(* call number n of caller c is the pair <<c, n>>; its response and its    *)
(* condition variable live in the stack frame of the call, and the         *)
(* callback it hands to Request refers to them.  When the call returns     *)
(* before the callback ran, the reference dangles: the write then lands    *)
(* where the frame was, which may be the frame of a later call on the same *)
(* stack, or memory without a meaning here.                                *)
(*                                                                         *)
(* The controller behind Request is the abstract RotatorService.  The      *)
(* callback takes no lock, so its write and its notification are two       *)
(* steps of the controller's thread.                                       *)
(***************************************************************************)
EXTENDS Naturals, Sequences

CONSTANTS
  Callers,    \* the threads that call RequestSync
  Timed,      \* those that pass a timeout; 0, without limit, the others
  MaxCalls,   \* bound: how many calls each of them makes
  None,       \* an empty std::optional<RotatorResponse>
  Running     \* what a call that has not returned has for a result

Calls == Callers \X (1..MaxCalls)

ASSUME CallsAssumption ==
  /\ Timed \subseteq Callers
  /\ MaxCalls \in Nat
  /\ None \notin Calls
  /\ Running \notin Calls \cup {None}

VARIABLES
  pending,    \* RotatorService: the admitted calls in order,
  status,     \* and how far each has come
  delivering, \* the call whose callback wrote and has not notified yet
  pc,         \* control point of each caller in RequestSync
  frame,      \* number of each caller's latest call
  respTemp,   \* the latest frame's response: the call it answers, or None
  result,     \* what each call returned
  clean       \* history: no callback of the caller was left at its call

serviceVars == <<pending, status>>
vars == <<serviceVars, delivering, pc, frame, respTemp, result, clean>>

Controller == INSTANCE RotatorService WITH Jobs <- Calls

Points == {"idle", "request", "accepted", "wait", "awake"}
Responses == Calls \cup {None}

\* Every variable has its type.
TypeOK ==
  /\ pending \in Seq(Calls)
  /\ status \in [Calls -> {"new", "refused", "pending", "answered"}]
  /\ delivering \in Responses
  /\ pc \in [Callers -> Points]
  /\ frame \in [Callers -> 0..MaxCalls]
  /\ respTemp \in [Callers -> Responses]
  /\ result \in [Calls -> Responses \cup {Running}]
  /\ clean \in [Callers -> BOOLEAN]

Init ==
  /\ Controller!Init
  /\ delivering = None
  /\ pc = [c \in Callers |-> "idle"]
  /\ frame = [c \in Callers |-> 0]
  /\ respTemp = [c \in Callers |-> None]
  /\ result = [x \in Calls |-> Running]
  /\ clean = [c \in Callers |-> TRUE]

Current(c) == <<c, frame[c]>>

\* A callback of the call has still to write or to notify.
Outstanding(x) == status[x] = "pending" \/ delivering = x

-------------------------------------------------------------------------------
(* The caller.                                                             *)

\* Mutant: respTemp is not initialised.
CallUninitialised(c) ==
  /\ pc[c] = "idle"
  /\ frame[c] < MaxCalls
  /\ frame' = [frame EXCEPT ![c] = @ + 1]
  /\ respTemp' = [respTemp EXCEPT ![c] = Running]
  /\ pc' = [pc EXCEPT ![c] = "request"]
  /\ clean' = [clean EXCEPT ![c] = \A n \in 1..MaxCalls : ~Outstanding(<<c, n>>)]
  /\ UNCHANGED <<serviceVars, delivering, result>>

\* A new frame, with an empty response and cv_m locked.
Call(c) ==
  /\ pc[c] = "idle"
  /\ frame[c] < MaxCalls
  /\ frame' = [frame EXCEPT ![c] = @ + 1]
  /\ respTemp' = [respTemp EXCEPT ![c] = None]
  /\ pc' = [pc EXCEPT ![c] = "request"]
  /\ clean' = [clean EXCEPT ![c] = \A n \in 1..MaxCalls : ~Outstanding(<<c, n>>)]
  /\ UNCHANGED <<serviceVars, delivering, result>>

ReturnFrom(c) ==
  /\ pc' = [pc EXCEPT ![c] = "idle"]
  /\ result' = [result EXCEPT ![Current(c)] = respTemp[c]]

\* "failed to submit".
Refused(c) ==
  /\ pc[c] = "request"
  /\ Controller!Refuse(Current(c))
  /\ ReturnFrom(c)
  /\ UNCHANGED <<delivering, frame, respTemp, clean>>

Accepted(c) ==
  /\ pc[c] = "request"
  /\ Controller!Admit(Current(c))
  /\ pc' = [pc EXCEPT ![c] = "accepted"]
  /\ UNCHANGED <<delivering, frame, respTemp, result, clean>>

\* The callback runs inside Request, where it finds nobody to notify.
AnsweredInside(c) ==
  /\ pc[c] = "request"
  /\ Controller!AnswerAtOnce(Current(c))
  /\ respTemp' = [respTemp EXCEPT ![c] = Current(c)]
  /\ pc' = [pc EXCEPT ![c] = "accepted"]
  /\ UNCHANGED <<delivering, frame, result, clean>>

\* cv.wait or cv.wait_for, without a look at respTemp.
Wait(c) ==
  /\ pc[c] = "accepted"
  /\ pc' = [pc EXCEPT ![c] = "wait"]
  /\ UNCHANGED <<serviceVars, delivering, frame, respTemp, result, clean>>

WakeUp(c) == pc[c] = "wait" /\ pc' = [pc EXCEPT ![c] = "awake"]

\* Mutant: the timeout is heeded with a response at hand only.
TimeoutWithAnswer(c) ==
  /\ c \in Timed
  /\ respTemp[c] # None
  /\ WakeUp(c)
  /\ UNCHANGED <<serviceVars, delivering, frame, respTemp, result, clean>>

Timeout(c) ==
  /\ c \in Timed
  /\ WakeUp(c)
  /\ UNCHANGED <<serviceVars, delivering, frame, respTemp, result, clean>>

SpuriousWakeup(c) ==
  /\ WakeUp(c)
  /\ UNCHANGED <<serviceVars, delivering, frame, respTemp, result, clean>>

Return(c) ==
  /\ pc[c] = "awake"
  /\ ReturnFrom(c)
  /\ UNCHANGED <<serviceVars, delivering, frame, respTemp, clean>>

-------------------------------------------------------------------------------
(* The callback, on the controller's thread.                               *)

\* Mutant: respTemp is shared by the callers.
HitsEverybody(x) == {Callers}

\* The callers whose live frame a reference into the frame of call x can
\* hit: its own while the call runs; afterwards that of a later call on the
\* same stack, which may have the same address, or none.
Hits(x) ==
  LET c == x[1] IN
  CASE pc[c] = "idle" -> {{}}
    [] pc[c] # "idle" /\ frame[c] = x[2] -> {{c}}
    [] OTHER -> {{c}, {}}

CallbackWrite ==
  /\ delivering = None
  /\ Controller!Answer
  /\ delivering' = Head(pending)
  /\ \E hit \in Hits(Head(pending)) :
       respTemp' = [c \in Callers |-> IF c \in hit THEN Head(pending) ELSE respTemp[c]]
  /\ UNCHANGED <<pc, frame, result, clean>>

CallbackNotify ==
  /\ delivering # None
  /\ delivering' = None
  /\ \E hit \in Hits(delivering) :
       pc' = [c \in Callers |-> IF c \in hit /\ pc[c] = "wait" THEN "awake" ELSE pc[c]]
  /\ UNCHANGED <<serviceVars, frame, respTemp, result, clean>>

Caller(c) ==
  \/ Call(c) \/ Refused(c) \/ Accepted(c) \/ AnsweredInside(c)
  \/ Wait(c) \/ Timeout(c) \/ SpuriousWakeup(c) \/ Return(c)

Next ==
  \/ \E c \in Callers : Caller(c)
  \/ CallbackWrite \/ CallbackNotify

Spec == Init /\ [][Next]_vars

(***************************************************************************)
(* Callers run, clocks advance, and a callback that began ends.  The       *)
(* controller may never answer: no fairness on CallbackWrite.  Request     *)
(* itself does not block.                                                  *)
(***************************************************************************)
Fairness ==
  /\ \A c \in Callers :
       /\ WF_vars(Refused(c) \/ Accepted(c) \/ AnsweredInside(c))
       /\ WF_vars(Wait(c)) /\ WF_vars(Timeout(c)) /\ WF_vars(Return(c))
  /\ WF_vars(CallbackNotify)

FairSpec == Spec /\ Fairness

-------------------------------------------------------------------------------
(* Properties.                                                             *)

\* A call that started with no callback of its caller left over holds its
\* own response exactly when its callback has written: concurrent callers
\* and late callbacks of theirs never interfere with it.
CleanCallExact ==
  \A c \in Callers :
    clean[c] /\ pc[c] # "idle" =>
      respTemp[c] = IF status[Current(c)] = "answered" THEN Current(c) ELSE None

\* A call returns somebody else's response only if that is an earlier call
\* on the same stack, one the controller accepted and the caller gave up.
ForeignIsAbandoned ==
  \A c \in Callers, n \in 1..MaxCalls :
    result[<<c, n>>] \in Calls \ {<<c, n>>} =>
      \E m \in 1..(n - 1) : /\ result[<<c, n>>] = <<c, m>>
                           /\ result[<<c, m>>] # <<c, m>>

\* A call with a timeout ends, even when the controller never answers and
\* whatever the callbacks of abandoned calls do to it.
TimedCallEnds ==
  \A c \in Timed, n \in 1..MaxCalls :
    pc[c] # "idle" /\ frame[c] = n ~> result[<<c, n>>] # Running

\* With its frames, waits and callbacks RequestSync keeps the promise of
\* BlockingCalls: an answer is never lost on its way, though a notification
\* may be, and what goes astray stays with its caller.
Blocking == INSTANCE BlockingCalls
Implements == Blocking!CallsSpec

-------------------------------------------------------------------------------
(* What the repository says of this code and the code does not do.         *)

\* The Source will "forward the response to the request made by `Sink`":
\* a request is answered with the response to it or with an error.
ResponseMatchesRequest ==
  \A x \in Calls : result[x] \in {x, None, Running}
===============================================================================
