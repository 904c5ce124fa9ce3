------------------------------ MODULE SmartSink -------------------------------
(***************************************************************************)
(* CamPTZ::RequestImpl with smartSink on, the sampling chains it starts,   *)
(* and the keep-alive thread, which lives on what smartSink records.       *)
(*                                                                         *)
(* RequestImpl runs on many threads at once: one per call of Request (the  *)
(* jobs), the keep-alive thread, and the thread on which a sampling chain  *)
(* replays its request.  A chain asks for azimuth and elevation, sleeps,   *)
(* asks for both again and decides on the replay; each question is itself  *)
(* a call of RequestImpl, made by whichever thread runs the chain at that  *)
(* point: its starter, the detached timer thread, or the worker when the   *)
(* question went through the queue.                                        *)
(*                                                                         *)
(* The queue and its worker are CamPTZWorker's, with one step per job.     *)
(* Angles are abstract: what a chain makes of its samples is open here and *)
(* the subject of SmartSinkSamples.  Time is abstract: the 7 s since       *)
(* lastPosChange may pass at any moment.                                   *)
(***************************************************************************)
EXTENDS Naturals, Sequences, FiniteSets

CONSTANTS
  Jobs,       \* calls of Request
  Chains,     \* bound: the sampling chains that can be alive at once, see Room
  KeepAlive,  \* the keep-alive thread
  WithKeepAlive, \* whether it runs
  MayFail,    \* whether the connection to the device can fail
  Values,     \* the angles that are requested
  Home,       \* 0.0, the initial lastAziTargetted and lastEleTargetted
  Query,      \* a request that changes no target: a query or a preset
  Requests,   \* what the jobs request
  Unset       \* the device before its first command

AllAxes  == {"azi", "ele"}
Changes  == AllAxes \X Values
Threads  == Jobs \cup Chains \cup {KeepAlive}

ASSUME SinkAssumption ==
  /\ Home \in Values /\ Unset \notin Values
  /\ Requests \subseteq Changes \cup {Query}
  /\ WithKeepAlive \in BOOLEAN /\ MayFail \in BOOLEAN
  /\ KeepAlive \notin Jobs \cup Chains
  /\ Jobs \cap Chains = {}
  /\ Threads \cap {"timer", "queue", "worker"} = {}

VARIABLES
  sampling,      \* smartSinkSampling
  targetChanged, \* smartSinkTargetChanged
  lastTarget,    \* lastAziTargetted and lastEleTargetted
  recent,        \* less than changeEffectiveMargin since lastPosChange
  pc,            \* control point of each thread in RequestImpl
  req,           \* its request
  answer,        \* what its callback was invoked with, "none" before that
  suppressPushing, \* the variable of its RequestImpl
  stage,         \* how far each chain has come
  runner,        \* who runs it: a thread, "timer", "queue" or "worker"
  queue,         \* jobQueue: whose, the request, and whether it is a chain's question
  owed,          \* history: the jobs pushed and not answered yet, in order
  error,         \* threadMain's: the job it serves is its last
  spinning,      \* threadMain is in recv_fixed for ever, see RecvEof
  exited,        \* threadExited
  device,        \* the last command the device got, for each axis
  keepAlive      \* the loop of the keep-alive thread: axis, error, ended

sinkVars   == <<sampling, targetChanged, lastTarget, recent>>
callVars   == <<req, answer, suppressPushing>>
threadVars == <<pc, callVars>>
chainVars  == <<stage, runner>>
workerVars == <<queue, owed, error, spinning, exited, device>>
vars == <<sinkVars, threadVars, chainVars, workerVars, keepAlive>>

-------------------------------------------------------------------------------
Recording == {"compare", "flag", "stamp", "store"}
Points == {"idle", "evaluate", "recent", "test", "claim", "start", "suppress", "fake",
           "push", "done", "refused"} \cup Recording
Stages == {"free", "azi1", "ele1", "sleep", "azi2", "ele2", "decide", "end"}
Item(t, r, s) == [of |-> t, req |-> r, sample |-> s]

\* Every variable has its type.
TypeOK ==
  /\ sampling \in BOOLEAN /\ targetChanged \in BOOLEAN /\ recent \in BOOLEAN
  /\ lastTarget \in [AllAxes -> Values]
  /\ pc \in [Threads -> Points]
  /\ req \in [Threads -> Changes \cup {Query}]
  /\ answer \in [Threads -> {"none", "fake", "success", "failure"}]
  /\ suppressPushing \in [Threads -> BOOLEAN]
  /\ stage \in [Chains -> Stages]
  /\ runner \in [Chains -> Threads \cup {"timer", "queue", "worker"}]
  /\ queue \in Seq([of : Threads, req : Changes \cup {Query}, sample : BOOLEAN])
  /\ owed \in Seq(Jobs)
  /\ error \in BOOLEAN /\ spinning \in BOOLEAN /\ exited \in BOOLEAN
  /\ device \in [AllAxes -> Values \cup {Unset}]
  /\ keepAlive \in [axis : AllAxes, error : BOOLEAN, ended : BOOLEAN]

\* The worker has connected.  With the keep-alive thread connStart has just set
\* lastPosChange; else it is the clock's epoch.
Init ==
  /\ sampling = FALSE /\ targetChanged = FALSE /\ recent = WithKeepAlive
  /\ lastTarget = [a \in AllAxes |-> Home]
  /\ pc = [t \in Threads |-> "idle"]
  /\ req = [t \in Threads |-> Query]
  /\ answer = [t \in Threads |-> "none"]
  /\ suppressPushing = [t \in Threads |-> FALSE]
  /\ stage = [c \in Chains |-> "free"]
  /\ runner = [c \in Chains |-> "timer"]
  /\ queue = <<>> /\ owed = <<>>
  /\ error = FALSE /\ spinning = FALSE /\ exited = FALSE
  /\ device = [a \in AllAxes |-> Unset]
  /\ keepAlive = [axis |-> "azi", error |-> FALSE, ended |-> ~WithKeepAlive]

Goto(t, p) == pc' = [pc EXCEPT ![t] = p]

\* RequestImpl returns true, and its variables are gone.
ReturnTrue(t) ==
  /\ Goto(t, "done")
  /\ req' = [req EXCEPT ![t] = Query]
  /\ suppressPushing' = [suppressPushing EXCEPT ![t] = FALSE]

IsChange(r) == r # Query

\* The callback; a replayed request has a dummy.
Invoke(t, a) == answer' = IF t \in Chains THEN answer ELSE [answer EXCEPT ![t] = a]

-------------------------------------------------------------------------------
(* RequestImpl on thread t.                                                *)

\* RequestImpl begins with a look at threadExited.
Entry == IF exited THEN "refused" ELSE "evaluate"

\* The bound: a request arrives only while there is a chain left for it.
Room ==
  Cardinality({t \in Threads : pc[t] \in {"evaluate", "recent", "test", "claim", "start"}})
    < Cardinality({c \in Chains : stage[c] = "free"})

\* Sessions call when they like: one that got no answer in time goes on.
Call(j, r) ==
  /\ pc[j] = "idle" /\ Room
  /\ Goto(j, Entry)
  /\ req' = [req EXCEPT ![j] = r]
  /\ UNCHANGED <<sinkVars, chainVars, workerVars, answer, suppressPushing, keepAlive>>

\* cond1.
Repeats(r) == IsChange(r) /\ lastTarget[r[1]] = r[2]

\* cond1, from the target recorded last.
Evaluate(t) ==
  /\ pc[t] = "evaluate"
  /\ Goto(t, IF Repeats(req[t]) THEN "recent" ELSE "suppress")
  /\ UNCHANGED <<sinkVars, chainVars, workerVars, callVars, keepAlive>>

\* cond2, from lastPosChange.
Elapsed(t) ==
  /\ pc[t] = "recent"
  /\ Goto(t, IF recent THEN "test" ELSE "suppress")
  /\ UNCHANGED <<sinkVars, chainVars, workerVars, callVars, keepAlive>>

\* The first look at smartSinkSampling.
Test(t) ==
  /\ pc[t] = "test"
  /\ Goto(t, IF sampling THEN "suppress" ELSE "claim")
  /\ UNCHANGED <<sinkVars, chainVars, workerVars, callVars, keepAlive>>

Claim(t) ==
  /\ pc[t] = "claim"
  /\ Goto(t, "start")
  /\ sampling' = TRUE
  /\ UNCHANGED <<targetChanged, lastTarget, recent, chainVars, workerVars,
                 callVars, keepAlive>>

StartChain(t) ==
  /\ pc[t] = "start"
  /\ Goto(t, "fake")
  /\ targetChanged' = FALSE
  /\ \E c \in Chains :
       /\ stage[c] = "free"
       /\ stage' = [stage EXCEPT ![c] = "azi1"]
       /\ runner' = [runner EXCEPT ![c] = t]
       /\ req' = [req EXCEPT ![c] = req[t]]
  /\ UNCHANGED <<sampling, lastTarget, recent, workerVars, answer, suppressPushing, keepAlive>>

\* The second look at smartSinkSampling.
Suppress(t) ==
  /\ pc[t] = "suppress"
  /\ Goto(t, IF sampling THEN "fake" ELSE "compare")
  /\ UNCHANGED <<sinkVars, chainVars, workerVars, callVars, keepAlive>>

\* The fake callback, after the questions of the chain t may have started.
FakeAnswer(t) ==
  /\ pc[t] = "fake"
  /\ \A c \in Chains : stage[c] = "free" \/ runner[c] # t
  /\ Goto(t, "compare")
  /\ Invoke(t, "fake")
  /\ suppressPushing' = [suppressPushing EXCEPT ![t] = TRUE]
  /\ UNCHANGED <<sinkVars, chainVars, workerVars, req, keepAlive>>

\* What follows the recording, of a suppressed request like of any other.
Leave(t) ==
  IF suppressPushing[t] THEN ReturnTrue(t)
  ELSE Goto(t, "push") /\ UNCHANGED <<req, suppressPushing>>

\* Mutant: lastPosChange is set by repeats as well.
Restamps(r) == IF Repeats(r) THEN "stamp" ELSE "flag"

\* Where the comparison of the requested with the last target leads.
Compared(r) == IF Repeats(r) THEN "store" ELSE "flag"

\* Only changes of a target are recorded.
Compare(t) ==
  /\ pc[t] = "compare"
  /\ \/ /\ ~IsChange(req[t])
        /\ Leave(t)
     \/ /\ IsChange(req[t])
        /\ Goto(t, Compared(req[t]))
        /\ UNCHANGED <<req, suppressPushing>>
  /\ UNCHANGED <<sinkVars, chainVars, workerVars, answer, keepAlive>>

Flag(t) ==
  /\ pc[t] = "flag"
  /\ Goto(t, "stamp")
  /\ targetChanged' = TRUE
  /\ UNCHANGED <<sampling, lastTarget, recent, chainVars, workerVars, callVars, keepAlive>>

Stamp(t) ==
  /\ pc[t] = "stamp"
  /\ Goto(t, "store")
  /\ recent' = TRUE
  /\ UNCHANGED <<sampling, targetChanged, lastTarget, chainVars, workerVars, callVars, keepAlive>>

\* Mutant: an angle nobody requested is recorded.
RecordsUnset(r) == Unset

\* The angle that is recorded.
Recorded(r) == r[2]

Store(t) ==
  /\ pc[t] = "store"
  /\ lastTarget' = [lastTarget EXCEPT ![req[t][1]] = Recorded(req[t])]
  /\ Leave(t)
  /\ UNCHANGED <<sampling, targetChanged, recent, chainVars, workerVars, answer, keepAlive>>

\* Mutant: the queue is a stack.
PushFirst(t) ==
  /\ pc[t] = "push"
  /\ ReturnTrue(t)
  /\ queue' = <<Item(t, req[t], FALSE)>> \o queue
  /\ owed' = IF t \in Jobs THEN Append(owed, t) ELSE owed
  /\ UNCHANGED <<sinkVars, chainVars, error, spinning, exited, device, answer, keepAlive>>

Push(t) ==
  /\ pc[t] = "push"
  /\ ReturnTrue(t)
  /\ queue' = Append(queue, Item(t, req[t], FALSE))
  /\ owed' = IF t \in Jobs THEN Append(owed, t) ELSE owed
  /\ UNCHANGED <<sinkVars, chainVars, error, spinning, exited, device, answer, keepAlive>>

RequestImpl(t) ==
  \/ Evaluate(t) \/ Elapsed(t) \/ Test(t) \/ Claim(t) \/ StartChain(t)
  \/ Suppress(t) \/ FakeAnswer(t)
  \/ Compare(t) \/ Flag(t) \/ Stamp(t) \/ Store(t)
  \/ Push(t)

-------------------------------------------------------------------------------
(* The chains.                                                             *)

\* The continuation of a question.
After == [azi1 |-> "ele1", ele1 |-> "sleep", azi2 |-> "ele2", ele2 |-> "decide"]

\* The chain goes on, run by r; the first pair of answers ends in a new thread.
Continue(c, r) ==
  /\ stage' = [stage EXCEPT ![c] = After[@]]
  /\ runner' = [runner EXCEPT ![c] = IF stage[c] = "ele1" THEN "timer" ELSE r]

Free(c) ==
  /\ stage' = [stage EXCEPT ![c] = "free"]
  /\ runner' = [runner EXCEPT ![c] = "timer"]
  /\ req' = [req EXCEPT ![c] = Query]

\* RequestImpl for a question: refused, faked, or pushed.
Ask(c) ==
  /\ stage[c] \in DOMAIN After
  /\ runner[c] # "queue"
  /\ \/ /\ exited
        /\ Free(c)
        /\ UNCHANGED queue
     \/ /\ ~exited /\ sampling
        /\ Continue(c, runner[c])
        /\ UNCHANGED <<req, queue>>
     \/ /\ ~exited /\ ~sampling
        /\ runner' = [runner EXCEPT ![c] = "queue"]
        /\ queue' = Append(queue, Item(c, Query, TRUE))
        /\ UNCHANGED <<req, stage>>
  /\ UNCHANGED <<sinkVars, pc, answer, suppressPushing, owed, error, spinning, exited, device,
                 keepAlive>>

Wake(c) ==
  /\ stage[c] = "sleep"
  /\ stage' = [stage EXCEPT ![c] = "azi2"]
  /\ UNCHANGED <<sinkVars, threadVars, runner, workerVars, keepAlive>>

\* needReplay && !smartSinkTargetChanged: RequestImpl again, on the same thread.
Decide(c) ==
  /\ stage[c] = "decide"
  /\ stage' = [stage EXCEPT ![c] = "end"]
  /\ \/ UNCHANGED pc
     \/ /\ ~targetChanged /\ Room
        /\ Goto(c, Entry)
  /\ UNCHANGED <<sinkVars, callVars, runner, workerVars, keepAlive>>

Returned(c) == pc[c] \in {"idle", "done", "refused"}

\* Mutant: suppression is left on.
EndChainSampling(c) ==
  /\ stage[c] = "end" /\ Returned(c)
  /\ Free(c)
  /\ Goto(c, "idle")
  /\ UNCHANGED <<sinkVars, answer, suppressPushing, workerVars, keepAlive>>

EndChain(c) ==
  /\ stage[c] = "end" /\ Returned(c)
  /\ sampling' = FALSE
  /\ Free(c)
  /\ Goto(c, "idle")
  /\ UNCHANGED <<targetChanged, lastTarget, recent, answer, suppressPushing, workerVars, keepAlive>>

Chain(c) == Ask(c) \/ Wake(c) \/ Decide(c) \/ EndChain(c)

-------------------------------------------------------------------------------
(* The worker, the keep-alive thread and the clock.                        *)

WorkerFree ==
  /\ ~exited /\ ~spinning
  /\ \A c \in Chains : stage[c] = "free" \/ runner[c] # "worker"

\* A request reaches the device, or not, and is answered.
ServeRequest ==
  /\ WorkerFree /\ ~error
  /\ queue # <<>> /\ ~Head(queue).sample
  /\ queue' = Tail(queue)
  /\ owed' = IF Head(queue).of \in Jobs THEN Tail(owed) ELSE owed
  /\ error' \in {FALSE, MayFail}
  /\ Invoke(Head(queue).of, IF error' THEN "failure" ELSE "success")
  /\ LET r == Head(queue).req IN
     device' = IF IsChange(r) /\ ~error' THEN [device EXCEPT ![r[1]] = r[2]] ELSE device
  /\ UNCHANGED <<sinkVars, pc, req, suppressPushing, chainVars, spinning, exited, keepAlive>>

\* The worker runs the chain on, whatever became of the question.
ServeSample ==
  /\ WorkerFree /\ ~error
  /\ queue # <<>> /\ Head(queue).sample
  /\ queue' = Tail(queue)
  /\ error' \in {FALSE, MayFail}
  /\ Continue(Head(queue).of, "worker")
  /\ UNCHANGED <<sinkVars, threadVars, owed, spinning, exited, device, keepAlive>>

\* The device closes the connection while the worker awaits the answer to a
\* query: recv_fixed never ends, and the job, the first of queue, stays in hand.
RecvEof ==
  /\ MayFail
  /\ WorkerFree /\ ~error
  /\ queue # <<>> /\ Head(queue).req = Query
  /\ spinning' = TRUE
  /\ UNCHANGED <<sinkVars, threadVars, chainVars, queue, owed, error, exited, device, keepAlive>>

ExitThread ==
  /\ WorkerFree /\ error
  /\ exited' = TRUE
  /\ UNCHANGED <<sinkVars, threadVars, chainVars, queue, owed, error, spinning, device, keepAlive>>

ThreadMain == ServeRequest \/ ServeSample \/ RecvEof \/ ExitThread

\* The loop reads the target first and requests it afterwards.
KeepAliveRequest ==
  /\ ~keepAlive.ended /\ Room
  /\ pc[KeepAlive] = "idle"
  /\ Goto(KeepAlive, Entry)
  /\ req' = [req EXCEPT ![KeepAlive] = <<keepAlive.axis, lastTarget[keepAlive.axis]>>]
  /\ answer' = [answer EXCEPT ![KeepAlive] = "none"]
  /\ UNCHANGED <<sinkVars, suppressPushing, chainVars, workerVars, keepAlive>>

\* RequestSync returned, without a response when refused or timed out.
KeepAliveReturn ==
  /\ pc[KeepAlive] \in {"done", "refused"}
  /\ Goto(KeepAlive, "idle")
  /\ LET failed == keepAlive.error \/ answer[KeepAlive] = "none" IN
     keepAlive' = IF keepAlive.axis = "azi"
                  THEN [axis |-> "ele", error |-> failed, ended |-> FALSE]
                  ELSE [axis |-> "azi", error |-> failed, ended |-> failed]
  /\ UNCHANGED <<sinkVars, callVars, chainVars, workerVars>>

Expire ==
  /\ recent
  /\ recent' = FALSE
  /\ UNCHANGED <<sampling, targetChanged, lastTarget, threadVars, chainVars, workerVars, keepAlive>>

Next ==
  \/ \E j \in Jobs, r \in Requests : Call(j, r)
  \/ \E t \in Threads : RequestImpl(t)
  \/ \E c \in Chains : Chain(c)
  \/ ThreadMain
  \/ KeepAliveRequest \/ KeepAliveReturn
  \/ Expire

Spec == Init /\ [][Next]_vars

(***************************************************************************)
(* Threads run, sleeps end, the worker serves or fails, and 7 s pass after *)
(* the last change of target.  Nobody has to call.                         *)
(***************************************************************************)
Fairness ==
  /\ \A t \in Threads : WF_vars(RequestImpl(t))
  /\ \A c \in Chains : WF_vars(Chain(c))
  /\ WF_vars(ThreadMain)
  /\ WF_vars(KeepAliveRequest) /\ WF_vars(KeepAliveReturn)
  /\ WF_vars(Expire)

FairSpec == Spec /\ Fairness

-------------------------------------------------------------------------------
(* Properties.                                                             *)

\* Suppression is never left switched on: while smartSinkSampling is set and
\* the worker has not exited, a chain that will reset it, and waits for no
\* answer of the worker, is alive or being started, whichever threads raced
\* for it.
SamplingHasOwner ==
  sampling /\ ~exited =>
    \/ \E c \in Chains : stage[c] # "free" /\ runner[c] # "queue"
    \/ \E t \in Threads : pc[t] = "start"

\* Suppression ends again and again: no request is suppressed for ever.
SamplingEnds == sampling ~> ~sampling \/ exited

\* However the requests were suppressed, once the recorded targets rest the
\* keep-alive thread brings the device there, unless device or thread gave up:
\* whoever compared with a target that another request has replaced since.
KeepAliveRestores ==
  <>[][FALSE]_lastTarget =>
    <>[](device = lastTarget) \/ <>(exited \/ keepAlive.ended)

\* Requests from outside are served as RotatorService promises: the chains'
\* questions and replays in the queue change neither their order nor the
\* number of their answers.
Status ==
  [j \in Jobs |->
     IF answer[j] # "none" THEN "answered"
     ELSE IF pc[j] = "done" THEN "pending"
     ELSE IF pc[j] = "refused" THEN "refused" ELSE "new"]

Service == INSTANCE RotatorService WITH pending <- owed, status <- Status
Implements == Service!Spec

-------------------------------------------------------------------------------
(* What the repository says of this code and the code does not do.         *)

\* "suppress subsequent (but same) pos change": what is answered without the
\* device is a change to the target already recorded.
SuppressesRepeatsOnly ==
  [][\A t \in Jobs : pc[t] = "fake" /\ pc'[t] # "fake" => Repeats(req[t])]_vars
===============================================================================
