----------------------------- MODULE CamPTZWorker -----------------------------
(***************************************************************************)
(* The request path of CamPTZ with smartSink off (--disable-smart-sink):   *)
(* Start, RequestImpl, the job queue, the jobEvent condition variable, the *)
(* worker thread threadMain and Terminate.  A job is one call of Request:  *)
(* the pair (request, callback) the code queues.  A call is a process of   *)
(* its own, so that calls of any number of threads interleave freely.      *)
(*                                                                         *)
(* The worker and Terminate hold jobEventMutex across several steps;       *)
(* RequestImpl locks, notifies and unlocks with nothing in between, one    *)
(* step here.  The queue's own mutex makes push and pop single steps.      *)
(***************************************************************************)
EXTENDS Naturals, Sequences

CONSTANTS
  Jobs,          \* the calls of Request
  Queries,       \* those that ask for a position: a send and a receive
  NoJob,         \* an empty std::optional<threadJob>
  MayTerminate   \* whether some thread calls Terminate (cliMain never does)

ASSUME JobsAssumption ==
  /\ Queries \subseteq Jobs
  /\ NoJob \notin Jobs
  /\ MayTerminate \in BOOLEAN

VARIABLES
  jobQueue,      \* CamPTZ::jobQueue
  jobEventMutex, \* "free", or the thread inside: "worker" or "terminate"
  threadClosing,
  threadExited,
  start,         \* control point of Start
  call,          \* control point of RequestImpl, for each job
  worker,        \* control point of threadMain
  job, error,    \* its locals of the same names
  terminate,     \* control point of Terminate
  response,      \* what each callback was invoked with, "none" before that
  peer,          \* the device's end of the connection: "open" or "closed"
  process        \* "running", or "aborted" by assert or SIGPIPE

queueVars  == <<jobQueue, jobEventMutex>>
flagVars   == <<threadClosing, threadExited>>
callerVars == <<start, call, terminate>>
localVars  == <<job, error>>
outVars    == <<response, peer>>

vars == <<queueVars, flagVars, callerVars, worker, localVars, outVars, process>>

-------------------------------------------------------------------------------
StartPoints  == {"spawn", "store", "done"}
CallPoints   == {"idle", "push", "notify", "accepted", "refused"}
WorkerPoints == {"unborn", "connect", "loop", "lock", "test", "block", "wait",
                 "wake", "pop", "assert", "send", "recv", "spin", "callback",
                 "check", "exit", "done"}
TerminatePoints == {"idle", "lock", "join", "returned"}

\* Every variable has its type.
TypeOK ==
  /\ jobQueue \in Seq(Jobs)
  /\ jobEventMutex \in {"free", "worker", "terminate"}
  /\ threadClosing \in BOOLEAN
  /\ threadExited \in BOOLEAN
  /\ start \in StartPoints
  /\ call \in [Jobs -> CallPoints]
  /\ worker \in WorkerPoints
  /\ job \in Jobs \cup {NoJob}
  /\ error \in BOOLEAN
  /\ terminate \in TerminatePoints
  /\ response \in [Jobs -> {"none", "success", "failure"}]
  /\ peer \in {"open", "closed"}
  /\ process \in {"running", "aborted"}

Init ==
  /\ jobQueue = <<>>
  /\ jobEventMutex = "free"
  /\ threadClosing = FALSE
  /\ threadExited = TRUE
  /\ start = "spawn"
  /\ call = [j \in Jobs |-> "idle"]
  /\ worker = "unborn"
  /\ job = NoJob
  /\ error = FALSE
  /\ terminate = "idle"
  /\ response = [j \in Jobs |-> "none"]
  /\ peer = "open"
  /\ process = "running"

-------------------------------------------------------------------------------
(* CamPTZ::Start.  The thread runs before the flag is cleared.             *)

SpawnWorker ==
  /\ start = "spawn"
  /\ start' = "store"
  /\ worker' = "connect"
  /\ UNCHANGED <<queueVars, flagVars, localVars, outVars, call, terminate>>

ClearExited ==
  /\ start = "store"
  /\ start' = "done"
  /\ threadExited' = FALSE
  /\ UNCHANGED <<queueVars, localVars, outVars, threadClosing, call, worker, terminate>>

-------------------------------------------------------------------------------
(* CamPTZ::RequestImpl.  cliMain shares the controller once Start returned. *)

\* Mutant: the notification is lost.
AfterNotifyLost == worker

\* notify_all: a waiting worker leaves the wait and competes for the mutex.
AfterNotify == IF worker = "wait" THEN "wake" ELSE worker

\* Mutant: notify_all without the mutex.
NotifyUnlocked == TRUE

\* Notifiers enter jobEventMutex first.
MayNotify == jobEventMutex = "free"

\* Mutant: the queue is a stack.
PushFront(j) == <<j>> \o jobQueue

\* jobQueue.push
PushBack(j) == Append(jobQueue, j)

Refuse(j) ==
  /\ call[j] = "idle"
  /\ start = "done"
  /\ threadExited
  /\ call' = [call EXCEPT ![j] = "refused"]
  /\ UNCHANGED <<queueVars, flagVars, localVars, outVars, start, worker, terminate>>

Admit(j) ==
  /\ call[j] = "idle"
  /\ start = "done"
  /\ ~threadExited
  /\ call' = [call EXCEPT ![j] = "push"]
  /\ UNCHANGED <<queueVars, flagVars, localVars, outVars, start, worker, terminate>>

Push(j) ==
  /\ call[j] = "push"
  /\ call' = [call EXCEPT ![j] = "notify"]
  /\ jobQueue' = PushBack(j)
  /\ UNCHANGED <<flagVars, localVars, outVars, jobEventMutex, start, worker, terminate>>

\* Mutant: the mutex is not released.
NotifyKeepsLock(j) ==
  /\ call[j] = "notify"
  /\ MayNotify
  /\ call' = [call EXCEPT ![j] = "accepted"]
  /\ worker' = AfterNotify
  /\ jobEventMutex' = j
  /\ UNCHANGED <<flagVars, localVars, outVars, jobQueue, start, terminate>>

Notify(j) ==
  /\ call[j] = "notify"
  /\ MayNotify
  /\ call' = [call EXCEPT ![j] = "accepted"]
  /\ worker' = AfterNotify
  /\ UNCHANGED <<queueVars, flagVars, localVars, outVars, start, terminate>>

RequestImpl(j) == Refuse(j) \/ Admit(j) \/ Push(j) \/ Notify(j)

-------------------------------------------------------------------------------
(* CamPTZ::threadMain.                                                     *)

\* connStart leaves sockConnected true, or false when any of its calls fails.
Connect ==
  /\ worker = "connect"
  /\ worker' \in {"loop", "exit"}
  /\ UNCHANGED <<queueVars, flagVars, callerVars, localVars, outVars>>

\* Mutant: while (true).
LoopOn ==
  /\ worker = "loop"
  /\ worker' = "lock"
  /\ error' = FALSE
  /\ UNCHANGED <<queueVars, flagVars, callerVars, outVars, job>>

\* The while test; connTerminate closes the socket on the way out.
Loop ==
  /\ worker = "loop"
  /\ worker' = IF threadClosing THEN "exit" ELSE "lock"
  /\ error' = FALSE
  /\ UNCHANGED <<queueVars, flagVars, callerVars, outVars, job>>

\* unique_lock, and the relock that ends a wait.
Lock ==
  /\ worker \in {"lock", "wake"}
  /\ jobEventMutex = "free"
  /\ jobEventMutex' = "worker"
  /\ worker' = "test"
  /\ UNCHANGED <<flagVars, callerVars, localVars, outVars, jobQueue>>

\* Mutant: a wait without a predicate.
NoPredicate == TRUE

\* The predicate of jobEvent.wait.
JobOrClosing == jobQueue # <<>> \/ threadClosing

Test ==
  /\ worker = "test"
  /\ worker' = IF JobOrClosing THEN "pop" ELSE "block"
  /\ UNCHANGED <<queueVars, flagVars, callerVars, localVars, outVars>>

Block ==
  /\ worker = "block"
  /\ worker' = "wait"
  /\ jobEventMutex' = "free"
  /\ UNCHANGED <<flagVars, callerVars, localVars, outVars, jobQueue>>

SpuriousWakeup ==
  /\ worker = "wait"
  /\ worker' = "wake"
  /\ UNCHANGED <<queueVars, flagVars, callerVars, localVars, outVars>>

\* Mutant: front without pop.
PeekOnly == jobQueue
Popped == Tail(jobQueue)

\* ThreadsafeQueue::pop, on an empty queue too; the lock's scope ends.
Pop ==
  /\ worker = "pop"
  /\ IF jobQueue = <<>>
     THEN job' = NoJob /\ UNCHANGED jobQueue
     ELSE job' = Head(jobQueue) /\ jobQueue' = Popped
  /\ jobEventMutex' = "free"
  /\ worker' = "assert"
  /\ UNCHANGED <<flagVars, callerVars, outVars, error>>

AssertJob ==
  /\ worker = "assert"
  /\ job # NoJob
  /\ worker' = "send"
  /\ UNCHANGED <<queueVars, flagVars, callerVars, localVars, outVars>>

\* send_fixed succeeds or returns -1; a query receives whichever it was.
Send ==
  /\ worker = "send"
  /\ error' \in BOOLEAN
  /\ worker' = IF job \in Queries THEN "recv" ELSE "callback"
  /\ UNCHANGED <<queueVars, flagVars, callerVars, outVars, job>>

\* recv_fixed fills the buffer.
RecvReply ==
  /\ worker = "recv"
  /\ peer = "open"
  /\ worker' = "callback"
  /\ UNCHANGED <<queueVars, flagVars, callerVars, localVars, outVars>>

RecvError ==
  /\ worker = "recv"
  /\ error' = TRUE
  /\ worker' = "callback"
  /\ UNCHANGED <<queueVars, flagVars, callerVars, outVars, job>>

\* recv returns 0 and bytes_read never grows: recv_fixed is not left again.
RecvEof ==
  /\ worker = "recv"
  /\ peer = "closed"
  /\ worker' = "spin"
  /\ UNCHANGED <<queueVars, flagVars, callerVars, localVars, outVars>>

Callback ==
  /\ worker = "callback"
  /\ response' = [response EXCEPT ![job] = IF error THEN "failure" ELSE "success"]
  /\ worker' = "check"
  /\ UNCHANGED <<queueVars, flagVars, callerVars, localVars, peer>>

\* Mutant: the worker goes on after an error.
AfterJobRetry == "loop"
AfterJob == IF error THEN "exit" ELSE "loop"

\* The end of the loop body; job goes out of scope.
CheckError ==
  /\ worker = "check"
  /\ worker' = AfterJob
  /\ job' = NoJob
  /\ UNCHANGED <<queueVars, flagVars, callerVars, outVars, error>>

\* Mutant: the flag is left as it is.
ExitSilently ==
  /\ worker = "exit"
  /\ worker' = "done"
  /\ UNCHANGED <<queueVars, flagVars, callerVars, localVars, outVars>>

ExitThread ==
  /\ worker = "exit"
  /\ worker' = "done"
  /\ threadExited' = TRUE
  /\ UNCHANGED <<queueVars, callerVars, localVars, outVars, threadClosing>>

Recv == RecvReply \/ RecvError \/ RecvEof

ThreadMain ==
  \/ Connect \/ Loop \/ Lock \/ Test \/ Block \/ Pop \/ AssertJob
  \/ Send \/ Recv \/ Callback \/ CheckError \/ ExitThread

-------------------------------------------------------------------------------
(* CamPTZ::Terminate, called at most once: it joins the worker.            *)

AnnounceClosing ==
  /\ MayTerminate
  /\ terminate = "idle"
  /\ start = "done"
  /\ terminate' = "lock"
  /\ threadClosing' = TRUE
  /\ UNCHANGED <<queueVars, localVars, outVars, threadExited, start, call, worker>>

NotifyClosing ==
  /\ terminate = "lock"
  /\ MayNotify
  /\ jobEventMutex' = "terminate"
  /\ terminate' = "join"
  /\ worker' = AfterNotify
  /\ UNCHANGED <<flagVars, localVars, outVars, jobQueue, start, call>>

\* Mutant: the join is left out.
NotJoined == TRUE
Joined == worker = "done"

\* worker.join() returned; the lock's scope ends with the function.
JoinWorker ==
  /\ terminate = "join"
  /\ Joined
  /\ terminate' = "returned"
  /\ threadExited' = TRUE
  /\ jobEventMutex' = "free"
  /\ UNCHANGED <<localVars, outVars, jobQueue, threadClosing, start, call, worker>>

Terminate == AnnounceClosing \/ NotifyClosing \/ JoinWorker

-------------------------------------------------------------------------------
(* The device, and the ways the whole process dies.                        *)

PeerCloses ==
  /\ peer = "open"
  /\ peer' = "closed"
  /\ UNCHANGED <<queueVars, flagVars, callerVars, localVars, worker, response>>

\* assert(job.has_value()) fails, or the send raises SIGPIPE.
Abort ==
  /\ \/ worker = "assert" /\ job = NoJob
     \/ worker = "send" /\ peer = "closed"
  /\ process' = "aborted"
  /\ UNCHANGED <<queueVars, flagVars, callerVars, localVars, outVars, worker>>

Step ==
  \/ SpawnWorker \/ ClearExited
  \/ \E j \in Jobs : RequestImpl(j)
  \/ ThreadMain \/ SpuriousWakeup
  \/ Terminate
  \/ PeerCloses

Next ==
  /\ process = "running"
  /\ \/ Step /\ UNCHANGED process
     \/ Abort

Spec == Init /\ [][Next]_vars

(***************************************************************************)
(* The operating system runs every runnable thread, and a pending send or  *)
(* receive completes: the device answers, or the connection fails.  No     *)
(* caller is obliged to call, no peer to close, no wakeup to be spurious.  *)
(***************************************************************************)
Running(A) == process = "running" /\ A /\ UNCHANGED process

Fairness ==
  /\ WF_vars(Running(SpawnWorker)) /\ WF_vars(Running(ClearExited))
  /\ \A j \in Jobs : WF_vars(Running(Push(j))) /\ WF_vars(Running(Notify(j)))
  /\ WF_vars(Running(ThreadMain))
  /\ WF_vars(Running(NotifyClosing)) /\ WF_vars(Running(JoinWorker))
  /\ WF_vars(process = "running" /\ Abort)

FairSpec == Spec /\ Fairness

-------------------------------------------------------------------------------
(* Properties.                                                             *)

Queued(j) == \E i \in 1..Len(jobQueue) : jobQueue[i] = j

\* A worker asleep on a non-empty queue, or with closing announced, has a
\* notification on its way: RequestImpl and Terminate change the state first
\* and notify under jobEventMutex afterwards, so none falls between the
\* worker's test and its wait.
NoLostWakeup ==
  worker = "wait" =>
    /\ jobQueue # <<>> => \E j \in Jobs : call[j] = "notify"
    /\ threadClosing => terminate = "lock"

\* RequestImpl's true return is a promise about one job: it is in the queue,
\* in the worker's hands or answered, in one of these places only and once.
EachJobOnce ==
  /\ \A j \in Jobs :
       /\ call[j] \in {"notify", "accepted"}
            <=> Queued(j) \/ job = j \/ response[j] # "none"
       /\ Queued(j) => job # j /\ response[j] = "none"
  /\ \A m, n \in 1..Len(jobQueue) : jobQueue[m] = jobQueue[n] => m = n

\* A job answered with failure is the worker's last: after a socket error
\* threadMain sends nothing more, whatever was queued meanwhile.
FailureIsLast ==
  \A j \in Jobs : response[j] = "failure" => worker \in {"check", "exit", "done"}

\* No callback is invoked once Terminate has returned, so what the callbacks
\* refer to may be destroyed then.
TerminateIsFinal == [][terminate = "returned" => UNCHANGED response]_vars

\* While the worker lives, every admitted request is answered.  It stops
\* serving after a socket error, in the receive loop of a closed connection,
\* when closing was announced and when the process died.
Gone == worker \in {"exit", "done", "spin"} \/ threadClosing \/ process = "aborted"

AdmittedAnswered ==
  \A j \in Jobs :
    call[j] \in {"notify", "accepted"} ~> response[j] # "none" \/ Gone

\* The worker comes out of its wait without a job only when closing was
\* announced: nothing but Terminate trips the assertion on job.
EmptyPopMeansClosing == worker = "assert" /\ job = NoJob => threadClosing

\* A worker that served and left refuses: the store of Start, which may hide
\* the exit of one that never connected, never hides this one.
LeftWorkerRefuses ==
  worker = "done" /\ (\E j \in Jobs : response[j] # "none") => threadExited

\* Terminate joins with jobEventMutex locked, which stops it and the worker
\* for ever when the worker is in its wait or on the way there; but when it
\* meets a job in the worker's hands it returns after that job.
TerminateReturnsAfterJob ==
  terminate = "join" /\ job # NoJob ~>
    terminate = "returned" \/ worker = "spin" \/ process = "aborted"

\* The worker path implements RotatorService: the queue with the job in the
\* worker's hands in front is what is pending.
Pending ==
  IF job # NoJob /\ response[job] = "none" THEN <<job>> \o jobQueue ELSE jobQueue

Status ==
  [j \in Jobs |->
     CASE response[j] # "none" -> "answered"
       [] response[j] = "none" /\ call[j] \in {"notify", "accepted"} -> "pending"
       [] response[j] = "none" /\ call[j] = "refused" -> "refused"
       [] OTHER -> "new"]

Service == INSTANCE RotatorService WITH pending <- Pending, status <- Status
Implements == Service!Spec

===============================================================================
