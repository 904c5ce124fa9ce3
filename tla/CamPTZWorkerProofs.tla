-------------------------- MODULE CamPTZWorkerProofs --------------------------
(***************************************************************************)
(* Proofs about CamPTZWorker, for any number of calls.                     *)
(***************************************************************************)
EXTENDS CamPTZWorker, TLAPS

-------------------------------------------------------------------------------
(* The inductive invariant, by parts.                                      *)

\* The worker thread exists once Start spawned it.
StartInv == start = "spawn" <=> worker = "unborn"

\* jobEventMutex names the thread between its lock and its unlock.
MutexInv ==
  /\ worker \in {"test", "block", "pop"} <=> jobEventMutex = "worker"
  /\ terminate = "join" <=> jobEventMutex = "terminate"

\* NoLostWakeup, from the moment the wait's predicate was found false.
WakeupInv ==
  worker \in {"block", "wait"} =>
    /\ jobQueue # <<>> => \E j \in Jobs : call[j] = "notify"
    /\ threadClosing => terminate = "lock"

\* job is set from the pop to the end of the loop body, and unanswered until
\* its callback ran.
JobInv ==
  /\ worker \in {"send", "recv", "spin", "callback", "check"} => job # NoJob
  /\ worker \notin {"assert", "send", "recv", "spin", "callback", "check"}
       => job = NoJob
  /\ job # NoJob => (response[job] = "none" <=> worker # "check")

\* A failure was reported with error set.
ErrorInv ==
  \A j \in Jobs : response[j] = "failure" =>
     \/ worker = "check" /\ error
     \/ worker \in {"exit", "done"}

\* Terminate returns after the worker only.
ReturnInv == terminate = "returned" => worker = "done"

IInv ==
  /\ TypeOK
  /\ StartInv
  /\ MutexInv
  /\ WakeupInv
  /\ JobInv
  /\ EachJobOnce
  /\ ErrorInv
  /\ ReturnInv

-------------------------------------------------------------------------------
(* Types.                                                                  *)

\* The members' initialisers have the types.
LEMMA InitType == Init => TypeOK
<1> SUFFICES ASSUME Init PROVE TypeOK
  OBVIOUS
<1>1. start \in StartPoints /\ worker \in WorkerPoints /\ terminate \in TerminatePoints
  BY DEF Init, StartPoints, WorkerPoints, TerminatePoints
<1>2. call \in [Jobs -> CallPoints]
  BY DEF Init, CallPoints
<1>3. response \in [Jobs -> {"none", "success", "failure"}]
  BY DEF Init
<1>4. jobQueue \in Seq(Jobs) /\ job \in Jobs \cup {NoJob}
  BY DEF Init
<1> QED
  BY <1>1, <1>2, <1>3, <1>4 DEF Init, TypeOK

\* Each step changes few variables: their conjuncts are shown, the others kept.
LEMMA TypeStep == TypeOK /\ [Next]_vars => TypeOK'
<1>1. ASSUME TypeOK, Step, UNCHANGED process PROVE TypeOK'
  <2> USE <1>1
  <2> USE DEF queueVars, flagVars, callerVars, localVars, outVars
  <2>1. CASE SpawnWorker
    <3>1. start' \in StartPoints
      BY <2>1 DEF TypeOK, SpawnWorker, StartPoints
    <3>2. worker' \in WorkerPoints
      BY <2>1 DEF TypeOK, SpawnWorker, WorkerPoints
    <3> QED
      BY <2>1, <3>1, <3>2 DEF TypeOK, SpawnWorker
  <2>2. CASE ClearExited
    <3>1. start' \in StartPoints
      BY <2>2 DEF TypeOK, ClearExited, StartPoints
    <3> QED
      BY <2>2, <3>1 DEF TypeOK, ClearExited
  <2>3. ASSUME NEW j \in Jobs, Refuse(j) PROVE TypeOK'
    <3>1. call' \in [Jobs -> CallPoints]
      BY <2>3 DEF TypeOK, Refuse, CallPoints
    <3> QED
      BY <2>3, <3>1 DEF TypeOK, Refuse
  <2>4. ASSUME NEW j \in Jobs, Admit(j) PROVE TypeOK'
    <3>1. call' \in [Jobs -> CallPoints]
      BY <2>4 DEF TypeOK, Admit, CallPoints
    <3> QED
      BY <2>4, <3>1 DEF TypeOK, Admit
  <2>5. ASSUME NEW j \in Jobs, Push(j) PROVE TypeOK'
    <3>1. call' \in [Jobs -> CallPoints]
      BY <2>5 DEF TypeOK, Push, CallPoints
    <3>2. jobQueue' \in Seq(Jobs)
      BY <2>5 DEF TypeOK, Push, PushBack
    <3> QED
      BY <2>5, <3>1, <3>2 DEF TypeOK, Push
  <2>6. ASSUME NEW j \in Jobs, Notify(j) PROVE TypeOK'
    <3>1. call' \in [Jobs -> CallPoints]
      BY <2>6 DEF TypeOK, Notify, CallPoints
    <3>2. worker' \in WorkerPoints
      BY <2>6 DEF TypeOK, Notify, AfterNotify, WorkerPoints
    <3> QED
      BY <2>6, <3>1, <3>2 DEF TypeOK, Notify
  <2>7. CASE Connect \/ Loop \/ Lock \/ Test \/ Block \/ SpuriousWakeup \/ AssertJob \/ Send \/
            RecvReply \/ RecvError \/ RecvEof \/ CheckError \/ ExitThread
    <3> USE DEF Connect, Loop, Lock, Test, Block, SpuriousWakeup, AssertJob, Send, RecvReply,
      RecvError, RecvEof, CheckError, ExitThread
    <3>1. worker' \in WorkerPoints
      BY <2>7 DEF TypeOK, AfterJob, WorkerPoints
    <3> QED
      BY <2>7, <3>1 DEF TypeOK
  <2>8. CASE Pop
    <3>1. worker' \in WorkerPoints
      BY <2>8 DEF TypeOK, Pop, WorkerPoints
    <3>2. jobQueue' \in Seq(Jobs)
      <4>1. CASE jobQueue = <<>>
        BY <2>8, <4>1 DEF TypeOK, Pop
      <4>2. CASE jobQueue # <<>>
        <5>1. jobQueue' = Tail(jobQueue) /\ jobQueue \in Seq(Jobs)
          BY <2>8, <4>2 DEF TypeOK, Pop, Popped
        <5> QED BY <4>2, <5>1
      <4> QED BY <4>1, <4>2
    <3>3. job' \in Jobs \cup {NoJob}
      BY <2>8 DEF TypeOK, Pop
    <3> QED
      BY <2>8, <3>1, <3>2, <3>3 DEF TypeOK, Pop
  <2>9. CASE Callback
    <3>1. worker' \in WorkerPoints
      BY <2>9 DEF TypeOK, Callback, WorkerPoints
    <3>2. response' \in [Jobs -> {"none", "success", "failure"}]
      BY <2>9 DEF TypeOK, Callback
    <3> QED
      BY <2>9, <3>1, <3>2 DEF TypeOK, Callback
  <2>10. CASE AnnounceClosing
    <3>1. terminate' \in TerminatePoints
      BY <2>10 DEF TypeOK, AnnounceClosing, TerminatePoints
    <3> QED
      BY <2>10, <3>1 DEF TypeOK, AnnounceClosing
  <2>11. CASE NotifyClosing
    <3>1. terminate' \in TerminatePoints
      BY <2>11 DEF TypeOK, NotifyClosing, TerminatePoints
    <3>2. worker' \in WorkerPoints
      BY <2>11 DEF TypeOK, NotifyClosing, AfterNotify, WorkerPoints
    <3> QED
      BY <2>11, <3>1, <3>2 DEF TypeOK, NotifyClosing
  <2>12. CASE JoinWorker
    <3>1. terminate' \in TerminatePoints
      BY <2>12 DEF TypeOK, JoinWorker, TerminatePoints
    <3> QED
      BY <2>12, <3>1 DEF TypeOK, JoinWorker
  <2>13. CASE PeerCloses
    BY <2>13 DEF TypeOK, PeerCloses
  <2> QED
    BY <2>1, <2>2, <2>3, <2>4, <2>5, <2>6, <2>7, <2>8, <2>9, <2>10, <2>11, <2>12, <2>13
    DEF Step, RequestImpl, ThreadMain, Recv, Terminate
<1>2. ASSUME TypeOK, Abort PROVE TypeOK'
  BY <1>2 DEF TypeOK, Abort, queueVars, flagVars, callerVars, localVars, outVars
<1>3. ASSUME TypeOK, UNCHANGED vars PROVE TypeOK'
  BY <1>3 DEF TypeOK, vars, queueVars, flagVars, callerVars, localVars, outVars
<1> QED
  BY <1>1, <1>2, <1>3 DEF Next

\* TypeOK is inductive.
THEOREM TypeCorrect == Spec => []TypeOK
  BY InitType, TypeStep, PTL DEF Spec

-------------------------------------------------------------------------------
(* The parts of the invariant, step by step.                               *)

\* Only Spawn gives birth to the worker.
LEMMA StartStep == StartInv /\ [Next]_vars => StartInv'
<1> SUFFICES ASSUME StartInv, [Next]_vars PROVE StartInv'
  OBVIOUS
<1> USE DEF StartInv, queueVars, flagVars, callerVars, localVars, outVars
<1>1. CASE SpawnWorker
  BY <1>1 DEF SpawnWorker
<1>2. ASSUME NEW j \in Jobs, Refuse(j) \/ Admit(j) \/ Push(j) \/ Notify(j) PROVE StartInv'
  BY <1>2 DEF Refuse, Admit, Push, PushBack, Notify, AfterNotify, MayNotify
<1>3. CASE ClearExited \/ Connect \/ Loop \/ Lock \/ Test \/ Block \/ SpuriousWakeup \/ Pop \/
         AssertJob \/ Send \/ RecvReply \/ RecvError \/ RecvEof \/ Callback \/ CheckError \/
         ExitThread \/ AnnounceClosing \/ NotifyClosing \/ JoinWorker \/ PeerCloses \/ Abort \/
         UNCHANGED vars
  BY <1>3 DEF ClearExited, Connect, Loop, Lock, Test, Block, SpuriousWakeup, Pop,
     AssertJob, Send, RecvReply, RecvError, RecvEof, Callback, CheckError,
     ExitThread, AnnounceClosing, NotifyClosing, JoinWorker, PeerCloses, Abort, vars,
     JobOrClosing, Popped, AfterJob, AfterNotify, MayNotify, Joined
<1> QED
  BY <1>1, <1>2, <1>3
  DEF Next, Step, RequestImpl, ThreadMain, Recv, Terminate

\* Whoever enters jobEventMutex found it free.
LEMMA MutexStep == StartInv /\ MutexInv /\ [Next]_vars => MutexInv'
<1> SUFFICES ASSUME StartInv, MutexInv, [Next]_vars PROVE MutexInv'
  OBVIOUS
<1> USE DEF StartInv, MutexInv, queueVars, flagVars, callerVars, localVars, outVars
<1>1. ASSUME NEW j \in Jobs, Notify(j) PROVE MutexInv'
  BY <1>1 DEF Notify, AfterNotify, MayNotify
<1>2. CASE Lock
  BY <1>2 DEF Lock
<1>3. CASE Test
  BY <1>3 DEF Test, JobOrClosing
<1>4. CASE Block
  BY <1>4 DEF Block
<1>5. CASE Pop
  BY <1>5 DEF Pop, Popped
<1>6. CASE NotifyClosing
  BY <1>6 DEF NotifyClosing, AfterNotify, MayNotify
<1>7. CASE JoinWorker
  BY <1>7 DEF JoinWorker, Joined
<1>8. ASSUME NEW j \in Jobs, Refuse(j) \/ Admit(j) \/ Push(j) PROVE MutexInv'
  BY <1>8 DEF Refuse, Admit, Push, PushBack
<1>9. CASE SpawnWorker \/ ClearExited \/ Connect \/ Loop \/ SpuriousWakeup \/ AssertJob \/ Send \/
         RecvReply \/ RecvError \/ RecvEof \/ Callback \/ CheckError \/ ExitThread \/
         AnnounceClosing \/ PeerCloses \/ Abort \/ UNCHANGED vars
  BY <1>9 DEF SpawnWorker, ClearExited, Connect, Loop, SpuriousWakeup, AssertJob,
     Send, RecvReply, RecvError, RecvEof, Callback, CheckError, ExitThread,
     AnnounceClosing, PeerCloses, Abort, vars, AfterJob
<1> QED
  BY <1>1, <1>2, <1>3, <1>4, <1>5, <1>6, <1>7, <1>8, <1>9
  DEF Next, Step, RequestImpl, ThreadMain, Recv, Terminate

\* The worker tests and waits under jobEventMutex, which every notifier enters.
LEMMA WakeupStep == TypeOK /\ MutexInv /\ WakeupInv /\ [Next]_vars => WakeupInv'
<1> SUFFICES ASSUME TypeOK, MutexInv, WakeupInv, [Next]_vars PROVE WakeupInv'
  OBVIOUS
<1> USE DEF TypeOK, MutexInv, WakeupInv, queueVars, flagVars, callerVars, localVars, outVars
<1>1. ASSUME NEW j \in Jobs, Push(j) PROVE WakeupInv'
  BY <1>1 DEF Push, PushBack
<1>2. ASSUME NEW j \in Jobs, Notify(j) PROVE WakeupInv'
  BY <1>2 DEF Notify, AfterNotify, MayNotify
<1>3. CASE Test
  BY <1>3 DEF Test, JobOrClosing
<1>4. CASE Block
  BY <1>4 DEF Block
<1>5. CASE AnnounceClosing
  BY <1>5 DEF AnnounceClosing
<1>6. CASE NotifyClosing
  BY <1>6 DEF NotifyClosing, AfterNotify, MayNotify
<1>7. ASSUME NEW j \in Jobs, Refuse(j) \/ Admit(j) PROVE WakeupInv'
  BY <1>7 DEF Refuse, Admit
<1>8. CASE SpawnWorker \/ ClearExited \/ Connect \/ Loop \/ Lock \/ SpuriousWakeup \/ Pop \/
         AssertJob \/ Send \/ RecvReply \/ RecvError \/ RecvEof \/ Callback \/ CheckError \/
         ExitThread \/ JoinWorker \/ PeerCloses \/ Abort \/ UNCHANGED vars
  BY <1>8 DEF SpawnWorker, ClearExited, Connect, Loop, Lock, SpuriousWakeup, Pop,
     AssertJob, Send, RecvReply, RecvError, RecvEof, Callback, CheckError,
     ExitThread, JoinWorker, PeerCloses, Abort, vars, Popped, AfterJob, Joined
<1> QED
  BY <1>1, <1>2, <1>3, <1>4, <1>5, <1>6, <1>7, <1>8
  DEF Next, Step, RequestImpl, ThreadMain, Recv, Terminate

\* The worker takes a job when it has none and drops the answered one.
LEMMA JobStep == TypeOK /\ StartInv /\ JobInv /\ EachJobOnce /\ [Next]_vars => JobInv'
<1> SUFFICES ASSUME TypeOK, StartInv, JobInv, EachJobOnce, [Next]_vars PROVE JobInv'
  OBVIOUS
<1> USE DEF TypeOK, StartInv, JobInv, EachJobOnce, Queued, queueVars, flagVars, callerVars, localVars, outVars
<1>1. ASSUME NEW j \in Jobs, Notify(j) PROVE JobInv'
  BY <1>1 DEF Notify, AfterNotify, MayNotify
<1>2. CASE Pop
  BY <1>2 DEF Pop, Popped
<1>3. CASE Callback
  BY <1>3 DEF Callback
<1>4. CASE CheckError
  BY <1>4 DEF CheckError, AfterJob
<1>5. CASE NotifyClosing
  BY <1>5 DEF NotifyClosing, AfterNotify, MayNotify
<1>6. ASSUME NEW j \in Jobs, Refuse(j) \/ Admit(j) \/ Push(j) PROVE JobInv'
  BY <1>6 DEF Refuse, Admit, Push, PushBack
<1>7. CASE SpawnWorker \/ ClearExited \/ Connect \/ Loop \/ Lock \/ Test \/ Block \/
         SpuriousWakeup \/ AssertJob \/ Send \/ RecvReply \/ RecvError \/ RecvEof \/ ExitThread \/
         AnnounceClosing \/ JoinWorker \/ PeerCloses \/ Abort \/ UNCHANGED vars
  BY <1>7 DEF SpawnWorker, ClearExited, Connect, Loop, Lock, Test, Block,
     SpuriousWakeup, AssertJob, Send, RecvReply, RecvError, RecvEof, ExitThread,
     AnnounceClosing, JoinWorker, PeerCloses, Abort, vars, JobOrClosing, Joined
<1> QED
  BY <1>1, <1>2, <1>3, <1>4, <1>5, <1>6, <1>7
  DEF Next, Step, RequestImpl, ThreadMain, Recv, Terminate

\* A job moves from its caller to the queue, to the worker, to its callback.
LEMMA OnceStep == TypeOK /\ JobInv /\ EachJobOnce /\ [Next]_vars => EachJobOnce'
<1> SUFFICES ASSUME TypeOK, JobInv, EachJobOnce, [Next]_vars PROVE EachJobOnce'
  OBVIOUS
<1> USE DEF TypeOK, JobInv, EachJobOnce, Queued, queueVars, flagVars, callerVars, localVars, outVars
<1>1. ASSUME NEW j \in Jobs, Refuse(j) PROVE EachJobOnce'
  BY <1>1 DEF Refuse
<1>2. ASSUME NEW j \in Jobs, Admit(j) PROVE EachJobOnce'
  BY <1>2 DEF Admit
<1>3. ASSUME NEW j \in Jobs, Push(j) PROVE EachJobOnce'
  BY <1>3 DEF Push, PushBack
<1>4. ASSUME NEW j \in Jobs, Notify(j) PROVE EachJobOnce'
  BY <1>4 DEF Notify, AfterNotify, MayNotify
<1>5. CASE Pop
  <2>1. CASE jobQueue = <<>>
    BY <1>5, <2>1 DEF Pop
  <2>2. CASE jobQueue # <<>>
    <3>0. PICK h \in Jobs : h = Head(jobQueue)
      BY <2>2
    <3>1. /\ jobQueue' = Tail(jobQueue) /\ job' = h /\ job = NoJob
          /\ UNCHANGED <<call, response>>
      BY <1>5, <2>2, <3>0 DEF Pop, Popped
    <3>2. /\ h = jobQueue[1] /\ h \in Jobs /\ h # NoJob
          /\ Len(jobQueue) \in Nat \ {0}
          /\ Len(jobQueue') = Len(jobQueue) - 1
          /\ \A i \in 1..Len(jobQueue') : jobQueue'[i] = jobQueue[i + 1]
      BY <2>2, <3>0, <3>1, JobsAssumption
    <3>3. \A m, n \in 1..Len(jobQueue') : jobQueue'[m] = jobQueue'[n] => m = n
      BY <3>2
    <3>4. ASSUME NEW j \in Jobs PROVE Queued(j) <=> j = h \/ Queued(j)'
      <4>1. Queued(j)' => Queued(j)
        BY <3>2
      <4>2. Queued(j) /\ j # h => Queued(j)'
        <5> SUFFICES ASSUME NEW i \in 1..Len(jobQueue), jobQueue[i] = j, j # h
                     PROVE Queued(j)'
          OBVIOUS
        <5>1. i # 1 /\ i - 1 \in 1..Len(jobQueue') /\ jobQueue'[i - 1] = j
          BY <3>2
        <5> QED BY <5>1
      <4> QED BY <3>2, <4>1, <4>2
    <3>5. Queued(h) /\ ~Queued(h)'
      <4>1. \A m, n \in 1..Len(jobQueue) : jobQueue[m] = jobQueue[n] => m = n
        OBVIOUS
      <4>2. ASSUME NEW i \in 1..Len(jobQueue'), jobQueue'[i] = h PROVE FALSE
        <5>1. i + 1 \in 1..Len(jobQueue) /\ 1 \in 1..Len(jobQueue) /\ i + 1 # 1
          BY <3>2
        <5> QED BY <3>2, <4>1, <4>2, <5>1
      <4> QED BY <3>2, <4>2
    <3>6. ASSUME NEW j \in Jobs
          PROVE  /\ call[j] \in {"notify", "accepted"}
                      <=> Queued(j) \/ job = j \/ response[j] # "none"
                 /\ Queued(j) => job # j /\ response[j] = "none"
      BY DEF Queued
    <3> HIDE DEF Queued, TypeOK, EachJobOnce, JobInv
    <3>7. ASSUME NEW j \in Jobs
          PROVE  /\ call'[j] \in {"notify", "accepted"}
                      <=> Queued(j)' \/ job' = j \/ response'[j] # "none"
                 /\ Queued(j)' => job' # j /\ response'[j] = "none"
      <4>1. j # NoJob
        BY JobsAssumption
      <4> QED BY <3>1, <3>2, <3>4, <3>5, <3>6, <4>1
    <3> QED BY <3>3, <3>7 DEF EachJobOnce
  <2> QED BY <2>1, <2>2
<1>6. CASE Callback
  BY <1>6 DEF Callback
<1>7. CASE CheckError
  <2>1. job' = NoJob /\ UNCHANGED <<jobQueue, call, response>>
    BY <1>7 DEF CheckError
  <2>2. job # NoJob /\ response[job] # "none"
    BY <1>7 DEF CheckError
  <2>3. ASSUME NEW j \in Jobs PROVE Queued(j)' <=> Queued(j)
    BY <2>1
  <2>4. ASSUME NEW j \in Jobs
        PROVE  /\ call[j] \in {"notify", "accepted"}
                    <=> Queued(j) \/ job = j \/ response[j] # "none"
               /\ Queued(j) => job # j /\ response[j] = "none"
               /\ job' # j
    BY <2>1, JobsAssumption DEF Queued
  <2>5. \A m, n \in 1..Len(jobQueue) : jobQueue[m] = jobQueue[n] => m = n
    OBVIOUS
  <2> HIDE DEF Queued, TypeOK, EachJobOnce, JobInv
  <2> QED BY <2>1, <2>2, <2>3, <2>4, <2>5 DEF EachJobOnce
<1>8. CASE SpawnWorker \/ ClearExited \/ Connect \/ Loop \/ Lock \/ Test \/ Block \/
         SpuriousWakeup \/ AssertJob \/ Send \/ RecvReply \/ RecvError \/ RecvEof \/ ExitThread \/
         AnnounceClosing \/ NotifyClosing \/ JoinWorker \/ PeerCloses \/ Abort \/ UNCHANGED vars
  BY <1>8 DEF SpawnWorker, ClearExited, Connect, Loop, Lock, Test, Block,
     SpuriousWakeup, AssertJob, Send, RecvReply, RecvError, RecvEof, ExitThread,
     AnnounceClosing, NotifyClosing, JoinWorker, PeerCloses, Abort, vars,
     JobOrClosing, AfterNotify, MayNotify, Joined
<1> QED
  BY <1>1, <1>2, <1>3, <1>4, <1>5, <1>6, <1>7, <1>8
  DEF Next, Step, RequestImpl, ThreadMain, Recv, Terminate

\* The failure is reported with error set, and error leads to the exit.
LEMMA ErrorStep == TypeOK /\ StartInv /\ JobInv /\ ErrorInv /\ [Next]_vars => ErrorInv'
<1> SUFFICES ASSUME TypeOK, StartInv, JobInv, ErrorInv, [Next]_vars PROVE ErrorInv'
  OBVIOUS
<1> USE DEF TypeOK, StartInv, JobInv, ErrorInv, queueVars, flagVars, callerVars, localVars, outVars
<1>1. ASSUME NEW j \in Jobs, Notify(j) PROVE ErrorInv'
  BY <1>1 DEF Notify, AfterNotify, MayNotify
<1>2. CASE Callback
  BY <1>2 DEF Callback
<1>3. CASE CheckError
  BY <1>3 DEF CheckError, AfterJob
<1>4. CASE ExitThread
  BY <1>4 DEF ExitThread
<1>5. CASE NotifyClosing
  BY <1>5 DEF NotifyClosing, AfterNotify, MayNotify
<1>6. ASSUME NEW j \in Jobs, Refuse(j) \/ Admit(j) \/ Push(j) PROVE ErrorInv'
  BY <1>6 DEF Refuse, Admit, Push, PushBack
<1>7. CASE SpawnWorker \/ ClearExited \/ Connect \/ Loop \/ Lock \/ Test \/ Block \/
         SpuriousWakeup \/ Pop \/ AssertJob \/ Send \/ RecvReply \/ RecvError \/ RecvEof \/
         AnnounceClosing \/ JoinWorker \/ PeerCloses \/ Abort \/ UNCHANGED vars
  BY <1>7 DEF SpawnWorker, ClearExited, Connect, Loop, Lock, Test, Block,
     SpuriousWakeup, Pop, AssertJob, Send, RecvReply, RecvError, RecvEof,
     AnnounceClosing, JoinWorker, PeerCloses, Abort, vars, JobOrClosing, Popped,
     Joined
<1> QED
  BY <1>1, <1>2, <1>3, <1>4, <1>5, <1>6, <1>7
  DEF Next, Step, RequestImpl, ThreadMain, Recv, Terminate

\* Terminate returns from the join only.
LEMMA ReturnStep == StartInv /\ ReturnInv /\ [Next]_vars => ReturnInv'
<1> SUFFICES ASSUME StartInv, ReturnInv, [Next]_vars PROVE ReturnInv'
  OBVIOUS
<1> USE DEF StartInv, ReturnInv, queueVars, flagVars, callerVars, localVars, outVars
<1>1. CASE JoinWorker
  BY <1>1 DEF JoinWorker, Joined
<1>2. ASSUME NEW j \in Jobs, Refuse(j) \/ Admit(j) \/ Push(j) \/ Notify(j) PROVE ReturnInv'
  BY <1>2 DEF Refuse, Admit, Push, PushBack, Notify, AfterNotify, MayNotify
<1>3. CASE SpawnWorker \/ ClearExited \/ Connect \/ Loop \/ Lock \/ Test \/ Block \/
         SpuriousWakeup \/ Pop \/ AssertJob \/ Send \/ RecvReply \/ RecvError \/ RecvEof \/
         Callback \/ CheckError \/ ExitThread \/ AnnounceClosing \/ NotifyClosing \/
         PeerCloses \/ Abort \/ UNCHANGED vars
  BY <1>3 DEF SpawnWorker, ClearExited, Connect, Loop, Lock, Test, Block,
     SpuriousWakeup, Pop, AssertJob, Send, RecvReply, RecvError, RecvEof, Callback,
     CheckError, ExitThread, AnnounceClosing, NotifyClosing, PeerCloses, Abort, vars,
     JobOrClosing, Popped, AfterJob, AfterNotify, MayNotify
<1> QED
  BY <1>1, <1>2, <1>3
  DEF Next, Step, RequestImpl, ThreadMain, Recv, Terminate

-------------------------------------------------------------------------------
(* The theorems.                                                           *)

\* The inductive invariant holds in every reachable state.
LEMMA InvariantHolds == Spec => []IInv
<1>1. Init => IInv
  <2>1. Init => TypeOK
    BY InitType
  <2>2. Init => StartInv /\ MutexInv /\ WakeupInv /\ JobInv /\ ReturnInv
    BY DEF Init, StartInv, MutexInv, WakeupInv, JobInv, ReturnInv
  <2>3. Init => EachJobOnce /\ ErrorInv
    BY JobsAssumption DEF Init, EachJobOnce, ErrorInv, Queued
  <2> QED
    BY <2>1, <2>2, <2>3 DEF IInv
<1>2. IInv /\ [Next]_vars => IInv'
  BY TypeStep, StartStep, MutexStep, WakeupStep, JobStep, OnceStep, ErrorStep, ReturnStep
  DEF IInv
<1> QED
  BY <1>1, <1>2, PTL DEF Spec

\* No notification is lost, however many calls race with the worker's wait.
THEOREM WakeupCorrect == Spec => []NoLostWakeup
<1>1. IInv => NoLostWakeup
  BY DEF IInv, WakeupInv, NoLostWakeup
<1> QED
  BY <1>1, InvariantHolds, PTL

\* Every job accepted by RequestImpl is in one place, whatever was queued.
THEOREM JobsCorrect == Spec => []EachJobOnce
<1>1. IInv => EachJobOnce
  BY DEF IInv
<1> QED
  BY <1>1, InvariantHolds, PTL

\* Nothing is sent after a job that failed.
THEOREM FailureCorrect == Spec => []FailureIsLast
<1>1. IInv => FailureIsLast
  BY DEF IInv, ErrorInv, FailureIsLast
<1> QED
  BY <1>1, InvariantHolds, PTL

\* The callbacks are over once Terminate has returned.
THEOREM TerminateCorrect == Spec => TerminateIsFinal
<1>1. IInv /\ [Next]_vars => [terminate = "returned" => UNCHANGED response]_vars
  <2> SUFFICES ASSUME IInv, [Next]_vars, terminate = "returned"
               PROVE UNCHANGED response
    OBVIOUS
  <2>1. worker = "done"
    BY DEF IInv, ReturnInv
  <2> QED
    BY <2>1 DEF Next, Step, Abort, vars, SpawnWorker, ClearExited, RequestImpl, Refuse, Admit,
      Push, Notify, ThreadMain, Connect, Loop, Lock, Test, Block, SpuriousWakeup, Pop, AssertJob,
      Send, Recv, RecvReply, RecvError, RecvEof, Callback, CheckError, ExitThread, Terminate,
      AnnounceClosing, NotifyClosing, JoinWorker, PeerCloses, outVars
<1> QED
  BY <1>1, InvariantHolds, PTL DEF Spec, TerminateIsFinal
-------------------------------------------------------------------------------
(* Two facts about the ends of the worker, each inductive beside IInv.     *)

\* The worker is on its way from the wait to the assertion without a job.
EmptyInv ==
  /\ worker = "pop" /\ jobQueue = <<>> => threadClosing
  /\ worker = "assert" /\ job = NoJob => threadClosing

\* The wait ends with a job or with closing, and closing stays announced.
LEMMA EmptyStep == IInv /\ EmptyInv /\ [Next]_vars => EmptyInv'
<1> SUFFICES ASSUME IInv, EmptyInv, [Next]_vars PROVE EmptyInv'
  OBVIOUS
<1> USE DEF EmptyInv, queueVars, flagVars, callerVars, localVars, outVars
<1>1. CASE Test
  BY <1>1 DEF Test, JobOrClosing
<1>2. CASE Pop
  <2>1. worker' = "assert" /\ UNCHANGED threadClosing
    BY <1>2 DEF Pop
  <2>2. jobQueue # <<>> => job' # NoJob
    BY <1>2, JobsAssumption DEF IInv, TypeOK, Pop
  <2> QED BY <1>2, <2>1, <2>2 DEF Pop
<1>3. ASSUME NEW j \in Jobs, Push(j) PROVE EmptyInv'
  <2>1. jobQueue' # <<>> /\ UNCHANGED <<worker, job, threadClosing>>
    BY <1>3 DEF Push, PushBack, IInv, TypeOK
  <2> QED BY <2>1
<1>4. ASSUME NEW j \in Jobs, Refuse(j) \/ Admit(j) \/ Notify(j) PROVE EmptyInv'
  BY <1>4 DEF Refuse, Admit, Notify, AfterNotify
<1>5. CASE SpawnWorker \/ ClearExited \/ Connect \/ Loop \/ Lock \/ Block \/
         SpuriousWakeup \/ AssertJob \/ Send \/ RecvReply \/ RecvError \/ RecvEof \/
         Callback \/ CheckError \/ ExitThread \/ AnnounceClosing \/ NotifyClosing \/
         JoinWorker \/ PeerCloses \/ Abort \/ UNCHANGED vars
  BY <1>5 DEF SpawnWorker, ClearExited, Connect, Loop, Lock, Block, SpuriousWakeup,
     AssertJob, Send, RecvReply, RecvError, RecvEof, Callback, CheckError, ExitThread,
     AnnounceClosing, NotifyClosing, JoinWorker, PeerCloses, Abort, vars, AfterJob, AfterNotify
<1> QED
  BY <1>1, <1>2, <1>3, <1>4, <1>5
  DEF Next, Step, RequestImpl, ThreadMain, Recv, Terminate

\* Nothing but Terminate makes the worker's assertion fail.
THEOREM EmptyPopCorrect == Spec => []EmptyPopMeansClosing
<1>1. Init => EmptyInv
  BY DEF Init, EmptyInv
<1>2. EmptyInv => EmptyPopMeansClosing
  BY DEF EmptyInv, EmptyPopMeansClosing
<1> QED
  BY <1>1, <1>2, EmptyStep, InvariantHolds, PTL DEF Spec

\* Nobody calls Request before Start has returned.
CallInv == \A j \in Jobs : call[j] # "idle" => start = "done"

LeftInv == CallInv /\ LeftWorkerRefuses

\* The flag is stored on the way out; Start's store came before any answer.
LEMMA LeftStep == IInv /\ LeftInv /\ [Next]_vars => LeftInv'
<1> SUFFICES ASSUME IInv, LeftInv, [Next]_vars PROVE LeftInv'
  OBVIOUS
<1> USE DEF LeftInv, CallInv, LeftWorkerRefuses,
    queueVars, flagVars, callerVars, localVars, outVars
<1>1. CASE ClearExited
  <2>1. \A j \in Jobs : response[j] = "none"
    BY <1>1 DEF ClearExited, IInv, EachJobOnce
  <2> QED BY <1>1, <2>1 DEF ClearExited
<1>2. ASSUME NEW j \in Jobs, Refuse(j) \/ Admit(j) \/ Push(j) \/ Notify(j) PROVE LeftInv'
  <2>1. start' = "done" /\ UNCHANGED <<response, threadExited>>
        /\ (worker' = "done" => worker = "done")
    BY <1>2 DEF Refuse, Admit, Push, Notify, AfterNotify
  <2> QED BY <2>1
<1>3. CASE Callback
  BY <1>3 DEF Callback
<1>4. CASE ExitThread \/ JoinWorker
  BY <1>4 DEF ExitThread, JoinWorker
<1>5. CASE SpawnWorker
  BY <1>5 DEF SpawnWorker
<1>6. CASE Connect \/ Loop \/ Lock \/ Test \/ Block \/ SpuriousWakeup \/ Pop \/
         AssertJob \/ Send \/ RecvReply \/ RecvError \/ RecvEof \/ CheckError \/
         AnnounceClosing \/ NotifyClosing \/ PeerCloses \/ Abort \/ UNCHANGED vars
  <2>1. UNCHANGED <<call, response, threadExited, start>> /\ (worker' = "done" => worker = "done")
    BY <1>6 DEF Connect, Loop, Lock, Test, Block, SpuriousWakeup, Pop, AssertJob, Send,
       RecvReply, RecvError, RecvEof, CheckError, AnnounceClosing, NotifyClosing,
       PeerCloses, Abort, vars, AfterJob, AfterNotify
  <2> QED BY <2>1
<1> QED
  BY <1>1, <1>2, <1>3, <1>4, <1>5, <1>6
  DEF Next, Step, RequestImpl, ThreadMain, Recv, Terminate

\* After a worker that answered anything has left, requests are refused.
THEOREM LeftWorkerCorrect == Spec => []LeftWorkerRefuses
<1>1. Init => LeftInv
  BY DEF Init, LeftInv, CallInv, LeftWorkerRefuses
<1>2. LeftInv => LeftWorkerRefuses
  BY DEF LeftInv
<1> QED
  BY <1>1, <1>2, LeftStep, InvariantHolds, PTL DEF Spec

-------------------------------------------------------------------------------
(* The worker path implements RotatorService.                              *)

\* Nothing is pending and every call is new at first.
LEMMA RefineInit == Init => Service!Init
<1> SUFFICES ASSUME Init PROVE Service!Init
  OBVIOUS
<1>1. Pending = <<>>
  BY DEF Init, Pending
<1>2. Status = [j \in Jobs |-> "new"]
  BY DEF Init, Status
<1> QED
  BY <1>1, <1>2 DEF Service!Init

\* The status of one call, without the CASE.
LEMMA StatusCases ==
  ASSUME TypeOK, NEW j \in Jobs
  PROVE  /\ response[j] # "none" => Status[j] = "answered"
         /\ response[j] = "none" /\ call[j] \in {"notify", "accepted"} => Status[j] = "pending"
         /\ response[j] = "none" /\ call[j] = "refused" => Status[j] = "refused"
         /\ response[j] = "none" /\ call[j] \in {"idle", "push"} => Status[j] = "new"
  BY DEF TypeOK, Status, CallPoints

\* A step that leaves queue, worker's job, calls and answers alone stutters.
LEMMA RefineStutter ==
  UNCHANGED <<jobQueue, job, call, response>> => UNCHANGED <<Pending, Status>>
  BY DEF Pending, Status

\* Push admits, Callback answers, Refuse refuses, everything else stutters.
LEMMA RefineStep == IInv /\ IInv' /\ [Next]_vars => [Service!Next]_<<Pending, Status>>
<1> SUFFICES ASSUME IInv, IInv', [Next]_vars PROVE Service!Next \/ UNCHANGED <<Pending, Status>>
  OBVIOUS
<1> USE DEF queueVars, flagVars, callerVars, localVars, outVars
<1>a. TypeOK /\ TypeOK'
  BY DEF IInv
<1>b. Status \in [Jobs -> {"answered", "pending", "refused", "new"}]
      /\ Status' \in [Jobs -> {"answered", "pending", "refused", "new"}]
  BY DEF Status
<1>c. \A j \in Jobs : call[j] \in {"idle", "push"} => response[j] = "none"
  BY DEF IInv, EachJobOnce
<1>1. ASSUME NEW j \in Jobs, Refuse(j) PROVE Service!Next
  <2>1. UNCHANGED Pending
    BY <1>1 DEF Refuse, Pending
  <2>2. Status[j] = "new" /\ Status'[j] = "refused"
    BY <1>1, <1>a, <1>c, StatusCases DEF Refuse, TypeOK, Status
  <2>3. \A k \in Jobs \ {j} : Status'[k] = Status[k]
    BY <1>1, <1>a DEF Refuse, TypeOK, Status
  <2>4. Status' = [Status EXCEPT ![j] = "refused"]
    BY <1>b, <2>2, <2>3
  <2> QED
    BY <2>1, <2>2, <2>4 DEF Service!Next, Service!Refuse
<1>2. ASSUME NEW j \in Jobs, Admit(j) \/ Notify(j) PROVE UNCHANGED <<Pending, Status>>
  <2>1. UNCHANGED Pending
    BY <1>2 DEF Admit, Notify, Pending
  <2>2. \A k \in Jobs : Status'[k] = Status[k]
    BY <1>2, <1>a DEF Admit, Notify, TypeOK, Status
  <2> QED
    BY <1>b, <2>1, <2>2
<1>3. ASSUME NEW j \in Jobs, Push(j) PROVE Service!Next
  <2>1. Pending' = Append(Pending, j)
    <3>1. jobQueue' = Append(jobQueue, j) /\ UNCHANGED <<job, response>>
      BY <1>3 DEF Push, PushBack
    <3>2. jobQueue \in Seq(Jobs)
      BY <1>a DEF TypeOK
    <3>3. CASE job # NoJob /\ response[job] = "none"
      <4>1. job \in Jobs /\ Pending = <<job>> \o jobQueue /\ Pending' = <<job>> \o Append(jobQueue, j)
        BY <1>a, <3>1, <3>3 DEF TypeOK, Pending
      <4> QED BY <3>2, <4>1
    <3>4. CASE ~(job # NoJob /\ response[job] = "none")
      BY <3>1, <3>4 DEF Pending
    <3> QED BY <3>3, <3>4
  <2>2. Status[j] = "new" /\ Status'[j] = "pending"
    BY <1>3, <1>a, <1>c, StatusCases DEF Push, TypeOK, Status
  <2>3. \A k \in Jobs \ {j} : Status'[k] = Status[k]
    BY <1>3, <1>a DEF Push, TypeOK, Status
  <2>4. Status' = [Status EXCEPT ![j] = "pending"]
    BY <1>b, <2>2, <2>3
  <2> QED
    BY <2>1, <2>2, <2>4 DEF Service!Next, Service!Admit
<1>4. CASE Pop
  <2>1. UNCHANGED Status
    BY <1>4 DEF Pop, Status
  <2>2. job = NoJob /\ jobQueue \in Seq(Jobs)
    BY <1>4, <1>a DEF IInv, JobInv, Pop, TypeOK
  <2>3. CASE jobQueue = <<>>
    BY <1>4, <2>1, <2>2, <2>3 DEF Pop, Pending
  <2>4. CASE jobQueue # <<>>
    <3>1. job' = Head(jobQueue) /\ jobQueue' = Tail(jobQueue) /\ worker' = "assert"
      BY <1>4, <2>4 DEF Pop, Popped
    <3>2. job' \in Jobs /\ job' # NoJob
      BY <2>2, <2>4, <3>1, JobsAssumption
    <3>3. response'[job'] = "none"
      BY <3>1, <3>2 DEF IInv, JobInv
    <3>4. Pending' = <<Head(jobQueue)>> \o Tail(jobQueue)
      BY <3>1, <3>2, <3>3 DEF Pending
    <3>5. Pending = jobQueue
      BY <2>2 DEF Pending
    <3> QED BY <2>1, <2>2, <2>4, <3>4, <3>5
  <2> QED BY <2>3, <2>4
<1>5. CASE Callback
  <2>1. job \in Jobs /\ job # NoJob /\ response[job] = "none" /\ jobQueue \in Seq(Jobs)
    BY <1>5, <1>a DEF Callback, IInv, JobInv, TypeOK
  <2>2. response'[job] # "none" /\ UNCHANGED <<job, jobQueue, call>>
        /\ \A k \in Jobs \ {job} : response'[k] = response[k]
    BY <1>5, <1>a, <2>1 DEF Callback, TypeOK
  <2>3. Pending = <<job>> \o jobQueue /\ Pending' = jobQueue
    BY <2>1, <2>2 DEF Pending
  <2>4. Pending # <<>> /\ Head(Pending) = job /\ Pending' = Tail(Pending)
    BY <2>1, <2>3
  <2>5. Status' = [Status EXCEPT ![job] = "answered"]
    <3>1. Status'[job] = "answered"
      BY <2>1, <2>2 DEF Status
    <3>2. \A k \in Jobs \ {job} : Status'[k] = Status[k]
      BY <2>2 DEF Status
    <3> QED BY <1>b, <2>1, <3>1, <3>2
  <2> QED
    BY <2>4, <2>5 DEF Service!Next, Service!Answer
<1>6. CASE CheckError
  <2>1. job \in Jobs /\ job # NoJob /\ response[job] # "none"
    BY <1>6, <1>a DEF CheckError, IInv, JobInv, TypeOK
  <2>2. job' = NoJob /\ UNCHANGED <<jobQueue, call, response>>
    BY <1>6 DEF CheckError
  <2> QED
    BY <2>1, <2>2 DEF Pending, Status
<1>7. CASE SpawnWorker \/ ClearExited \/ Connect \/ Loop \/ Lock \/ Test \/ Block \/ SpuriousWakeup \/
         AssertJob \/ Send \/ RecvReply \/ RecvError \/ RecvEof \/ ExitThread \/ AnnounceClosing \/
         NotifyClosing \/ JoinWorker \/ PeerCloses \/ Abort \/ UNCHANGED vars
  <2>1. UNCHANGED <<jobQueue, job, call, response>>
    BY <1>7 DEF SpawnWorker, ClearExited, Connect, Loop, Lock, Test, Block, SpuriousWakeup,
      AssertJob, Send, RecvReply, RecvError, RecvEof, ExitThread, AnnounceClosing,
      NotifyClosing, JoinWorker, PeerCloses, Abort, vars
  <2> QED
    BY <2>1, RefineStutter
<1> QED
  BY <1>1, <1>2, <1>3, <1>4, <1>5, <1>6, <1>7
  DEF Next, Step, RequestImpl, ThreadMain, Recv, Terminate

\* The worker path answers admitted requests in order and at most once.
THEOREM WorkerImplementsService == Spec => Implements
<1>1. [Service!Next]_<<Pending, Status>> => [Service!Next]_(Service!vars)
  BY DEF Service!vars
<1> QED
  BY RefineInit, RefineStep, InvariantHolds, <1>1, PTL DEF Spec, Implements, Service!Spec
===============================================================================
