---------------------------- MODULE SmartSinkProofs ----------------------------
(***************************************************************************)
(* Proofs about SmartSink, for any number of requests and of chains.       *)
(***************************************************************************)
EXTENDS SmartSink, SequenceTheorems, TLAPS

-------------------------------------------------------------------------------
(* The inductive invariant.                                                *)

Items == [of : Threads, req : Changes \cup {Query}, sample : BOOLEAN]

\* A question in the queue is that of a chain that waits for it, once.
SampleInv ==
  /\ \A i \in 1..Len(queue) : queue[i].sample =>
       /\ queue[i].of \in Chains
       /\ stage[queue[i].of] \in {"azi1", "ele1", "azi2", "ele2"}
       /\ runner[queue[i].of] = "queue"
  /\ \A i, k \in 1..Len(queue) :
       queue[i].sample /\ queue[k].sample /\ queue[i].of = queue[k].of => i = k

\* A job in the queue is pushed and not answered, and is there once.
QueuedInv ==
  /\ \A i \in 1..Len(queue) : queue[i].of \in Jobs =>
       pc[queue[i].of] = "done" /\ answer[queue[i].of] = "none"
  /\ \A i, k \in 1..Len(queue) :
       queue[i].of \in Jobs /\ queue[i].of = queue[k].of => i = k

\* Who got an answer is done, or records its target yet; who is suppressed
\* got an answer.
AnswerInv ==
  \A j \in Jobs :
    /\ answer[j] # "none" => pc[j] = "done" \/ suppressPushing[j]
    /\ suppressPushing[j] => pc[j] \in Recording /\ answer[j] # "none"

\* What is recorded is a change of a target; a chain calls RequestImpl with its
\* request when it is over.
RecordInv ==
  /\ \A t \in Threads : pc[t] \in {"flag", "stamp", "store"} => req[t] # Query
  /\ \A c \in Chains : stage[c] # "end" => pc[c] = "idle"

\* The jobs that are owed an answer are those in the queue, in its order.
OwedInv ==
  /\ \A i \in 1..Len(owed) : \E m \in 1..Len(queue) : queue[m].of = owed[i]
  /\ \A m \in 1..Len(queue) :
       queue[m].of \in Jobs => \E i \in 1..Len(owed) : owed[i] = queue[m].of
  /\ \A i, k \in 1..Len(owed), m, n \in 1..Len(queue) :
       i < k /\ queue[m].of = owed[i] /\ queue[n].of = owed[k] => m < n

\* Somebody will reset smartSinkSampling without the worker's help.
Owned ==
  \/ \E c \in Chains : stage[c] # "free" /\ runner[c] # "queue"
  \/ \E t \in Threads : pc[t] = "start"

IInv ==
  TypeOK /\ RecordInv /\ SampleInv /\ QueuedInv /\ AnswerInv /\ OwedInv
  /\ SamplingHasOwner

-------------------------------------------------------------------------------
(* The pieces actions are made of.                                         *)

\* A control point is stored.
LEMMA GotoType ==
  ASSUME TypeOK, NEW t \in Threads, NEW p \in Points, Goto(t, p)
  PROVE  pc' \in [Threads -> Points]
  BY DEF TypeOK, Goto

\* RequestImpl leaves its recording.
LEMMA LeaveFacts ==
  ASSUME TypeOK, NEW t \in Threads, Leave(t)
  PROVE  /\ \E p \in {"done", "push"} :
              pc' = [pc EXCEPT ![t] = p] /\ (p = "done" <=> suppressPushing[t])
         /\ req' \in [Threads -> Changes \cup {Query}]
         /\ \A u \in Threads \ {t} : req'[u] = req[u] /\ suppressPushing'[u] = suppressPushing[u]
         /\ suppressPushing' \in [Threads -> BOOLEAN]
         /\ ~suppressPushing'[t]
<1>1. CASE suppressPushing[t]
  BY <1>1 DEF TypeOK, Leave, ReturnTrue, Goto
<1>2. CASE ~suppressPushing[t]
  BY <1>2 DEF TypeOK, Leave, Goto
<1> QED BY <1>1, <1>2

\* The comparison of targets leads on.
LEMMA ComparedFacts ==
  ASSUME NEW r PROVE Compared(r) \in {"store", "flag"}
  BY DEF Compared

\* A chain goes on from one question to the next stage.
LEMMA ContinueFacts ==
  ASSUME TypeOK, NEW c \in Chains, stage[c] \in DOMAIN After,
         NEW r \in Threads \cup {"timer", "queue", "worker"}, Continue(c, r)
  PROVE  /\ stage' \in [Chains -> Stages] /\ stage'[c] # "free"
         /\ \A k \in Chains \ {c} : stage'[k] = stage[k] /\ runner'[k] = runner[k]
         /\ runner' \in [Chains -> Threads \cup {"timer", "queue", "worker"}]
<1>1. /\ DOMAIN After = {"azi1", "ele1", "azi2", "ele2"}
      /\ \A s \in DOMAIN After : After[s] \in Stages /\ After[s] # "free"
  BY DEF After, Stages
<1> QED BY <1>1 DEF TypeOK, Continue

\* The stages in which a chain asks.
LEMMA AfterDomain == DOMAIN After = {"azi1", "ele1", "azi2", "ele2"}
  BY DEF After

-------------------------------------------------------------------------------
\* Every step keeps the types.
LEMMA TypeStep == TypeOK /\ RecordInv /\ SampleInv /\ OwedInv /\ [Next]_vars => TypeOK'
<1> SUFFICES ASSUME TypeOK, RecordInv, SampleInv, OwedInv, [Next]_vars PROVE TypeOK'
  OBVIOUS
<1> USE SinkAssumption DEF sinkVars, callVars, threadVars, chainVars, workerVars
<1>e. Entry \in Points
  BY DEF Entry, Points
<1>1. ASSUME NEW j \in Jobs, NEW r \in Requests, Call(j, r) PROVE TypeOK'
  <2>1. pc' \in [Threads -> Points]
    BY <1>1, <1>e, GotoType DEF Call, Threads
  <2>2. req' \in [Threads -> Changes \cup {Query}]
    BY <1>1 DEF TypeOK, Call
  <2> QED BY <1>1, <2>1, <2>2 DEF TypeOK, Call
<1>2. ASSUME NEW t \in Threads,
             \/ Evaluate(t) \/ Elapsed(t) \/ Test(t) \/ Claim(t) \/ Suppress(t)
             \/ Flag(t) \/ Stamp(t)
      PROVE  TypeOK'
  <2>1. pc' \in [Threads -> Points]
    BY <1>2, GotoType
    DEF Evaluate, Elapsed, Test, Claim, Suppress, Flag, Stamp, Points, Recording
  <2> QED BY <1>2, <2>1 DEF TypeOK, Evaluate, Elapsed, Test, Claim, Suppress, Flag, Stamp
<1>3. ASSUME NEW t \in Threads, StartChain(t) PROVE TypeOK'
  <2>1. pc' \in [Threads -> Points]
    BY <1>3, GotoType DEF StartChain, Points
  <2>2. PICK c \in Chains : /\ stage' = [stage EXCEPT ![c] = "azi1"]
                            /\ runner' = [runner EXCEPT ![c] = t]
                            /\ req' = [req EXCEPT ![c] = req[t]]
    BY <1>3 DEF StartChain
  <2>3. stage' \in [Chains -> Stages]
    BY <2>2 DEF TypeOK, Stages
  <2> QED BY <1>3, <2>1, <2>2, <2>3 DEF TypeOK, StartChain
<1>4. ASSUME NEW t \in Threads, FakeAnswer(t) PROVE TypeOK'
  <2>1. pc' \in [Threads -> Points]
    BY <1>4, GotoType DEF FakeAnswer, Points, Recording
  <2>2. answer' \in [Threads -> {"none", "fake", "success", "failure"}]
    BY <1>4 DEF FakeAnswer, Invoke, TypeOK
  <2>3. suppressPushing' \in [Threads -> BOOLEAN]
    BY <1>4 DEF FakeAnswer, TypeOK
  <2> QED BY <1>4, <2>1, <2>2, <2>3 DEF FakeAnswer, TypeOK
<1>5. ASSUME NEW t \in Threads, Compare(t) PROVE TypeOK'
  <2>1. CASE Leave(t)
    <3>1. pc' \in [Threads -> Points]
      BY <2>1, LeaveFacts DEF TypeOK, Points
    <3> QED BY <1>5, <2>1, <3>1, LeaveFacts DEF Compare, TypeOK
  <2>2. CASE Goto(t, Compared(req[t])) /\ UNCHANGED <<req, suppressPushing>>
    <3>1. pc' \in [Threads -> Points]
      BY <2>2, ComparedFacts, GotoType DEF Points, Recording
    <3> QED BY <1>5, <2>2, <3>1 DEF Compare, TypeOK
  <2> QED BY <1>5, <2>1, <2>2 DEF Compare
<1>18. ASSUME NEW t \in Threads, Store(t) PROVE TypeOK'
  <2>4. Leave(t)
    BY <1>18 DEF Store
  <2>1. pc' \in [Threads -> Points]
    BY <2>4, LeaveFacts DEF TypeOK, Points
  <2>2. req[t] \in Changes
    BY <1>18 DEF Store, RecordInv, TypeOK
  <2>3. lastTarget' \in [AllAxes -> Values]
    BY <1>18, <2>2 DEF Store, Recorded, Changes, TypeOK
  <2> QED BY <1>18, <2>1, <2>3, <2>4, LeaveFacts DEF Store, TypeOK
<1>6. ASSUME NEW t \in Threads, Push(t) PROVE TypeOK'
  <2>1. pc' \in [Threads -> Points]
    BY <1>6, GotoType DEF Push, ReturnTrue, Points
  <2>4. /\ req' \in [Threads -> Changes \cup {Query}]
        /\ suppressPushing' \in [Threads -> BOOLEAN]
    BY <1>6 DEF Push, ReturnTrue, TypeOK
  <2>2. Item(t, req[t], FALSE) \in Items /\ queue \in Seq(Items)
    BY DEF TypeOK, Item, Items
  <2>3. queue' \in Seq(Items)
    BY <1>6, <2>2, AppendProperties DEF Push
  <2>5. owed' \in Seq(Jobs)
    BY <1>6, AppendProperties DEF Push, TypeOK
  <2> QED BY <1>6, <2>1, <2>3, <2>4, <2>5 DEF Push, TypeOK, Items
<1>7. ASSUME NEW c \in Chains, Ask(c) PROVE TypeOK'
  <2>0. runner[c] \in Threads \cup {"timer", "queue", "worker"} /\ c \in Threads
    BY DEF TypeOK, Threads
  <2>1. CASE exited /\ Free(c) /\ UNCHANGED queue
    BY <1>7, <2>0, <2>1 DEF TypeOK, Ask, Free, Stages
  <2>2. CASE Continue(c, runner[c]) /\ UNCHANGED <<req, queue>>
    BY <1>7, <2>0, <2>2, ContinueFacts DEF TypeOK, Ask
  <2>3. CASE /\ runner' = [runner EXCEPT ![c] = "queue"]
             /\ queue' = Append(queue, Item(c, Query, TRUE))
             /\ UNCHANGED <<req, stage>>
    <3>1. Item(c, Query, TRUE) \in Items /\ queue \in Seq(Items)
      BY <2>0 DEF TypeOK, Item, Items
    <3>2. queue' \in Seq(Items)
      BY <2>3, <3>1, AppendProperties
    <3> QED BY <1>7, <2>3, <3>2 DEF Ask, TypeOK, Items
  <2> QED BY <1>7, <2>1, <2>2, <2>3 DEF Ask
<1>8. ASSUME NEW c \in Chains, Wake(c) PROVE TypeOK'
  BY <1>8 DEF Wake, TypeOK, Stages
<1>9. ASSUME NEW c \in Chains, Decide(c) PROVE TypeOK'
  <2>1. pc' \in [Threads -> Points]
    BY <1>9, <1>e, GotoType DEF Decide, TypeOK, Threads
  <2> QED BY <1>9, <2>1 DEF Decide, TypeOK, Stages
<1>10. ASSUME NEW c \in Chains, EndChain(c) PROVE TypeOK'
  <2>1. pc' \in [Threads -> Points]
    BY <1>10, GotoType DEF EndChain, Points, Threads
  <2> QED BY <1>10, <2>1 DEF EndChain, Free, TypeOK, Stages, Threads
<1>h. queue # <<>> =>
        /\ Head(queue) = queue[1] /\ 1 \in 1..Len(queue)
        /\ queue[1] \in Items /\ Tail(queue) \in Seq(Items)
  <2>1. queue \in Seq(Items)
    BY DEF TypeOK, Items
  <2> QED BY <2>1
<1>11. CASE ServeRequest
  <2>1. Head(queue).of \in Threads /\ Head(queue).req \in Changes \cup {Query}
    BY <1>11, <1>h DEF ServeRequest, Items
  <2>2. answer' \in [Threads -> {"none", "fake", "success", "failure"}]
    BY <1>11, <2>1 DEF ServeRequest, Invoke, TypeOK
  <2>3. device' \in [AllAxes -> Values \cup {Unset}]
    BY <1>11, <2>1 DEF ServeRequest, TypeOK, IsChange, Changes
  <2>4. owed' \in Seq(Jobs)
    <3>1. owed \in Seq(Jobs) /\ Len(owed) \in Nat
      BY DEF TypeOK
    <3>2. CASE Head(queue).of \in Jobs
      <4>1. owed # <<>>
        BY <1>11, <1>h, <3>1, <3>2 DEF ServeRequest, OwedInv
      <4> QED BY <1>11, <3>1, <3>2, <4>1, HeadTailProperties DEF ServeRequest
    <3>3. CASE Head(queue).of \notin Jobs
      BY <1>11, <3>1, <3>3 DEF ServeRequest
    <3> QED BY <3>2, <3>3
  <2> QED BY <1>11, <1>h, <2>2, <2>3, <2>4 DEF ServeRequest, TypeOK, Items
<1>12. CASE ServeSample
  <2>1. Head(queue).of \in Chains /\ stage[Head(queue).of] \in DOMAIN After
    BY <1>12, <1>h, AfterDomain DEF ServeSample, SampleInv
  <2> QED BY <1>12, <1>h, <2>1, ContinueFacts DEF ServeSample, TypeOK, Items
<1>19. CASE RecvEof
  BY <1>19 DEF RecvEof, TypeOK
<1>13. CASE ExitThread
  BY <1>13 DEF ExitThread, TypeOK
<1>14. CASE KeepAliveRequest
  <2>1. pc' \in [Threads -> Points] /\ KeepAlive \in Threads
    BY <1>14, <1>e, GotoType DEF KeepAliveRequest, Threads
  <2>2. <<keepAlive.axis, lastTarget[keepAlive.axis]>> \in Changes
    BY DEF TypeOK, Changes
  <2> QED BY <1>14, <2>1, <2>2 DEF KeepAliveRequest, TypeOK
<1>15. CASE KeepAliveReturn
  <2>1. pc' \in [Threads -> Points]
    BY <1>15, GotoType DEF KeepAliveReturn, Points, Threads
  <2>2. keepAlive' \in [axis : AllAxes, error : BOOLEAN, ended : BOOLEAN]
    BY <1>15 DEF KeepAliveReturn, TypeOK, AllAxes
  <2> QED BY <1>15, <2>1, <2>2 DEF KeepAliveReturn, TypeOK
<1>16. CASE Expire
  <2>1. /\ recent' = FALSE
        /\ UNCHANGED <<sampling, targetChanged, lastTarget, pc, req, answer, suppressPushing,
                       stage, runner, queue, owed, error, spinning, exited, device, keepAlive>>
    BY <1>16 DEF Expire
  <2> QED BY <2>1 DEF TypeOK
<1>17. CASE UNCHANGED vars
  BY <1>17 DEF vars, TypeOK
<1> QED
  BY <1>1, <1>2, <1>3, <1>4, <1>5, <1>6, <1>7, <1>8, <1>9, <1>10, <1>11, <1>12, <1>13, <1>14,
    <1>15, <1>16, <1>17, <1>18, <1>19 DEF Next, RequestImpl, Chain, ThreadMain

\* A thread records a change only, and chains leave their request alone.
LEMMA RecordStep == TypeOK /\ RecordInv /\ SampleInv /\ [Next]_vars => RecordInv'
<1> SUFFICES ASSUME TypeOK, RecordInv, SampleInv, [Next]_vars PROVE RecordInv'
  OBVIOUS
<1> USE DEF sinkVars, callVars, threadVars, chainVars, workerVars
<1>t. /\ pc \in [Threads -> Points] /\ req \in [Threads -> Changes \cup {Query}]
      /\ stage \in [Chains -> Stages]
      /\ Chains \subseteq Threads /\ Jobs \subseteq Threads /\ KeepAlive \in Threads
      /\ KeepAlive \notin Chains /\ \A c \in Chains : c \notin Jobs
  BY SinkAssumption DEF TypeOK, Threads
\* A thread in RequestImpl moves to a point where nothing is recorded, or has
\* a change to record.
<1>m. ASSUME NEW t \in Threads, NEW p, pc' = [pc EXCEPT ![t] = p], UNCHANGED stage,
             \A u \in Threads \ {t} : req'[u] = req[u],
             p \in {"flag", "stamp", "store"} => req'[t] # Query,
             t \in Chains => stage[t] = "end"
      PROVE  RecordInv'
  BY <1>t, <1>m DEF RecordInv
\* Nothing is about RequestImpl.
<1>u. ASSUME UNCHANGED <<pc, req>>,
             \A c \in Chains : stage'[c] # "end" => stage[c] # "end"
      PROVE  RecordInv'
  BY <1>u DEF RecordInv
<1>e. Entry \notin {"flag", "stamp", "store"}
  BY DEF Entry
<1>i. \A c \in Chains : pc[c] # "idle" => stage[c] = "end"
  BY DEF RecordInv
<1>1. ASSUME NEW j \in Jobs, NEW q \in Requests, Call(j, q) PROVE RecordInv'
  <2>1. pc' = [pc EXCEPT ![j] = Entry] /\ req' = [req EXCEPT ![j] = q] /\ UNCHANGED stage
    BY <1>1 DEF Call, Goto
  <2> QED BY <1>e, <1>m, <1>t, <2>1
<1>2. ASSUME NEW t \in Threads,
             Evaluate(t) \/ Elapsed(t) \/ Test(t) \/ Claim(t) \/ Suppress(t) \/ FakeAnswer(t)
      PROVE  RecordInv'
  <2>1. PICK p \in {"recent", "test", "suppress", "claim", "start", "fake", "compare"} :
          pc' = [pc EXCEPT ![t] = p]
    BY <1>2 DEF Evaluate, Elapsed, Test, Claim, Suppress, FakeAnswer, Goto
  <2>2. UNCHANGED <<req, stage>> /\ pc[t] # "idle"
    BY <1>2 DEF Evaluate, Elapsed, Test, Claim, Suppress, FakeAnswer
  <2> QED BY <1>i, <1>m, <2>1, <2>2
<1>3. ASSUME NEW t \in Threads, StartChain(t) PROVE RecordInv'
  <2>1. PICK c \in Chains : /\ stage[c] = "free"
                            /\ stage' = [stage EXCEPT ![c] = "azi1"]
                            /\ req' = [req EXCEPT ![c] = req[t]]
    BY <1>3 DEF StartChain
  <2>2. pc[t] = "start" /\ pc' = [pc EXCEPT ![t] = "fake"]
    BY <1>3 DEF StartChain, Goto
  <2>3. pc[c] = "idle" /\ c # t /\ pc'[c] = "idle"
    BY <1>t, <2>1, <2>2 DEF RecordInv
  <2>4. ASSUME NEW u \in Threads, pc'[u] \in {"flag", "stamp", "store"}
        PROVE  req'[u] # Query
    <3>1. u # c /\ u # t
      BY <1>t, <2>2, <2>3, <2>4
    <3> QED BY <1>t, <2>1, <2>2, <2>4, <3>1 DEF RecordInv
  <2>5. ASSUME NEW k \in Chains, stage'[k] # "end"
        PROVE  pc'[k] = "idle"
    <3>1. k = c \/ stage[k] # "end"
      BY <1>t, <2>1, <2>5
    <3>2. k = c \/ (pc[k] = "idle" /\ k # t)
      BY <2>2, <3>1 DEF RecordInv
    <3> QED BY <1>t, <2>2, <2>3, <3>2
  <2> QED BY <2>4, <2>5 DEF RecordInv
<1>4. ASSUME NEW t \in Threads, Compare(t) PROVE RecordInv'
  <2>1. pc[t] = "compare" /\ UNCHANGED stage
    BY <1>4 DEF Compare
  <2>2. CASE Leave(t)
    <3>1. PICK p \in {"done", "push"} : pc' = [pc EXCEPT ![t] = p]
      BY <2>2, LeaveFacts
    <3> QED BY <1>i, <1>m, <2>1, <2>2, <3>1, LeaveFacts
  <2>3. CASE /\ IsChange(req[t])
             /\ Goto(t, Compared(req[t])) /\ UNCHANGED <<req, suppressPushing>>
    BY <1>i, <1>m, <2>1, <2>3 DEF Goto, IsChange
  <2> QED BY <1>4, <2>2, <2>3 DEF Compare
<1>5. ASSUME NEW t \in Threads, Flag(t) \/ Stamp(t) PROVE RecordInv'
  <2>1. /\ pc[t] \in {"flag", "stamp"} /\ UNCHANGED <<req, stage>>
        /\ \E p \in {"stamp", "store"} : pc' = [pc EXCEPT ![t] = p]
    BY <1>5 DEF Flag, Stamp, Goto
  <2>2. req[t] # Query
    BY <2>1 DEF RecordInv
  <2> QED BY <1>i, <1>m, <2>1, <2>2
<1>6. ASSUME NEW t \in Threads, Store(t) PROVE RecordInv'
  <2>1. pc[t] = "store" /\ UNCHANGED stage /\ Leave(t)
    BY <1>6 DEF Store
  <2>2. PICK p \in {"done", "push"} : pc' = [pc EXCEPT ![t] = p]
    BY <2>1, LeaveFacts
  <2> QED BY <1>i, <1>m, <2>1, <2>2, LeaveFacts
<1>7. ASSUME NEW t \in Threads, Push(t) PROVE RecordInv'
  <2>1. /\ pc[t] = "push" /\ UNCHANGED stage /\ pc' = [pc EXCEPT ![t] = "done"]
        /\ req' = [req EXCEPT ![t] = Query]
    BY <1>7 DEF Push, ReturnTrue, Goto
  <2> QED BY <1>i, <1>m, <1>t, <2>1
<1>8. ASSUME NEW c \in Chains, Ask(c) PROVE RecordInv'
  <2>1. stage[c] \in DOMAIN After /\ UNCHANGED pc
    BY <1>8 DEF Ask
  <2>2. /\ stage[c] # "end"
        /\ \A k \in DOMAIN After : After[k] # "end"
    BY <2>1, AfterDomain DEF After
  <2>3. pc[c] = "idle"
    BY <2>2 DEF RecordInv
  <2>4. /\ \A u \in Threads \ {c} : req'[u] = req[u]
        /\ \A k \in Chains \ {c} : stage'[k] = stage[k]
    BY <1>8, <1>t DEF Ask, Free, Continue
  <2> QED BY <1>t, <2>1, <2>3, <2>4 DEF RecordInv
<1>9. ASSUME NEW c \in Chains, Wake(c) PROVE RecordInv'
  BY <1>9, <1>t, <1>u DEF Wake
<1>10. ASSUME NEW c \in Chains, Decide(c) PROVE RecordInv'
  <2>1. stage[c] = "decide" /\ stage' = [stage EXCEPT ![c] = "end"] /\ UNCHANGED req
    BY <1>10 DEF Decide
  <2>2. pc[c] = "idle"
    BY <2>1 DEF RecordInv
  <2>3. CASE UNCHANGED pc
    BY <1>t, <2>1, <2>3 DEF RecordInv
  <2>4. CASE pc' = [pc EXCEPT ![c] = Entry]
    BY <1>e, <1>t, <2>1, <2>4 DEF RecordInv
  <2> QED BY <1>10, <2>3, <2>4 DEF Decide, Goto
<1>11. ASSUME NEW c \in Chains, EndChain(c) PROVE RecordInv'
  <2>1. /\ pc' = [pc EXCEPT ![c] = "idle"] /\ req' = [req EXCEPT ![c] = Query]
        /\ stage' = [stage EXCEPT ![c] = "free"]
    BY <1>11 DEF EndChain, Free, Goto
  <2> QED BY <1>t, <2>1 DEF RecordInv
<1>12. CASE ServeRequest \/ RecvEof \/ ExitThread \/ Expire \/ UNCHANGED vars
  BY <1>12, <1>u DEF ServeRequest, RecvEof, ExitThread, Expire, vars
<1>13. CASE ServeSample
  <2>1. queue # <<>> /\ Head(queue) = queue[1] /\ 1 \in 1..Len(queue) /\ queue[1].sample
    BY <1>13 DEF ServeSample, TypeOK
  <2>2. PICK c \in Chains : c = queue[1].of /\ stage[c] \in DOMAIN After
    BY <2>1, AfterDomain DEF SampleInv
  <2>3. UNCHANGED <<pc, req>> /\ stage' = [stage EXCEPT ![c] = After[stage[c]]]
    BY <1>13, <2>1, <2>2 DEF ServeSample, Continue
  <2>4. stage[c] # "end"
    BY <2>2, AfterDomain
  <2> QED BY <1>t, <1>u, <2>3, <2>4
<1>14. CASE KeepAliveRequest
  <2>1. /\ pc' = [pc EXCEPT ![KeepAlive] = Entry] /\ UNCHANGED stage
        /\ \A u \in Threads \ {KeepAlive} : req'[u] = req[u]
    BY <1>14, <1>t DEF KeepAliveRequest, Goto
  <2> QED BY <1>e, <1>m, <1>t, <2>1
<1>15. CASE KeepAliveReturn
  <2>1. pc' = [pc EXCEPT ![KeepAlive] = "idle"] /\ UNCHANGED <<stage, req>>
    BY <1>15 DEF KeepAliveReturn, Goto
  <2> QED BY <1>m, <1>t, <2>1
<1> QED
  BY <1>1, <1>2, <1>3, <1>4, <1>5, <1>6, <1>7, <1>8, <1>9, <1>10, <1>11, <1>12, <1>13, <1>14,
    <1>15 DEF Next, RequestImpl, Chain, ThreadMain

\* A question stays in the queue until the worker runs its chain on.
LEMMA SampleStep == TypeOK /\ SampleInv /\ [Next]_vars => SampleInv'
<1> SUFFICES ASSUME TypeOK, SampleInv, [Next]_vars PROVE SampleInv'
  OBVIOUS
<1> USE DEF sinkVars, callVars, threadVars, chainVars, workerVars
<1>q. queue \in Seq(Items) /\ Len(queue) \in Nat /\ \A i \in 1..Len(queue) : queue[i] \in Items
  <2>1. queue \in Seq(Items)
    BY DEF TypeOK, Items
  <2> QED BY <2>1
<1>s. stage \in [Chains -> Stages]
      /\ runner \in [Chains -> Threads \cup {"timer", "queue", "worker"}]
  BY DEF TypeOK
\* Nothing about questions changes.
<1>0. ASSUME UNCHANGED <<queue, stage, runner>> PROVE SampleInv'
  BY <1>0 DEF SampleInv
\* A chain that does not wait moves, or begins.
<1>c. ASSUME NEW c \in Chains, UNCHANGED queue,
             stage[c] \notin {"azi1", "ele1", "azi2", "ele2"} \/ runner[c] # "queue",
             \A k \in Chains \ {c} : stage'[k] = stage[k] /\ runner'[k] = runner[k]
      PROVE  SampleInv'
  BY <1>c DEF SampleInv
\* A request is queued.
<1>p. ASSUME NEW t \in Threads, Push(t) PROVE SampleInv'
  <2> DEFINE x == Item(t, req[t], FALSE)
  <2>1. x \in Items /\ ~x.sample
    BY DEF TypeOK, Item, Items
  <2>2. queue' = Append(queue, x) /\ UNCHANGED <<stage, runner>>
    BY <1>p DEF Push
  <2> HIDE DEF x
  <2>3. /\ Len(queue') = Len(queue) + 1
        /\ \A i \in 1..Len(queue) : queue'[i] = queue[i]
        /\ ~queue'[Len(queue) + 1].sample
    BY <2>1, <2>2, <1>q, AppendProperties
  <2> QED BY <2>2, <2>3, <1>q DEF SampleInv
<1>1. ASSUME NEW t \in Threads, StartChain(t) PROVE SampleInv'
  <2>1. PICK c \in Chains : /\ stage[c] = "free"
                            /\ stage' = [stage EXCEPT ![c] = "azi1"]
                            /\ runner' = [runner EXCEPT ![c] = t]
    BY <1>1 DEF StartChain
  <2>2. UNCHANGED queue
    BY <1>1 DEF StartChain
  <2> QED BY <1>c, <1>s, <2>1, <2>2
<1>2. ASSUME NEW c \in Chains, Ask(c) PROVE SampleInv'
  <2>0. stage[c] \in {"azi1", "ele1", "azi2", "ele2"} /\ runner[c] # "queue" /\ c \in Threads
    BY <1>2, AfterDomain DEF Ask, Threads
  <2>1. CASE Free(c) /\ UNCHANGED queue
    <3>1. \A k \in Chains \ {c} : stage'[k] = stage[k] /\ runner'[k] = runner[k]
      BY <2>1, <1>s DEF Free
    <3> QED BY <1>c, <2>0, <2>1, <3>1
  <2>2. CASE Continue(c, runner[c]) /\ UNCHANGED queue
    <3>1. \A k \in Chains \ {c} : stage'[k] = stage[k] /\ runner'[k] = runner[k]
      BY <2>2, <1>s DEF Continue
    <3> QED BY <1>c, <2>0, <2>2, <3>1
  <2>3. CASE /\ runner' = [runner EXCEPT ![c] = "queue"]
             /\ queue' = Append(queue, Item(c, Query, TRUE))
             /\ UNCHANGED stage
    <3> DEFINE x == Item(c, Query, TRUE)
    <3>1. x \in Items /\ x.sample /\ x.of = c
      BY <2>0 DEF TypeOK, Item, Items
    <3>a. queue' = Append(queue, x)
      BY <2>3
    <3> HIDE DEF x
    <3>2. /\ Len(queue') = Len(queue) + 1
          /\ \A i \in 1..Len(queue) : queue'[i] = queue[i]
          /\ queue'[Len(queue) + 1] = x
      BY <3>a, <3>1, <1>q, AppendProperties
    <3>3. \A i \in 1..Len(queue) : queue[i].sample => queue[i].of # c
      BY <2>0 DEF SampleInv
    <3>4. runner'[c] = "queue" /\ \A k \in Chains \ {c} : runner'[k] = runner[k]
      BY <1>s, <2>3
    <3>5. ASSUME NEW i \in 1..Len(queue'), queue'[i].sample
          PROVE  /\ queue'[i].of \in Chains
                 /\ stage'[queue'[i].of] \in {"azi1", "ele1", "azi2", "ele2"}
                 /\ runner'[queue'[i].of] = "queue"
      <4>1. CASE i = Len(queue) + 1
        BY <2>0, <2>3, <3>1, <3>2, <3>4, <4>1
      <4>2. CASE i \in 1..Len(queue)
        BY <2>3, <3>2, <3>3, <3>4, <3>5, <4>2 DEF SampleInv
      <4> QED BY <1>q, <3>2, <4>1, <4>2
    <3>6. ASSUME NEW i \in 1..Len(queue'), NEW k \in 1..Len(queue'),
                 queue'[i].sample, queue'[k].sample, queue'[i].of = queue'[k].of
          PROVE  i = k
      BY <1>q, <3>1, <3>2, <3>3, <3>6 DEF SampleInv
    <3> QED BY <3>5, <3>6 DEF SampleInv
  <2> QED BY <1>2, <2>1, <2>2, <2>3 DEF Ask
<1>3. ASSUME NEW c \in Chains, Wake(c) \/ Decide(c) \/ EndChain(c) PROVE SampleInv'
  <2>1. stage[c] \in {"sleep", "decide", "end"} /\ UNCHANGED queue
    BY <1>3 DEF Wake, Decide, EndChain
  <2>2. \A k \in Chains \ {c} : stage'[k] = stage[k] /\ runner'[k] = runner[k]
    BY <1>3, <1>s DEF Wake, Decide, EndChain, Free
  <2> QED BY <1>c, <2>1, <2>2
\* The head leaves the queue.
<1>h. queue # <<>> =>
        /\ Head(queue) = queue[1] /\ 1 \in 1..Len(queue)
        /\ Len(Tail(queue)) = Len(queue) - 1
        /\ \A i \in 1..(Len(queue) - 1) : Tail(queue)[i] = queue[i + 1]
  BY <1>q, HeadTailProperties
<1>4. CASE ServeRequest
  <2>1. queue # <<>> /\ queue' = Tail(queue) /\ UNCHANGED <<stage, runner>>
    BY <1>4 DEF ServeRequest
  <2> QED BY <1>q, <1>h, <2>1 DEF SampleInv
<1>5. CASE ServeSample
  <2>1. queue # <<>> /\ queue' = Tail(queue) /\ queue[1].sample
    BY <1>5, <1>h DEF ServeSample
  <2>2. PICK c \in Chains : c = queue[1].of /\ Continue(c, "worker")
    BY <1>5, <1>h, <2>1 DEF ServeSample, SampleInv
  <2>3. \A i \in 2..Len(queue) : queue[i].sample => queue[i].of # c
    BY <1>q, <1>h, <2>1, <2>2 DEF SampleInv
  <2>4. \A k \in Chains \ {c} : stage'[k] = stage[k] /\ runner'[k] = runner[k]
    BY <2>2, <1>s DEF Continue
  <2>5. /\ Len(queue') = Len(queue) - 1
        /\ \A i \in 1..(Len(queue) - 1) : queue'[i] = queue[i + 1] /\ i + 1 \in 2..Len(queue)
    BY <1>q, <1>h, <2>1
  <2>6. ASSUME NEW i \in 1..Len(queue'), queue'[i].sample
        PROVE  /\ queue'[i].of \in Chains
               /\ stage'[queue'[i].of] \in {"azi1", "ele1", "azi2", "ele2"}
               /\ runner'[queue'[i].of] = "queue"
    <3>1. i + 1 \in 2..Len(queue) /\ queue'[i] = queue[i + 1]
      BY <2>5, <1>q
    <3> QED BY <1>q, <2>3, <2>4, <2>6, <3>1 DEF SampleInv
  <2>7. ASSUME NEW i \in 1..Len(queue'), NEW k \in 1..Len(queue'),
               queue'[i].sample, queue'[k].sample, queue'[i].of = queue'[k].of
        PROVE  i = k
    <3>1. /\ i + 1 \in 2..Len(queue) /\ queue'[i] = queue[i + 1]
          /\ k + 1 \in 2..Len(queue) /\ queue'[k] = queue[k + 1]
      BY <2>5, <1>q
    <3>2. i + 1 \in 1..Len(queue) /\ k + 1 \in 1..Len(queue)
      BY <1>q, <3>1
    <3>3. i + 1 = k + 1
      BY <2>7, <3>1, <3>2 DEF SampleInv
    <3> QED BY <1>q, <2>5, <3>3
  <2> QED BY <2>6, <2>7 DEF SampleInv
<1>6. ASSUME NEW j \in Jobs, NEW r \in Requests, Call(j, r) PROVE SampleInv'
  BY <1>0, <1>6 DEF Call
<1>7. ASSUME NEW t \in Threads,
             \/ Evaluate(t) \/ Elapsed(t) \/ Test(t) \/ Claim(t) \/ Suppress(t) \/ FakeAnswer(t)
             \/ Compare(t) \/ Flag(t) \/ Stamp(t) \/ Store(t)
      PROVE  SampleInv'
  BY <1>0, <1>7
  DEF Evaluate, Elapsed, Test, Claim, Suppress, FakeAnswer, Compare, Flag, Stamp, Store
<1>8. CASE \/ RecvEof \/ ExitThread \/ KeepAliveRequest \/ KeepAliveReturn \/ Expire
           \/ UNCHANGED vars
  BY <1>0, <1>8 DEF RecvEof, ExitThread, KeepAliveRequest, KeepAliveReturn, Expire, vars
<1> QED
  BY <1>p, <1>1, <1>2, <1>3, <1>4, <1>5, <1>6, <1>7, <1>8
  DEF Next, RequestImpl, Chain, ThreadMain

\* Who sets the flag starts a chain, and a chain ends by resetting it, or
\* vanishes because the worker has left.
LEMMA OwnerStep == IInv /\ [Next]_vars => SamplingHasOwner'
<1> SUFFICES ASSUME IInv, [Next]_vars, sampling', ~exited' PROVE Owned'
  BY DEF SamplingHasOwner, Owned
<1> USE DEF sinkVars, callVars, threadVars, chainVars, workerVars
<1>t. /\ pc \in [Threads -> Points] /\ stage \in [Chains -> Stages]
      /\ runner \in [Chains -> Threads \cup {"timer", "queue", "worker"}]
      /\ Chains \subseteq Threads /\ Jobs \subseteq Threads /\ KeepAlive \in Threads
      /\ "queue" \notin Threads
  BY SinkAssumption DEF IInv, TypeOK, Threads
<1>o. sampling /\ ~exited => Owned
  BY DEF IInv, SamplingHasOwner, Owned
\* The owner is left alone.
<1>0. ASSUME sampling, ~exited, UNCHANGED runner,
             \A c \in Chains : stage[c] # "free" => stage'[c] # "free",
             \A t \in Threads : pc[t] = "start" => pc'[t] = "start"
      PROVE  Owned'
  BY <1>o, <1>0 DEF Owned
\* A thread moves on from another point.
<1>m. ASSUME UNCHANGED <<sampling, exited, stage, runner>>,
             NEW t \in Threads, NEW p, pc[t] # "start", pc' = [pc EXCEPT ![t] = p]
      PROVE  Owned'
  <2>1. \A u \in Threads : pc[u] = "start" => pc'[u] = "start"
    BY <1>m, <1>t
  <2> QED BY <1>0, <1>m, <2>1
<1>1. ASSUME NEW t \in Threads, Claim(t) PROVE Owned'
  BY <1>1, <1>t DEF Claim, Goto, Owned
<1>2. ASSUME NEW t \in Threads, StartChain(t) PROVE Owned'
  <2>1. PICK c \in Chains : /\ stage' = [stage EXCEPT ![c] = "azi1"]
                            /\ runner' = [runner EXCEPT ![c] = t]
    BY <1>2 DEF StartChain
  <2> QED BY <1>t, <2>1 DEF Owned
<1>3. ASSUME NEW c \in Chains, Ask(c) PROVE Owned'
  <2>1. stage[c] \in DOMAIN After /\ ~exited /\ sampling /\ runner[c] # "queue"
    BY <1>3 DEF Ask
  <2>2. \A s \in DOMAIN After : After[s] # "free"
    BY DEF After
  <2>3. Continue(c, runner[c])
    BY <1>3, <2>1 DEF Ask
  <2>4. stage'[c] # "free" /\ runner'[c] # "queue"
    BY <1>t, <2>1, <2>2, <2>3 DEF Continue
  <2> QED BY <2>4 DEF Owned
<1>4. ASSUME NEW c \in Chains, Wake(c) PROVE Owned'
  BY <1>0, <1>4, <1>t DEF Wake
<1>5. ASSUME NEW c \in Chains, Decide(c) PROVE Owned'
  <2>1. pc[c] = "idle"
    BY <1>5 DEF Decide, IInv, RecordInv
  <2>2. \A u \in Threads : pc[u] = "start" => pc'[u] = "start"
    BY <1>5, <1>t, <2>1 DEF Decide, Goto
  <2>3. \A k \in Chains : stage[k] # "free" => stage'[k] # "free"
    BY <1>5, <1>t DEF Decide
  <2> QED BY <1>0, <1>5, <2>2, <2>3 DEF Decide
<1>6. ASSUME NEW c \in Chains, EndChain(c) PROVE FALSE
  BY <1>6 DEF EndChain
<1>7. CASE ServeSample
  <2>1. queue # <<>> /\ Head(queue) = queue[1] /\ 1 \in 1..Len(queue) /\ queue[1].sample
    BY <1>7 DEF ServeSample, IInv, TypeOK
  <2>2. PICK c \in Chains : c = queue[1].of /\ Continue(c, "worker") /\ stage[c] \in DOMAIN After
    BY <1>7, <2>1, AfterDomain DEF ServeSample, IInv, SampleInv
  <2>3. stage'[c] # "free"
    BY <2>2, ContinueFacts DEF IInv
  <2>4. runner'[c] # "queue"
    BY <1>t, <2>2 DEF Continue
  <2> QED BY <2>3, <2>4 DEF Owned
<1>8. ASSUME NEW j \in Jobs, NEW r \in Requests, Call(j, r) PROVE Owned'
  <2>1. pc[j] = "idle" /\ j \in Threads /\ pc' = [pc EXCEPT ![j] = Entry]
    BY <1>8, <1>t DEF Call, Goto
  <2> QED BY <1>8, <1>m, <2>1 DEF Call
<1>9. ASSUME NEW t \in Threads,
             \/ Evaluate(t) \/ Elapsed(t) \/ Test(t) \/ Suppress(t) \/ FakeAnswer(t)
             \/ Flag(t) \/ Stamp(t) \/ Push(t)
      PROVE  Owned'
  <2>1. /\ UNCHANGED <<sampling, exited, stage, runner>> /\ pc[t] # "start"
        /\ \E p \in Points : pc' = [pc EXCEPT ![t] = p]
    BY <1>9 DEF Evaluate, Elapsed, Test, Suppress, FakeAnswer, Flag, Stamp, Push, ReturnTrue, Goto,
      Points, Recording
  <2> QED BY <1>m, <2>1
<1>10. ASSUME NEW t \in Threads, Compare(t) \/ Store(t) PROVE Owned'
  <2>1. UNCHANGED <<sampling, exited, stage, runner>> /\ pc[t] # "start"
    BY <1>10 DEF Compare, Store
  <2>2. TypeOK
    BY DEF IInv
  <2>3. PICK p : pc' = [pc EXCEPT ![t] = p]
    <3>1. CASE Leave(t)
      BY <2>2, <3>1, LeaveFacts
    <3>2. CASE Goto(t, Compared(req[t]))
      BY <3>2 DEF Goto
    <3> QED BY <1>10, <3>1, <3>2 DEF Compare, Store
  <2> QED BY <1>m, <2>1, <2>3
<1>11. CASE ServeRequest \/ RecvEof \/ ExitThread \/ Expire \/ UNCHANGED vars
  <2>1. UNCHANGED <<pc, stage, runner, sampling>>
    BY <1>11 DEF ServeRequest, RecvEof, ExitThread, Expire, vars
  <2>2. exited => exited'
    BY <1>11 DEF ServeRequest, RecvEof, ExitThread, Expire, vars
  <2> QED BY <1>0, <2>1, <2>2
<1>12. CASE KeepAliveRequest \/ KeepAliveReturn
  <2>1. /\ UNCHANGED <<sampling, exited, stage, runner>> /\ pc[KeepAlive] # "start"
        /\ \E p : pc' = [pc EXCEPT ![KeepAlive] = p]
    BY <1>12 DEF KeepAliveRequest, KeepAliveReturn, Goto
  <2> QED BY <1>m, <1>t, <2>1
<1> QED
  BY <1>1, <1>2, <1>3, <1>4, <1>5, <1>6, <1>7, <1>8, <1>9, <1>10, <1>11, <1>12
  DEF Next, RequestImpl, Chain, ThreadMain

-------------------------------------------------------------------------------
(* What a step does to the jobs, their items in the queue and their        *)
(* answers: seven kinds.                                                   *)

Over == {"done", "refused"}

\* Nobody is answered; a call goes on without an answer, or one that has got
\* its answer goes on or ends.
Quiet ==
  /\ UNCHANGED <<queue, owed>>
  /\ \A j \in Jobs :
       /\ answer'[j] = answer[j]
       /\ \/ pc'[j] = pc[j] /\ suppressPushing'[j] = suppressPushing[j]
          \/ /\ pc[j] \notin Over /\ pc'[j] \notin Over
             /\ answer[j] = "none" /\ ~suppressPushing'[j]
          \/ /\ answer[j] # "none"
             /\ pc'[j] \in Recording /\ suppressPushing'[j]
          \/ /\ answer[j] # "none"
             /\ pc'[j] = "done" /\ ~suppressPushing'[j]

Refused(j) ==
  /\ UNCHANGED <<queue, owed, answer, suppressPushing>>
  /\ pc[j] = "idle" /\ pc' = [pc EXCEPT ![j] = "refused"]

Faked(j) ==
  /\ UNCHANGED <<queue, owed>>
  /\ pc[j] = "fake" /\ pc' = [pc EXCEPT ![j] = "compare"]
  /\ answer' = [answer EXCEPT ![j] = "fake"]
  /\ suppressPushing' = [suppressPushing EXCEPT ![j] = TRUE]

Pushed(j) ==
  /\ UNCHANGED answer
  /\ pc[j] = "push" /\ pc' = [pc EXCEPT ![j] = "done"]
  /\ suppressPushing' = [suppressPushing EXCEPT ![j] = FALSE]
  /\ \E x \in Items : x.of = j /\ queue' = Append(queue, x)
  /\ owed' = Append(owed, j)

Answered(a) ==
  /\ queue # <<>> /\ Head(queue).of \in Jobs
  /\ UNCHANGED <<pc, suppressPushing>>
  /\ queue' = Tail(queue) /\ owed' = Tail(owed)
  /\ answer' = [answer EXCEPT ![Head(queue).of] = a]

SameCalls ==
  \A j \in Jobs :
    answer'[j] = answer[j] /\ pc'[j] = pc[j] /\ suppressPushing'[j] = suppressPushing[j]

\* Chains and the keep-alive thread use the queue too.
PushedElse ==
  /\ \E x \in Items : x.of \notin Jobs /\ queue' = Append(queue, x)
  /\ UNCHANGED owed
  /\ SameCalls

ServedElse ==
  /\ queue # <<>> /\ Head(queue).of \notin Jobs
  /\ queue' = Tail(queue) /\ UNCHANGED owed
  /\ SameCalls

LEMMA StepKinds ==
  ASSUME TypeOK, SampleInv, AnswerInv, [Next]_vars
  PROVE  \/ Quiet \/ PushedElse \/ ServedElse
         \/ \E j \in Jobs : Refused(j) \/ Faked(j) \/ Pushed(j)
         \/ \E a \in {"success", "failure"} : Answered(a)
<1> USE DEF sinkVars, callVars, threadVars, chainVars, workerVars
<1>t. /\ pc \in [Threads -> Points]
      /\ answer \in [Threads -> {"none", "fake", "success", "failure"}]
      /\ suppressPushing \in [Threads -> BOOLEAN]
      /\ Chains \subseteq Threads /\ Jobs \subseteq Threads /\ KeepAlive \in Threads
      /\ KeepAlive \notin Jobs /\ \A c \in Chains : c \notin Jobs
      /\ \A t \in Threads : req[t] \in Changes \cup {Query}
  BY SinkAssumption DEF TypeOK, Threads
<1>h. queue # <<>> => 1 \in 1..Len(queue) /\ Head(queue) = queue[1] /\ queue[1] \in Items
  <2>1. queue \in Seq(Items)
    BY DEF TypeOK, Items
  <2> QED BY <2>1
\* A thread moves on in RequestImpl, without an answer if it is no recording.
<1>m. ASSUME NEW t \in Threads, NEW p, pc' = [pc EXCEPT ![t] = p],
             UNCHANGED <<queue, owed, answer, suppressPushing>>,
             pc[t] \notin Over, p \notin Over,
             pc[t] \in Recording => p \in Recording
      PROVE  Quiet
  <2>1. ASSUME NEW j \in Jobs, j = t
        PROVE  \/ /\ pc[j] \notin Over /\ pc'[j] \notin Over
                  /\ answer[j] = "none" /\ ~suppressPushing'[j]
               \/ answer[j] # "none" /\ pc'[j] \in Recording /\ suppressPushing'[j]
    <3>1. pc'[j] = p
      BY <1>m, <1>t, <2>1
    <3>2. CASE suppressPushing[j]
      BY <1>m, <2>1, <3>1, <3>2 DEF AnswerInv
    <3>3. CASE ~suppressPushing[j]
      BY <1>m, <2>1, <3>1, <3>3 DEF AnswerInv, Over
    <3> QED BY <3>2, <3>3
  <2>2. \A j \in Jobs : j # t => pc'[j] = pc[j]
    BY <1>m, <1>t
  <2> QED BY <1>m, <2>1, <2>2 DEF Quiet
<1>1. ASSUME NEW j \in Jobs, NEW r \in Requests, Call(j, r)
      PROVE  Quiet \/ Refused(j)
  <2>1. CASE exited
    BY <1>1, <1>t, <2>1 DEF Call, Goto, Entry, Refused
  <2>2. CASE ~exited
    <3>1. /\ pc[j] = "idle" /\ pc' = [pc EXCEPT ![j] = "evaluate"]
          /\ UNCHANGED <<queue, owed, answer, suppressPushing>>
      BY <1>1, <2>2 DEF Call, Goto, Entry
    <3>2. /\ j \in Threads /\ pc[j] \notin Recording /\ pc[j] \notin Over
          /\ "evaluate" \notin Over
      BY <1>t, <3>1 DEF Over, Recording
    <3> QED BY <1>m, <3>1, <3>2
  <2> QED BY <2>1, <2>2
<1>2. ASSUME NEW t \in Threads,
             \/ Evaluate(t) \/ Elapsed(t) \/ Test(t) \/ Claim(t) \/ StartChain(t) \/ Suppress(t)
             \/ Flag(t) \/ Stamp(t)
      PROVE  Quiet
  <2>1. UNCHANGED <<queue, owed, answer, suppressPushing>>
    BY <1>2 DEF Evaluate, Elapsed, Test, Claim, StartChain, Suppress, Flag, Stamp
  <2>2. PICK p \in {"recent", "test", "suppress", "claim", "start", "fake", "compare",
                    "stamp", "store"} :
          /\ pc' = [pc EXCEPT ![t] = p]
          /\ pc[t] \in Recording => p \in Recording
    BY <1>2
    DEF Evaluate, Elapsed, Test, Claim, StartChain, Suppress, Flag, Stamp, Goto, Recording
  <2>3. pc[t] \notin Over /\ p \notin Over
    BY <1>2, <2>2
    DEF Evaluate, Elapsed, Test, Claim, StartChain, Suppress, Flag, Stamp, Over
  <2> QED BY <1>m, <2>1, <2>2, <2>3
<1>3. ASSUME NEW t \in Threads, FakeAnswer(t)
      PROVE  Quiet \/ (t \in Jobs /\ Faked(t))
  <2>1. /\ pc[t] = "fake" /\ pc' = [pc EXCEPT ![t] = "compare"] /\ UNCHANGED <<queue, owed>>
        /\ answer' = IF t \in Chains THEN answer ELSE [answer EXCEPT ![t] = "fake"]
        /\ suppressPushing' = [suppressPushing EXCEPT ![t] = TRUE]
    BY <1>3 DEF FakeAnswer, Goto, Invoke
  <2>2. CASE t \in Jobs
    BY <1>t, <2>1, <2>2 DEF Faked
  <2>3. CASE t \notin Jobs
    BY <1>t, <2>1, <2>3 DEF Quiet
  <2> QED BY <2>2, <2>3
\* The recording ends: of a suppressed request the call is over.
<1>l. ASSUME NEW t \in Threads, Leave(t), pc[t] \in Recording, UNCHANGED <<queue, owed, answer>>
      PROVE  Quiet
  <2>1. PICK p \in {"done", "push"} :
          pc' = [pc EXCEPT ![t] = p] /\ (p = "done" <=> suppressPushing[t])
    BY <1>l, LeaveFacts
  <2>2. /\ ~suppressPushing'[t]
        /\ \A u \in Threads \ {t} : suppressPushing'[u] = suppressPushing[u]
    BY <1>l, LeaveFacts
  <2>3. ASSUME NEW j \in Jobs, j = t
        PROVE  \/ /\ pc[j] \notin Over /\ pc'[j] \notin Over
                  /\ answer[j] = "none" /\ ~suppressPushing'[j]
               \/ answer[j] # "none" /\ pc'[j] = "done" /\ ~suppressPushing'[j]
    <3>1. pc'[j] = p /\ ~suppressPushing'[j]
      BY <1>t, <2>1, <2>2, <2>3
    <3>2. CASE suppressPushing[j]
      BY <2>1, <2>3, <3>1, <3>2 DEF AnswerInv
    <3>3. CASE ~suppressPushing[j]
      <4>1. p = "push" /\ pc[j] # "done" /\ pc[j] # "refused"
        BY <1>l, <2>1, <2>3, <3>3 DEF Recording
      <4> QED BY <3>1, <3>3, <4>1 DEF AnswerInv, Over
    <3> QED BY <3>2, <3>3
  <2>4. \A j \in Jobs : j # t => pc'[j] = pc[j] /\ suppressPushing'[j] = suppressPushing[j]
    BY <1>t, <2>1, <2>2
  <2> QED BY <1>l, <2>3, <2>4 DEF Quiet
<1>11. ASSUME NEW t \in Threads, Compare(t)
       PROVE  Quiet
  <2>1. pc[t] = "compare" /\ pc[t] \in Recording /\ UNCHANGED <<queue, owed, answer>>
    BY <1>11 DEF Compare, Recording
  <2>2. CASE Leave(t)
    BY <1>l, <2>1, <2>2
  <2>3. CASE Goto(t, Compared(req[t])) /\ UNCHANGED <<req, suppressPushing>>
    <3>1. Compared(req[t]) \in Recording /\ Compared(req[t]) \notin Over
      BY ComparedFacts DEF Recording, Over
    <3> QED BY <1>m, <2>1, <2>3, <3>1 DEF Goto, Over
  <2> QED BY <1>11, <2>2, <2>3 DEF Compare
<1>12. ASSUME NEW t \in Threads, Store(t)
       PROVE  Quiet
  BY <1>12, <1>l DEF Store, Recording
<1>4. ASSUME NEW t \in Threads, Push(t)
      PROVE  PushedElse \/ (t \in Jobs /\ Pushed(t))
  <2> DEFINE x == Item(t, req[t], FALSE)
  <2>1. x \in Items /\ x.of = t
    BY <1>t DEF Item, Items
  <2>2. /\ pc[t] = "push" /\ pc' = [pc EXCEPT ![t] = "done"] /\ UNCHANGED answer
        /\ suppressPushing' = [suppressPushing EXCEPT ![t] = FALSE]
        /\ queue' = Append(queue, x) /\ owed' = IF t \in Jobs THEN Append(owed, t) ELSE owed
    BY <1>4 DEF Push, ReturnTrue, Goto
  <2> HIDE DEF x
  <2>3. CASE t \in Jobs
    BY <2>1, <2>2, <2>3 DEF Pushed
  <2>4. CASE t \notin Jobs
    BY <1>t, <2>1, <2>2, <2>4 DEF PushedElse, SameCalls
  <2> QED BY <2>3, <2>4
<1>5. ASSUME NEW c \in Chains, Ask(c)
      PROVE  Quiet \/ PushedElse
  <2>1. UNCHANGED <<pc, answer, suppressPushing, owed>>
    BY <1>5 DEF Ask
  <2>2. CASE UNCHANGED queue
    BY <2>1, <2>2 DEF Quiet
  <2>3. CASE queue' = Append(queue, Item(c, Query, TRUE))
    <3>1. Item(c, Query, TRUE) \in Items /\ Item(c, Query, TRUE).of \notin Jobs
      BY <1>t DEF Item, Items
    <3> QED BY <2>1, <2>3, <3>1 DEF PushedElse, SameCalls
  <2> QED BY <1>5, <2>2, <2>3 DEF Ask
<1>6. ASSUME NEW c \in Chains, Wake(c) \/ Decide(c) \/ EndChain(c)
      PROVE  Quiet
  <2>1. UNCHANGED <<queue, owed, answer, suppressPushing>>
    BY <1>6 DEF Wake, Decide, EndChain
  <2>2. \A j \in Jobs : pc'[j] = pc[j]
    BY <1>6, <1>t DEF Wake, Decide, EndChain, Goto
  <2> QED BY <2>1, <2>2 DEF Quiet
<1>7. ASSUME ServeRequest
      PROVE  ServedElse \/ \E a \in {"success", "failure"} : Answered(a)
  <2> DEFINE t == Head(queue).of
             a == IF error' THEN "failure" ELSE "success"
  <2>1. /\ queue # <<>> /\ queue' = Tail(queue) /\ UNCHANGED <<pc, suppressPushing>>
        /\ owed' = IF t \in Jobs THEN Tail(owed) ELSE owed
        /\ answer' = IF t \in Chains THEN answer ELSE [answer EXCEPT ![t] = a]
        /\ a \in {"success", "failure"}
    BY <1>7 DEF ServeRequest, Invoke
  <2> HIDE DEF a
  <2>2. t \in Threads
    BY <1>h, <2>1 DEF Items
  <2>3. CASE t \in Jobs
    BY <1>t, <2>1, <2>3 DEF Answered
  <2>4. CASE t \notin Jobs
    BY <1>t, <2>1, <2>2, <2>4 DEF ServedElse, SameCalls
  <2> QED BY <2>3, <2>4
<1>8. ASSUME ServeSample
      PROVE  ServedElse
  <2>1. queue # <<>> /\ Head(queue).of \in Chains
    BY <1>8, <1>h DEF ServeSample, SampleInv
  <2> QED BY <1>8, <1>t, <2>1 DEF ServeSample, ServedElse, SameCalls
<1>9. ASSUME KeepAliveRequest \/ KeepAliveReturn
      PROVE  Quiet
  BY <1>9, <1>t DEF KeepAliveRequest, KeepAliveReturn, Goto, Quiet
<1>10. ASSUME RecvEof \/ ExitThread \/ Expire \/ UNCHANGED vars
       PROVE  Quiet
  BY <1>10 DEF RecvEof, ExitThread, Expire, vars, Quiet
<1> QED
  BY <1>1, <1>2, <1>3, <1>4, <1>5, <1>6, <1>7, <1>8, <1>9, <1>10, <1>11, <1>12
  DEF Next, RequestImpl, Chain, ThreadMain

-------------------------------------------------------------------------------
(* The queue and what is owed.                                             *)

\* An item at the end, nobody's who is in the queue already.
LEMMA AppendItem ==
  ASSUME TypeOK, NEW x \in Items, queue' = Append(queue, x)
  PROVE  /\ Len(queue) \in Nat /\ Len(queue') = Len(queue) + 1
         /\ \A m \in 1..Len(queue) : queue'[m] = queue[m]
         /\ queue'[Len(queue) + 1] = x
<1>1. queue \in Seq(Items)
  BY DEF TypeOK, Items
<1> QED BY <1>1, AppendProperties

LEMMA TailItems ==
  ASSUME TypeOK, queue # <<>>, queue' = Tail(queue)
  PROVE  /\ Len(queue) \in Nat /\ 1 \in 1..Len(queue) /\ Head(queue) = queue[1]
         /\ Len(queue') = Len(queue) - 1
         /\ \A m \in 1..Len(queue') : m + 1 \in 1..Len(queue) /\ queue'[m] = queue[m + 1]
<1>1. queue \in Seq(Items)
  BY DEF TypeOK, Items
<1>2. Len(queue) \in Nat /\ 1 \in 1..Len(queue) /\ Head(queue) = queue[1]
  BY <1>1
<1>3. /\ Len(Tail(queue)) = Len(queue) - 1
      /\ \A m \in 1..Len(Tail(queue)) : Tail(queue)[m] = queue[m + 1]
  BY <1>1, HeadTailProperties
<1>4. \A m \in 1..(Len(queue) - 1) : m + 1 \in 1..Len(queue)
  BY <1>2
<1> QED BY <1>2, <1>3, <1>4

\* The one whose item is the first is owed the first answer.
LEMMA OwedFirst ==
  ASSUME TypeOK, OwedInv, queue # <<>>, Head(queue).of \in Jobs
  PROVE  owed # <<>> /\ 1 \in 1..Len(owed) /\ Head(owed) = owed[1] /\ owed[1] = queue[1].of
<1>1. queue \in Seq(Items) /\ owed \in Seq(Jobs)
  BY DEF TypeOK, Items
<1>2. Len(queue) \in Nat /\ 1 \in 1..Len(queue) /\ Head(queue) = queue[1] /\ Len(owed) \in Nat
  BY <1>1
<1>3. PICK i \in 1..Len(owed) : owed[i] = queue[1].of
  BY <1>2 DEF OwedInv
<1>4. 1 \in 1..Len(owed) /\ owed # <<>>
  BY <1>1, <1>2, <1>3
<1>5. PICK m \in 1..Len(queue) : queue[m].of = owed[1]
  BY <1>4 DEF OwedInv
<1>6. ~(1 < i)
  <2>1. 1 < i => m < 1
    BY <1>2, <1>3, <1>4, <1>5 DEF OwedInv
  <2> QED BY <1>2, <2>1
<1>7. i = 1
  BY <1>2, <1>6
<1> QED BY <1>1, <1>3, <1>4, <1>7

LEMMA QueuedStep ==
  ASSUME TypeOK, SampleInv, QueuedInv, AnswerInv, [Next]_vars
  PROVE  QueuedInv' /\ AnswerInv'
<1>t. /\ pc \in [Threads -> Points] /\ Jobs \subseteq Threads
      /\ suppressPushing \in [Threads -> BOOLEAN]
      /\ answer \in [Threads -> {"none", "fake", "success", "failure"}]
  BY DEF TypeOK, Threads
<1>1. CASE Quiet
  BY <1>1 DEF Quiet, QueuedInv, AnswerInv, Over
<1>2. ASSUME NEW j \in Jobs, Refused(j)
      PROVE  QueuedInv' /\ AnswerInv'
  BY <1>t, <1>2 DEF Refused, QueuedInv, AnswerInv, Recording
<1>3. ASSUME NEW j \in Jobs, Faked(j)
      PROVE  QueuedInv' /\ AnswerInv'
  BY <1>t, <1>3 DEF Faked, QueuedInv, AnswerInv, Recording
<1>4. ASSUME NEW j \in Jobs, Pushed(j)
      PROVE  QueuedInv' /\ AnswerInv'
  <2>1. PICK x \in Items : x.of = j /\ queue' = Append(queue, x)
    BY <1>4 DEF Pushed
  <2>2. /\ Len(queue) \in Nat /\ Len(queue') = Len(queue) + 1
        /\ \A m \in 1..Len(queue) : queue'[m] = queue[m]
        /\ queue'[Len(queue) + 1] = x
    BY <2>1, AppendItem
  <2>3. /\ pc[j] = "push" /\ answer' = answer /\ pc'[j] = "done" /\ answer[j] = "none"
        /\ ~suppressPushing'[j]
        /\ \A k \in Jobs : k # j => pc'[k] = pc[k] /\ suppressPushing'[k] = suppressPushing[k]
    BY <1>t, <1>4 DEF Pushed, AnswerInv, Recording
  <2>4. \A m \in 1..Len(queue) : queue[m].of # j
    BY <2>3 DEF QueuedInv
  <2>5. \A m \in 1..Len(queue') : m \in 1..Len(queue) \/ m = Len(queue) + 1
    BY <2>2
  <2>6. AnswerInv'
    BY <2>3 DEF AnswerInv
  <2>7. ASSUME NEW m \in 1..Len(queue'), queue'[m].of \in Jobs
        PROVE  pc'[queue'[m].of] = "done" /\ answer'[queue'[m].of] = "none"
    BY <2>1, <2>2, <2>3, <2>5, <2>7 DEF QueuedInv
  <2>8. ASSUME NEW m \in 1..Len(queue'), NEW n \in 1..Len(queue'),
               queue'[m].of \in Jobs, queue'[m].of = queue'[n].of
        PROVE  m = n
    BY <2>1, <2>2, <2>4, <2>5, <2>8 DEF QueuedInv
  <2> QED BY <2>6, <2>7, <2>8 DEF QueuedInv
<1>5. ASSUME NEW a \in {"success", "failure"}, Answered(a)
      PROVE  QueuedInv' /\ AnswerInv'
  <2>1. /\ Len(queue) \in Nat /\ 1 \in 1..Len(queue) /\ Head(queue) = queue[1]
        /\ \A m \in 1..Len(queue') : m + 1 \in 1..Len(queue) /\ queue'[m] = queue[m + 1]
    BY <1>5, TailItems DEF Answered
  <2> DEFINE j == queue[1].of
  <2>2. /\ j \in Jobs /\ UNCHANGED <<pc, suppressPushing>>
        /\ answer' = [answer EXCEPT ![j] = a] /\ pc[j] = "done"
    BY <1>5, <2>1 DEF Answered, QueuedInv
  <2>3. \A m \in 1..Len(queue) : m # 1 => queue[m].of # j
    BY <2>1, <2>2 DEF QueuedInv
  <2>4. \A m \in 1..Len(queue') : m + 1 # 1 /\ m \in Int
    OBVIOUS
  <2>5. AnswerInv'
    BY <1>t, <2>2 DEF AnswerInv
  <2> HIDE DEF j
  <2>6. ASSUME NEW m \in 1..Len(queue'), queue'[m].of \in Jobs
        PROVE  pc'[queue'[m].of] = "done" /\ answer'[queue'[m].of] = "none"
    <3>1. queue'[m].of # j
      BY <2>1, <2>3, <2>4
    <3>2. answer'[queue'[m].of] = answer[queue'[m].of]
      BY <1>t, <2>2, <2>6, <3>1
    <3>3. pc[queue'[m].of] = "done" /\ answer[queue'[m].of] = "none"
      BY <2>1, <2>6 DEF QueuedInv
    <3> QED BY <2>2, <3>2, <3>3
  <2>7. ASSUME NEW m \in 1..Len(queue'), NEW n \in 1..Len(queue'),
               queue'[m].of \in Jobs, queue'[m].of = queue'[n].of
        PROVE  m = n
    <3>1. m + 1 = n + 1
      BY <2>1, <2>7 DEF QueuedInv
    <3> QED BY <2>4, <3>1
  <2> QED BY <2>5, <2>6, <2>7 DEF QueuedInv
<1>6. CASE PushedElse
  <2>1. PICK x \in Items : x.of \notin Jobs /\ queue' = Append(queue, x)
    BY <1>6 DEF PushedElse
  <2>2. /\ Len(queue) \in Nat /\ Len(queue') = Len(queue) + 1
        /\ \A m \in 1..Len(queue) : queue'[m] = queue[m]
        /\ queue'[Len(queue) + 1] = x
    BY <2>1, AppendItem
  <2>3. \A m \in 1..Len(queue') :
          queue'[m].of \in Jobs => m \in 1..Len(queue) /\ queue'[m] = queue[m]
    BY <2>1, <2>2
  <2>4. SameCalls
    BY <1>6 DEF PushedElse
  <2> QED BY <2>3, <2>4 DEF QueuedInv, AnswerInv, SameCalls
<1>7. CASE ServedElse
  <2>1. /\ Len(queue) \in Nat
        /\ \A m \in 1..Len(queue') : m + 1 \in 1..Len(queue) /\ queue'[m] = queue[m + 1]
    BY <1>7, TailItems DEF ServedElse
  <2>2. SameCalls
    BY <1>7 DEF ServedElse
  <2>3. ASSUME NEW m \in 1..Len(queue'), NEW n \in 1..Len(queue'),
               queue'[m].of \in Jobs, queue'[m].of = queue'[n].of
        PROVE  m = n
    <3>1. m + 1 = n + 1
      BY <2>1, <2>3 DEF QueuedInv
    <3> QED BY <3>1
  <2> QED BY <2>1, <2>2, <2>3 DEF QueuedInv, AnswerInv, SameCalls
<1> QED BY <1>1, <1>2, <1>3, <1>4, <1>5, <1>6, <1>7, StepKinds

LEMMA OwedStep ==
  ASSUME TypeOK, SampleInv, QueuedInv, AnswerInv, OwedInv, [Next]_vars
  PROVE  OwedInv'
<1>o. owed \in Seq(Jobs) /\ Len(owed) \in Nat /\ \A i \in 1..Len(owed) : owed[i] \in Jobs
  <2>1. owed \in Seq(Jobs)
    BY DEF TypeOK
  <2> QED BY <2>1
<1>1. CASE UNCHANGED <<queue, owed>>
  BY <1>1 DEF OwedInv
<1>2. ASSUME NEW j \in Jobs, Pushed(j)
      PROVE  OwedInv'
  <2>1. PICK x \in Items : x.of = j /\ queue' = Append(queue, x)
    BY <1>2 DEF Pushed
  <2>2. /\ Len(queue) \in Nat /\ Len(queue') = Len(queue) + 1
        /\ \A m \in 1..Len(queue) : queue'[m] = queue[m]
        /\ queue'[Len(queue) + 1] = x
    BY <2>1, AppendItem
  <2>3. /\ Len(owed') = Len(owed) + 1 /\ owed'[Len(owed) + 1] = j
        /\ \A i \in 1..Len(owed) : owed'[i] = owed[i]
    BY <1>o, <1>2, AppendProperties DEF Pushed
  <2>4. \A m \in 1..Len(queue) : queue[m].of # j
    BY <1>2 DEF Pushed, QueuedInv
  <2>5. \A i \in 1..Len(owed) : owed[i] # j
    BY <2>4 DEF OwedInv
  <2>6. /\ \A m \in 1..Len(queue') : m \in 1..Len(queue) \/ m = Len(queue) + 1
        /\ \A i \in 1..Len(owed') : i \in 1..Len(owed) \/ i = Len(owed) + 1
        /\ 1..Len(queue) \subseteq 1..Len(queue') /\ Len(queue) + 1 \in 1..Len(queue')
        /\ 1..Len(owed) \subseteq 1..Len(owed') /\ Len(owed) + 1 \in 1..Len(owed')
    BY <1>o, <2>2, <2>3
  <2>7. ASSUME NEW i \in 1..Len(owed')
        PROVE  \E m \in 1..Len(queue') : queue'[m].of = owed'[i]
    <3>1. CASE i = Len(owed) + 1
      BY <2>1, <2>2, <2>3, <2>6, <3>1
    <3>2. CASE i \in 1..Len(owed)
      BY <2>2, <2>3, <2>6, <3>2 DEF OwedInv
    <3> QED BY <2>6, <3>1, <3>2
  <2>8. ASSUME NEW m \in 1..Len(queue'), queue'[m].of \in Jobs
        PROVE  \E i \in 1..Len(owed') : owed'[i] = queue'[m].of
    <3>1. CASE m = Len(queue) + 1
      BY <2>1, <2>2, <2>3, <2>6, <3>1
    <3>2. CASE m \in 1..Len(queue)
      BY <2>2, <2>3, <2>6, <2>8, <3>2 DEF OwedInv
    <3> QED BY <2>6, <3>1, <3>2
  <2>9. ASSUME NEW i \in 1..Len(owed'), NEW k \in 1..Len(owed'),
               NEW m \in 1..Len(queue'), NEW n \in 1..Len(queue'),
               i < k, queue'[m].of = owed'[i], queue'[n].of = owed'[k]
        PROVE  m < n
    <3>1. i \in 1..Len(owed) /\ owed'[i] = owed[i] /\ owed[i] # j
      BY <1>o, <2>3, <2>5, <2>6, <2>9
    <3>2. m \in 1..Len(queue) /\ queue'[m] = queue[m]
      BY <2>1, <2>2, <2>6, <2>9, <3>1
    <3>3. CASE k = Len(owed) + 1
      <4>1. queue'[n].of = j
        BY <2>3, <2>9, <3>3
      <4>2. n = Len(queue) + 1
        BY <2>2, <2>4, <2>6, <4>1
      <4> QED BY <2>2, <3>2, <4>2
    <3>4. CASE k \in 1..Len(owed)
      <4>1. owed'[k] = owed[k] /\ owed[k] # j
        BY <2>3, <2>5, <3>4
      <4>2. n \in 1..Len(queue) /\ queue'[n] = queue[n]
        BY <2>1, <2>2, <2>6, <2>9, <4>1
      <4> QED BY <2>9, <3>1, <3>2, <3>4, <4>1, <4>2 DEF OwedInv
    <3> QED BY <2>6, <3>3, <3>4
  <2> QED BY <2>7, <2>8, <2>9 DEF OwedInv
<1>3. ASSUME NEW a \in {"success", "failure"}, Answered(a)
      PROVE  OwedInv'
  <2>1. /\ Len(queue) \in Nat /\ 1 \in 1..Len(queue) /\ Len(queue') = Len(queue) - 1
        /\ \A m \in 1..Len(queue') : m + 1 \in 1..Len(queue) /\ queue'[m] = queue[m + 1]
    BY <1>3, TailItems DEF Answered
  <2>2. owed # <<>> /\ 1 \in 1..Len(owed) /\ owed[1] = queue[1].of /\ owed[1] \in Jobs
    BY <1>3, <1>o, OwedFirst DEF Answered
  <2>3. /\ Len(owed') = Len(owed) - 1
        /\ \A i \in 1..Len(owed') : i + 1 \in 1..Len(owed) /\ owed'[i] = owed[i + 1]
    <3>1. owed' = Tail(owed)
      BY <1>3 DEF Answered
    <3>2. /\ Len(Tail(owed)) = Len(owed) - 1
          /\ \A i \in 1..Len(Tail(owed)) : Tail(owed)[i] = owed[i + 1]
      BY <1>o, <2>2, HeadTailProperties
    <3>3. \A i \in 1..(Len(owed) - 1) : i + 1 \in 1..Len(owed)
      BY <1>o
    <3> QED BY <3>1, <3>2, <3>3
  <2>4. /\ \A m \in 1..Len(queue) : m = 1 \/ m - 1 \in 1..Len(queue')
        /\ \A i \in 1..Len(owed) : i = 1 \/ i - 1 \in 1..Len(owed')
    BY <1>o, <2>1, <2>3
  <2>5. ASSUME NEW i \in 1..Len(owed')
        PROVE  \E m \in 1..Len(queue') : queue'[m].of = owed'[i]
    <3>1. PICK m \in 1..Len(queue) : queue[m].of = owed[i + 1]
      BY <2>3 DEF OwedInv
    <3>2. 1 < m
      BY <2>1, <2>2, <2>3, <3>1 DEF OwedInv
    <3>3. m - 1 \in 1..Len(queue') /\ (m - 1) + 1 = m
      BY <2>1, <2>4, <3>2
    <3> QED BY <2>1, <2>3, <3>1, <3>3
  <2>6. ASSUME NEW m \in 1..Len(queue'), queue'[m].of \in Jobs
        PROVE  \E i \in 1..Len(owed') : owed'[i] = queue'[m].of
    <3>1. m + 1 \in 1..Len(queue) /\ queue'[m] = queue[m + 1]
      BY <2>1
    <3>2. PICK i \in 1..Len(owed) : owed[i] = queue[m + 1].of
      BY <2>6, <3>1 DEF OwedInv
    <3>3. queue[1].of # queue[m + 1].of
      <4>1. m + 1 # 1
        BY <2>1
      <4> QED BY <2>1, <2>2, <3>1, <4>1 DEF QueuedInv
    <3>4. i # 1
      BY <2>2, <3>2, <3>3
    <3>5. i - 1 \in 1..Len(owed') /\ (i - 1) + 1 = i
      BY <1>o, <2>4, <3>4
    <3> QED BY <2>3, <3>1, <3>2, <3>5
  <2>7. ASSUME NEW i \in 1..Len(owed'), NEW k \in 1..Len(owed'),
               NEW m \in 1..Len(queue'), NEW n \in 1..Len(queue'),
               i < k, queue'[m].of = owed'[i], queue'[n].of = owed'[k]
        PROVE  m < n
    <3>1. /\ i + 1 \in 1..Len(owed) /\ k + 1 \in 1..Len(owed) /\ i + 1 < k + 1
          /\ m + 1 \in 1..Len(queue) /\ n + 1 \in 1..Len(queue)
      BY <2>1, <2>3, <2>7
    <3>2. queue[m + 1].of = owed[i + 1] /\ queue[n + 1].of = owed[k + 1]
      BY <2>1, <2>3, <2>7
    <3>3. m + 1 < n + 1
      BY <3>1, <3>2 DEF OwedInv
    <3> QED BY <3>3
  <2> QED BY <2>5, <2>6, <2>7 DEF OwedInv
<1>4. CASE PushedElse
  <2>1. PICK x \in Items : x.of \notin Jobs /\ queue' = Append(queue, x)
    BY <1>4 DEF PushedElse
  <2>2. /\ Len(queue) \in Nat /\ Len(queue') = Len(queue) + 1
        /\ \A m \in 1..Len(queue) : queue'[m] = queue[m]
        /\ queue'[Len(queue) + 1] = x
    BY <2>1, AppendItem
  <2>3. /\ \A m \in 1..Len(queue') :
             queue'[m].of \in Jobs => m \in 1..Len(queue) /\ queue'[m] = queue[m]
        /\ 1..Len(queue) \subseteq 1..Len(queue')
    BY <2>1, <2>2
  <2>4. owed' = owed
    BY <1>4 DEF PushedElse
  <2>5. ASSUME NEW i \in 1..Len(owed)
        PROVE  \E m \in 1..Len(queue') : queue'[m].of = owed[i]
    BY <2>2, <2>3 DEF OwedInv
  <2>6. ASSUME NEW m \in 1..Len(queue'), queue'[m].of \in Jobs
        PROVE  \E i \in 1..Len(owed) : owed[i] = queue'[m].of
    BY <2>3, <2>6 DEF OwedInv
  <2>7. ASSUME NEW i \in 1..Len(owed), NEW k \in 1..Len(owed),
               NEW m \in 1..Len(queue'), NEW n \in 1..Len(queue'),
               i < k, queue'[m].of = owed[i], queue'[n].of = owed[k]
        PROVE  m < n
    <3>1. /\ m \in 1..Len(queue) /\ queue'[m] = queue[m]
          /\ n \in 1..Len(queue) /\ queue'[n] = queue[n]
      BY <1>o, <2>3, <2>7
    <3> QED BY <2>7, <3>1 DEF OwedInv
  <2> QED BY <2>4, <2>5, <2>6, <2>7 DEF OwedInv
<1>5. CASE ServedElse
  <2>1. /\ Len(queue) \in Nat /\ 1 \in 1..Len(queue) /\ Len(queue') = Len(queue) - 1
        /\ queue[1].of \notin Jobs
        /\ \A m \in 1..Len(queue') : m + 1 \in 1..Len(queue) /\ queue'[m] = queue[m + 1]
    BY <1>5, TailItems DEF ServedElse
  <2>2. owed' = owed
    BY <1>5 DEF ServedElse
  <2>3. \A m \in 1..Len(queue) : queue[m].of \in Jobs => m - 1 \in 1..Len(queue') /\ (m - 1) + 1 = m
    BY <2>1
  <2>4. ASSUME NEW i \in 1..Len(owed)
        PROVE  \E m \in 1..Len(queue') : queue'[m].of = owed[i]
    <3>1. PICK m \in 1..Len(queue) : queue[m].of = owed[i]
      BY DEF OwedInv
    <3>2. m - 1 \in 1..Len(queue') /\ (m - 1) + 1 = m
      BY <1>o, <2>3, <3>1
    <3> QED BY <2>1, <3>1, <3>2
  <2>5. ASSUME NEW m \in 1..Len(queue'), queue'[m].of \in Jobs
        PROVE  \E i \in 1..Len(owed) : owed[i] = queue'[m].of
    BY <2>1, <2>5 DEF OwedInv
  <2>6. ASSUME NEW i \in 1..Len(owed), NEW k \in 1..Len(owed),
               NEW m \in 1..Len(queue'), NEW n \in 1..Len(queue'),
               i < k, queue'[m].of = owed[i], queue'[n].of = owed[k]
        PROVE  m < n
    <3>1. /\ m + 1 \in 1..Len(queue) /\ queue[m + 1].of = owed[i]
          /\ n + 1 \in 1..Len(queue) /\ queue[n + 1].of = owed[k]
      BY <2>1, <2>6
    <3>2. m + 1 < n + 1
      BY <2>6, <3>1 DEF OwedInv
    <3> QED BY <3>2
  <2> QED BY <2>2, <2>4, <2>5, <2>6 DEF OwedInv
<1> QED BY <1>1, <1>2, <1>3, <1>4, <1>5, StepKinds DEF Quiet, Refused, Faked

-------------------------------------------------------------------------------
(* The theorems.                                                           *)

\* The inductive invariant holds in every reachable state.
LEMMA InvariantHolds == Spec => []IInv
<1>1. Init => IInv
  <2> SUFFICES ASSUME Init PROVE IInv
    OBVIOUS
  <2>1. TypeOK
    <3>1. pc \in [Threads -> Points] /\ stage \in [Chains -> Stages]
      BY DEF Init, Points, Stages
    <3>2. keepAlive \in [axis : AllAxes, error : BOOLEAN, ended : BOOLEAN]
      BY SinkAssumption DEF Init, AllAxes
    <3>3. /\ sampling \in BOOLEAN /\ targetChanged \in BOOLEAN /\ recent \in BOOLEAN
          /\ lastTarget \in [AllAxes -> Values] /\ device \in [AllAxes -> Values \cup {Unset}]
      BY SinkAssumption DEF Init
    <3>4. req \in [Threads -> Changes \cup {Query}] /\ queue \in Seq(Items) /\ owed \in Seq(Jobs)
      BY DEF Init
    <3>5. /\ answer \in [Threads -> {"none", "fake", "success", "failure"}]
          /\ runner \in [Chains -> Threads \cup {"timer", "queue", "worker"}]
          /\ suppressPushing \in [Threads -> BOOLEAN]
          /\ error \in BOOLEAN /\ spinning \in BOOLEAN /\ exited \in BOOLEAN
      BY DEF Init
    <3> QED BY <3>1, <3>2, <3>3, <3>4, <3>5 DEF TypeOK, Items
  <2>2. RecordInv /\ QueuedInv /\ AnswerInv /\ OwedInv
    BY DEF Init, RecordInv, QueuedInv, AnswerInv, OwedInv, Threads
  <2> QED BY <2>1, <2>2 DEF Init, IInv, SampleInv, SamplingHasOwner
<1>2. IInv /\ [Next]_vars => IInv'
  BY TypeStep, RecordStep, SampleStep, QueuedStep, OwedStep, OwnerStep DEF IInv
<1> QED BY <1>1, <1>2, PTL DEF Spec

\* The types hold, whatever runs RequestImpl: in particular the worker finds
\* a chain that waits for its question.
THEOREM SinkTypeCorrect == Spec => []TypeOK
<1>1. IInv => TypeOK
  BY DEF IInv
<1> QED BY <1>1, InvariantHolds, PTL

\* However many threads race for smartSinkSampling, it has an owner who will
\* reset it while the worker lives.
THEOREM SamplingOwnerCorrect == Spec => []SamplingHasOwner
<1>1. IInv => SamplingHasOwner
  BY DEF IInv
<1> QED BY <1>1, InvariantHolds, PTL
-------------------------------------------------------------------------------
(* The smartSink path implements RotatorService.                           *)

\* Nothing is owed and every call is new at first.
LEMMA RefineInit == Init => Service!Init
<1> SUFFICES ASSUME Init PROVE Service!Init
  OBVIOUS
<1>1. owed = <<>>
  BY DEF Init
<1>2. Status = [j \in Jobs |-> "new"]
  BY DEF Init, Status, Threads
<1> QED BY <1>1, <1>2 DEF Service!Init

\* Refused refuses, Faked answers at once, Pushed admits, Answered answers the
\* oldest; what chains and keep-alive thread do to the queue stutters.
LEMMA RefineStep == IInv /\ [Next]_vars => [Service!Next]_<<owed, Status>>
<1> SUFFICES ASSUME IInv, [Next]_vars PROVE Service!Next \/ UNCHANGED <<owed, Status>>
  OBVIOUS
<1>a. TypeOK /\ RecordInv /\ SampleInv /\ QueuedInv /\ AnswerInv /\ OwedInv
  BY DEF IInv
<1>b. /\ Status \in [Jobs -> {"answered", "pending", "refused", "new"}]
      /\ Status' \in [Jobs -> {"answered", "pending", "refused", "new"}]
  BY DEF Status
<1>c. /\ pc \in [Threads -> Points] /\ Jobs \subseteq Threads
      /\ answer \in [Threads -> {"none", "fake", "success", "failure"}]
  BY <1>a DEF TypeOK, Threads
<1>d. \A j \in Jobs : pc[j] \in {"idle", "fake", "push"} => answer[j] = "none"
  BY <1>a DEF AnswerInv, Recording
<1>1. CASE Quiet
  <2>1. \A j \in Jobs : Status'[j] = Status[j]
    BY <1>1 DEF Quiet, Over, Status
  <2> QED BY <1>1, <1>b, <2>1 DEF Quiet
<1>2. CASE PushedElse \/ ServedElse
  <2>1. UNCHANGED owed /\ \A j \in Jobs : answer'[j] = answer[j] /\ pc'[j] = pc[j]
    BY <1>2 DEF PushedElse, ServedElse, SameCalls
  <2>2. \A j \in Jobs : Status'[j] = Status[j]
    BY <2>1 DEF Status
  <2> QED BY <1>b, <2>1, <2>2
<1>3. ASSUME NEW j \in Jobs, Refused(j)
      PROVE  Service!Next
  <2>1. /\ pc[j] = "idle" /\ pc'[j] = "refused" /\ UNCHANGED <<owed, answer>>
        /\ \A k \in Jobs \ {j} : pc'[k] = pc[k]
    BY <1>3, <1>c DEF Refused
  <2>2. Status[j] = "new" /\ Status'[j] = "refused"
    BY <1>d, <2>1 DEF Status
  <2>3. \A k \in Jobs \ {j} : Status'[k] = Status[k]
    BY <2>1 DEF Status
  <2>4. Status' = [Status EXCEPT ![j] = "refused"]
    BY <1>b, <2>2, <2>3
  <2> QED BY <2>1, <2>2, <2>4 DEF Service!Next, Service!Refuse
<1>4. ASSUME NEW j \in Jobs, Faked(j)
      PROVE  Service!Next
  <2>1. /\ pc[j] = "fake" /\ answer'[j] = "fake" /\ UNCHANGED owed
        /\ \A k \in Jobs \ {j} : pc'[k] = pc[k] /\ answer'[k] = answer[k]
    BY <1>4, <1>c DEF Faked
  <2>2. Status[j] = "new" /\ Status'[j] = "answered"
    BY <1>d, <2>1 DEF Status
  <2>3. \A k \in Jobs \ {j} : Status'[k] = Status[k]
    BY <2>1 DEF Status
  <2>4. Status' = [Status EXCEPT ![j] = "answered"]
    BY <1>b, <2>2, <2>3
  <2> QED BY <2>1, <2>2, <2>4 DEF Service!Next, Service!AnswerAtOnce
<1>5. ASSUME NEW j \in Jobs, Pushed(j)
      PROVE  Service!Next
  <2>1. /\ pc[j] = "push" /\ pc'[j] = "done" /\ UNCHANGED answer
        /\ owed' = Append(owed, j)
        /\ \A k \in Jobs \ {j} : pc'[k] = pc[k]
    BY <1>5, <1>c DEF Pushed
  <2>2. Status[j] = "new" /\ Status'[j] = "pending"
    BY <1>d, <2>1 DEF Status
  <2>3. \A k \in Jobs \ {j} : Status'[k] = Status[k]
    BY <2>1 DEF Status
  <2>4. Status' = [Status EXCEPT ![j] = "pending"]
    BY <1>b, <2>2, <2>3
  <2> QED BY <2>1, <2>2, <2>4 DEF Service!Next, Service!Admit
<1>6. ASSUME NEW a \in {"success", "failure"}, Answered(a)
      PROVE  Service!Next
  <2>1. queue # <<>> /\ Head(queue).of \in Jobs /\ Head(queue) = queue[1]
    BY <1>6, <1>a, TailItems DEF Answered
  <2>2. owed # <<>> /\ Head(owed) = Head(queue).of
    BY <1>a, <2>1, OwedFirst
  <2> DEFINE j == Head(owed)
  <2>3. /\ j \in Jobs /\ UNCHANGED pc /\ owed' = Tail(owed)
        /\ answer' = [answer EXCEPT ![j] = a]
    BY <1>6, <2>1, <2>2 DEF Answered
  <2> HIDE DEF j
  <2>4. answer'[j] # "none" /\ \A k \in Jobs \ {j} : answer'[k] = answer[k]
    BY <1>c, <2>3
  <2>5. Status'[j] = "answered" /\ \A k \in Jobs \ {j} : Status'[k] = Status[k]
    BY <2>3, <2>4 DEF Status
  <2>6. Status' = [Status EXCEPT ![j] = "answered"]
    BY <1>b, <2>5
  <2> QED BY <2>2, <2>3, <2>6 DEF j, Service!Next, Service!Answer
<1> QED BY <1>1, <1>2, <1>3, <1>4, <1>5, <1>6, <1>a, StepKinds

\* The smartSink path answers admitted requests in order and at most once,
\* however many chains and threads use its queue.
THEOREM SinkImplementsService == Spec => Implements
<1>1. [Service!Next]_<<owed, Status>> => [Service!Next]_(Service!vars)
  BY DEF Service!vars
<1> QED
  BY RefineInit, RefineStep, InvariantHolds, <1>1, PTL DEF Spec, Implements, Service!Spec
===============================================================================
