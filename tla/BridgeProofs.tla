----------------------------- MODULE BridgeProofs -----------------------------
(***************************************************************************)
(* Proofs about Bridge, for any number of sessions, commands and rounds.   *)
(*                                                                         *)
(* The argument: a caller's calls go through the queue one after the       *)
(* other, so the device obeys them in their order, and what it was told    *)
(* last by a session is the session's last call that was answered.  A call *)
(* that was given up waiting for is still ahead of the next one.           *)
(***************************************************************************)
EXTENDS Bridge, SequenceTheorems, TLAPS

-------------------------------------------------------------------------------
(* The inductive invariant.                                                *)

\* The queue holds the calls that are pending, each caller's in their order.
QueueInv ==
  /\ \A i \in 1..Len(pending) : status[pending[i]] = "pending"
  /\ \A x \in Calls : status[x] = "pending" => \E i \in 1..Len(pending) : pending[i] = x
  /\ \A i, j \in 1..Len(pending) :
       i < j /\ pending[i][1] = pending[j][1] => pending[i][2] < pending[j][2]

\* A caller makes a call when those before it have returned, and what comes back
\* from a call is the response to it or to one that its caller made before.
CallInv ==
  \A x \in Calls :
    /\ status[x] # "new" => Reached(x)
    /\ result[x] # Running => status[x] # "new"
    /\ result[x] \in Calls =>
         status[result[x]] = "answered" /\ result[x][1] = x[1] /\ result[x][2] <= x[2]

\* The calls of one caller are answered in their order.
OrderInv ==
  \A x, y \in Calls :
    x[1] = y[1] /\ x[2] < y[2] /\ status[y] = "answered" => status[x] # "pending"

\* Calls belong to commands that were read, and only an exited worker refuses.
CommandInv ==
  /\ \A c \in Sessions : Len(commands[c]) <= MaxCommands[c]
  /\ \A x \in Calls :
       /\ x[1] \in Sessions /\ status[x] # "new" => x[2] <= 2 * Len(commands[x[1]])
       /\ worker # "exited" => status[x] # "refused"

\* The changes of an axis that were answered.
Answered(a) == {x \in Calls : status[x] = "answered" /\ Axis(x) = a /\ IsChange(x)}

\* An axis points where its session's last answered change took it.
AxisInv(a) ==
  /\ Answered(a) # {} => device[a] # Unset
  /\ device[a] \in Calls =>
       /\ device[a][1] \in Sessions
       /\ device[a] \in Answered(a)
       /\ \A y \in Answered(a) : y[1] = device[a][1] => y[2] <= device[a][2]
DeviceInv == worker = "up" => \A a \in Axes : AxisInv(a)

\* What ReadsOwnWrites says of one query.
GoodRead(x) ==
  LET S == Changes(x[1], Axis(x), x[2]) IN
  /\ payload[x] # Garbage
  /\ S # {} =>
       /\ payload[x] # Unset
       /\ payload[x] \in Calls /\ payload[x][1] = x[1] => IsLatest(payload[x][2], S)
PayloadInv ==
  worker = "up" =>
    \A x \in Calls :
      x[1] \in Sessions /\ status[x] = "answered" /\ ~IsChange(x) => GoodRead(x)

IInv ==
  TypeOK /\ QueueInv /\ CallInv /\ OrderInv /\ CommandInv /\ DeviceInv /\ PayloadInv

-------------------------------------------------------------------------------
(* Calls and steps.                                                        *)

LEMMA CallShape ==
  /\ \A x \in Calls : x[1] \in Callers /\ x[2] \in 1..MaxCalls /\ x = <<x[1], x[2]>>
  /\ \A x \in Calls : \A n \in 1..x[2] : <<x[1], n>> \in Calls
  /\ \A c \in Callers : \A n \in 1..MaxCalls : <<c, n>> \in Calls
<1>1. \A x \in Calls : x[1] \in Callers /\ x[2] \in 1..MaxCalls /\ x = <<x[1], x[2]>>
  BY DEF Calls
<1>2. \A c \in Callers : \A n \in 1..MaxCalls : <<c, n>> \in Calls
  BY DEF Calls
<1>3. \A x \in Calls : \A n \in 1..x[2] : n \in 1..MaxCalls
  BY <1>1, BridgeAssumption
<1> QED BY <1>1, <1>2, <1>3

LEMMA CallersShape == Sessions \subseteq Callers /\ \A c \in Callers : c \in Sessions \/ c = KeepAlive
  BY BridgeAssumption DEF Sessions

\* A call for a command that was read, or one of the keep-alive thread.
Due(x) == x[1] \in Sessions => x[2] <= 2 * Len(commands[x[1]])

LEMMA StepCases ==
  ASSUME TypeOK, CommandInv, [Next]_vars
  PROVE  \/ \E c \in Sessions, k \in {"p", "P"} : ReadCommand(c, k)
         \/ \E x \in Calls : RequestSync(x) /\ Due(x)
         \/ \E x \in Calls : GiveBack(x) /\ UNCHANGED bridgeVars
         \/ \E c \in Sessions : Reply(c)
         \/ Serve \/ Fail \/ ExitThread \/ UNCHANGED vars
<1>1. CASE \E c \in Sessions : HandleRequest(c)
  <2> PICK c \in Sessions : HandleRequest(c)
    BY <1>1
  <2> PICK n \in 1..(2 * Len(commands[c])) : RequestSync(<<c, n>>)
    BY DEF HandleRequest
  <2>1. Len(commands[c]) \in Nat /\ Len(commands[c]) <= MaxCommands[c]
    BY DEF TypeOK, CommandInv
  <2>2. MaxCommands[c] \in 0..(MaxCalls \div 2) /\ MaxCalls \in Nat
    BY BridgeAssumption
  <2>3. n \in 1..MaxCalls /\ n <= 2 * Len(commands[c])
    BY <2>1, <2>2
  <2>4. <<c, n>> \in Calls /\ Due(<<c, n>>)
    BY <2>3, CallShape, CallersShape DEF Due
  <2> QED BY <2>4
<1>2. CASE KeepAliveRequest
  <2> PICK n \in 1..(2 * MaxRounds) : RequestSync(<<KeepAlive, n>>)
    BY <1>2 DEF KeepAliveRequest
  <2>1. n \in 1..MaxCalls
    BY BridgeAssumption
  <2>2. <<KeepAlive, n>> \in Calls /\ Due(<<KeepAlive, n>>)
    BY <2>1, CallShape, BridgeAssumption DEF Due, Sessions
  <2> QED BY <2>2
<1>3. CASE \E c \in Callers : Return(c)
  BY <1>3, CallShape DEF Return
<1> QED BY <1>1, <1>2, <1>3 DEF Next

\* What the steps do to queue, status and result.
LEMMA SubmitFacts ==
  ASSUME TypeOK, NEW x \in Calls, RequestSync(x), worker # "exited"
  PROVE  /\ Reached(x) /\ status[x] = "new"
         /\ status' = [status EXCEPT ![x] = "pending"]
         /\ pending' = Append(pending, x)
         /\ UNCHANGED <<result, bridgeVars>>
  BY DEF RequestSync, Submit, Controller!Admit

\* Call x may come back with response r.
Returns(x, r) == r \in Calls => status[r] = "answered" /\ r[1] = x[1] /\ r[2] <= x[2]

LEMMA RejectFacts ==
  ASSUME TypeOK, NEW x \in Calls, RequestSync(x), worker = "exited"
  PROVE  /\ Reached(x) /\ status[x] = "new"
         /\ status' = [status EXCEPT ![x] = "refused"]
         /\ \E r \in Calls \cup {None} : Returns(x, r) /\ result' = [result EXCEPT ![x] = r]
         /\ UNCHANGED <<pending, bridgeVars>>
<1>1. None \notin Calls
  BY BridgeAssumption
<1>2. \A y \in Late(x) : y \in Calls /\ Returns(x, y)
  BY CallShape, BridgeAssumption DEF Late, Returns
<1> QED BY <1>1, <1>2 DEF Returns, RequestSync, Reject, Controller!Refuse

LEMMA GiveBackFacts ==
  ASSUME TypeOK, NEW x \in Calls, GiveBack(x)
  PROVE  /\ status[x] \in {"pending", "answered"}
         /\ \E r \in Calls \cup {None} : Returns(x, r) /\ result' = [result EXCEPT ![x] = r]
         /\ UNCHANGED <<pending, status>>
<1>1. None \notin Calls
  BY BridgeAssumption
<1>2. \A y \in Late(x) : y \in Calls /\ Returns(x, y)
  BY CallShape, BridgeAssumption DEF Late, Returns
<1>3. x[2] <= x[2]
  BY CallShape, BridgeAssumption
<1> QED BY <1>1, <1>2, <1>3 DEF GiveBack, Returns

LEMMA AnswerFacts ==
  ASSUME TypeOK, QueueInv, Answer
  PROVE  /\ pending # <<>> /\ 1 \in 1..Len(pending)
         /\ Head(pending) = pending[1] /\ pending[1] \in Calls
         /\ status[pending[1]] = "pending"
         /\ status' = [status EXCEPT ![pending[1]] = "answered"]
         /\ pending' \in Seq(Calls) /\ Len(pending') = Len(pending) - 1
         /\ \A i \in 1..Len(pending') : pending'[i] = pending[i + 1]
         /\ result' = result
<1>1. /\ pending # <<>> /\ pending' = Tail(pending) /\ result' = result
      /\ status' = [status EXCEPT ![Head(pending)] = "answered"]
  BY DEF Answer, Controller!Answer
<1>2. pending \in Seq(Calls)
  BY DEF TypeOK
<1>3. 1 \in 1..Len(pending) /\ Head(pending) = pending[1]
  BY <1>1, <1>2
<1>4. pending[1] \in Calls
  BY <1>2, <1>3
<1>5. status[pending[1]] = "pending"
  BY <1>3 DEF QueueInv
<1>6. /\ pending' \in Seq(Calls) /\ Len(pending') = Len(pending) - 1
      /\ \A i \in 1..Len(pending') : pending'[i] = pending[i + 1]
  BY <1>1, <1>2, HeadTailProperties
<1> QED BY <1>1, <1>3, <1>4, <1>5, <1>6

\* No other call of its caller waits before the call that is answered.
LEMMA AnsweredInTurn ==
  ASSUME TypeOK, QueueInv, pending # <<>>, NEW x \in Calls, status[x] = "pending",
         x[1] = pending[1][1]
  PROVE  pending[1][2] <= x[2]
<1>1. pending \in Seq(Calls) /\ Len(pending) \in Nat /\ 1 \in 1..Len(pending)
  BY DEF TypeOK
<1>2. PICK i \in 1..Len(pending) : pending[i] = x
  BY DEF QueueInv
<1>3. pending[1] \in Calls
  BY <1>1
<1>4. CASE i = 1
  BY <1>2, <1>4, CallShape, BridgeAssumption
<1>5. CASE i # 1
  <2>1. pending[1][2] < pending[i][2]
    <3>1. 1 < i /\ pending[1][1] = pending[i][1]
      BY <1>1, <1>2, <1>5
    <3> QED BY <1>1, <3>1 DEF QueueInv
  <2>2. pending[1][2] \in Int /\ x[2] \in Int
    BY <1>3, CallShape, BridgeAssumption
  <2> QED BY <1>2, <2>1, <2>2
<1> QED BY <1>4, <1>5

-------------------------------------------------------------------------------
(* The queue.                                                              *)

LEMMA QueueStep ==
  ASSUME TypeOK, QueueInv, CallInv, CommandInv, [Next]_vars
  PROVE  QueueInv'
<1>t. pending \in Seq(Calls) /\ Len(pending) \in Nat /\ status \in [Calls -> {"new", "refused", "pending", "answered"}]
  BY DEF TypeOK
<1>i. \A i \in 1..Len(pending) : pending[i] \in Calls
  BY <1>t
<1>same. ASSUME UNCHANGED <<pending, status>> PROVE QueueInv'
  BY <1>same DEF QueueInv
<1>1. ASSUME NEW x \in Calls, RequestSync(x), worker # "exited"
      PROVE  QueueInv'
  <2> DEFINE n == Len(pending)
  <2>1. /\ Reached(x) /\ status[x] = "new" /\ status' = [status EXCEPT ![x] = "pending"]
        /\ pending' = Append(pending, x)
    BY <1>1, SubmitFacts
  <2>2. /\ Len(pending') = n + 1 /\ pending'[n + 1] = x
        /\ \A i \in 1..n : pending'[i] = pending[i]
    BY <1>t, <2>1, AppendProperties
  <2>3. \A i \in 1..n : status[pending[i]] = "pending"
    BY DEF QueueInv
  \* The caller has returned from its calls that are pending.
  <2>4. ASSUME NEW i \in 1..n, pending[i][1] = x[1]
        PROVE  pending[i][2] < x[2]
    <3> DEFINE y == pending[i]
    <3>1. y \in Calls /\ status[y] = "pending" /\ y # x
      BY <1>i, <2>1, <2>3
    <3>2. y[2] # x[2]
      BY <2>4, <3>1, CallShape
    <3>3. Reached(y)
      BY <3>1 DEF CallInv
    <3>4. ~(x[2] < y[2])
      <4> SUFFICES ASSUME x[2] < y[2] PROVE FALSE
        OBVIOUS
      <4>1. x[2] \in 1..(y[2] - 1)
        BY <3>1, CallShape, BridgeAssumption
      <4>2. x = <<y[1], x[2]>>
        BY <2>4, CallShape
      <4>3. result[x] # Running
        BY <3>3, <4>1, <4>2 DEF Reached
      <4> QED BY <2>1, <4>3 DEF CallInv
    <3>5. x[2] \in Int /\ y[2] \in Int
      BY <3>1, CallShape, BridgeAssumption
    <3> QED BY <3>2, <3>4, <3>5
  <2> HIDE DEF n
  <2>5. \A i \in 1..n + 1 : i \in 1..n \/ i = n + 1
    BY <1>t DEF n
  <2>6. \A i \in 1..n + 1 : status'[pending'[i]] = "pending"
    BY <1>t, <1>i, <2>1, <2>2, <2>3, <2>5 DEF n
  <2>7. ASSUME NEW y \in Calls, status'[y] = "pending"
        PROVE  \E i \in 1..n + 1 : pending'[i] = y
    <3>1. CASE y = x
      BY <1>t, <2>2, <3>1 DEF n
    <3>2. CASE y # x
      <4>1. status[y] = "pending"
        BY <1>t, <2>1, <2>7, <3>2
      <4>2. PICK i \in 1..n : pending[i] = y
        BY <4>1 DEF QueueInv, n
      <4>3. i \in 1..n + 1
        BY <1>t DEF n
      <4> QED BY <2>2, <4>2, <4>3
    <3> QED BY <3>1, <3>2
  <2>8. ASSUME NEW i \in 1..n + 1, NEW j \in 1..n + 1, i < j, pending'[i][1] = pending'[j][1]
        PROVE  pending'[i][2] < pending'[j][2]
    <3>1. i \in 1..n
      BY <1>t, <2>8 DEF n
    <3>2. CASE j \in 1..n
      BY <2>2, <2>8, <3>1, <3>2 DEF QueueInv, n
    <3>3. CASE j = n + 1
      BY <2>2, <2>4, <2>8, <3>1, <3>3
    <3> QED BY <2>5, <3>2, <3>3
  <2> QED BY <2>2, <2>6, <2>7, <2>8 DEF QueueInv
<1>2. ASSUME NEW x \in Calls, RequestSync(x), worker = "exited"
      PROVE  QueueInv'
  <2>1. status[x] = "new" /\ status' = [status EXCEPT ![x] = "refused"] /\ pending' = pending
    BY <1>2, RejectFacts
  <2>2. \A y \in Calls : status'[y] = "pending" <=> status[y] = "pending"
    BY <1>t, <2>1
  <2> QED BY <1>i, <2>1, <2>2 DEF QueueInv
<1>3. CASE Answer
  <2> DEFINE x == pending[1]
             n == Len(pending)
  <2>1. /\ 1 \in 1..n /\ x \in Calls /\ status[x] = "pending"
        /\ status' = [status EXCEPT ![x] = "answered"]
        /\ Len(pending') = n - 1 /\ \A i \in 1..n - 1 : pending'[i] = pending[i + 1]
    BY <1>3, AnswerFacts
  <2>2. \A i \in 1..n - 1 : i + 1 \in 1..n /\ 1 < i + 1
    BY <1>t
  <2>3. \A i \in 1..n - 1 : pending[i + 1] # x
    <3> SUFFICES ASSUME NEW i \in 1..n - 1, pending[i + 1] = x PROVE FALSE
      OBVIOUS
    <3>1. x[2] < x[2]
      BY <2>1, <2>2 DEF QueueInv
    <3> QED BY <2>1, <3>1, CallShape, BridgeAssumption
  <2>4. \A i \in 1..n - 1 : status'[pending'[i]] = "pending"
    <3> SUFFICES ASSUME NEW i \in 1..n - 1 PROVE status'[pending'[i]] = "pending"
      OBVIOUS
    <3>1. i + 1 \in 1..n /\ pending'[i] = pending[i + 1] /\ pending[i + 1] # x
      BY <2>1, <2>2, <2>3
    <3>2. pending[i + 1] \in Calls /\ status[pending[i + 1]] = "pending"
      BY <1>i, <3>1 DEF QueueInv
    <3> QED BY <1>t, <2>1, <3>1, <3>2
  <2>5. ASSUME NEW y \in Calls, status'[y] = "pending"
        PROVE  \E i \in 1..n - 1 : pending'[i] = y
    <3>1. status[y] = "pending" /\ y # x
      BY <1>t, <2>1, <2>5
    <3>2. PICK i \in 1..n : pending[i] = y
      BY <3>1 DEF QueueInv
    <3>3. i - 1 \in 1..n - 1 /\ i - 1 + 1 = i
      BY <1>t, <3>1, <3>2
    <3> QED BY <2>1, <3>2, <3>3
  <2>6. \A i, j \in 1..n - 1 : i < j /\ pending'[i][1] = pending'[j][1] =>
          pending'[i][2] < pending'[j][2]
    <3> TAKE i, j \in 1..n - 1
    <3>1. i + 1 \in 1..n /\ j + 1 \in 1..n /\ (i < j => i + 1 < j + 1)
      BY <1>t
    <3> QED BY <2>1, <3>1 DEF QueueInv
  <2> QED BY <2>1, <2>4, <2>5, <2>6 DEF QueueInv
<1>4. CASE \/ \E c \in Sessions, k \in {"p", "P"} : ReadCommand(c, k)
           \/ \E c \in Sessions : Reply(c)
           \/ \E x \in Calls : GiveBack(x)
           \/ ExitThread \/ UNCHANGED vars
  BY <1>4, <1>same DEF ReadCommand, Reply, GiveBack, ExitThread, vars, callVars
<1> QED BY <1>1, <1>2, <1>3, <1>4, StepCases DEF Serve, Fail

-------------------------------------------------------------------------------
(* The calls of one caller.                                                *)

LEMMA ReachedStays ==
  ASSUME NEW x \in Calls, Reached(x), \A y \in Calls : result[y] # Running => result'[y] # Running
  PROVE  Reached(x)'
<1>1. \A n \in 1..(x[2] - 1) : <<x[1], n>> \in Calls
  BY CallShape, BridgeAssumption
<1> QED BY <1>1 DEF Reached

LEMMA CallStep ==
  ASSUME TypeOK, QueueInv, CallInv, CommandInv, [Next]_vars
  PROVE  CallInv'
<1>t. /\ status \in [Calls -> {"new", "refused", "pending", "answered"}]
      /\ result \in [Calls -> Calls \cup {None, Running}]
      /\ None \notin Calls /\ Running \notin Calls /\ None # Running
  BY BridgeAssumption DEF TypeOK
<1>same. ASSUME UNCHANGED <<result, status>> PROVE CallInv'
  BY <1>same DEF CallInv, Reached
<1>1. ASSUME NEW x \in Calls, RequestSync(x), worker # "exited"
      PROVE  CallInv'
  BY <1>t, <1>1, SubmitFacts, ReachedStays DEF CallInv
<1>2. ASSUME NEW x \in Calls, RequestSync(x), worker = "exited"
      PROVE  CallInv'
  <2>1. /\ Reached(x) /\ status[x] = "new" /\ status' = [status EXCEPT ![x] = "refused"]
        /\ \E r \in Calls \cup {None} : Returns(x, r) /\ result' = [result EXCEPT ![x] = r]
    BY <1>2, RejectFacts
  <2>2. /\ \A y \in Calls : result[y] # Running => result'[y] # Running
        /\ \A y \in Calls : y # x => result'[y] = result[y] /\ status'[y] = status[y]
        /\ \A y \in Calls : status[y] = "answered" => status'[y] = "answered"
        /\ status'[x] = "refused" /\ Returns(x, result'[x])
    BY <1>t, <2>1
  <2>3. result[x] = Running
    BY <1>t, <2>1 DEF CallInv
  <2> QED BY <1>t, <2>1, <2>2, <2>3, ReachedStays DEF CallInv, Returns
<1>3. ASSUME NEW x \in Calls, GiveBack(x)
      PROVE  CallInv'
  <2>1. PICK r \in Calls \cup {None} : Returns(x, r) /\ result' = [result EXCEPT ![x] = r]
    BY <1>3, GiveBackFacts
  <2>2. status[x] \in {"pending", "answered"} /\ UNCHANGED status
    BY <1>3, GiveBackFacts
  <2>3. /\ \A y \in Calls : result[y] # Running => result'[y] # Running
        /\ \A y \in Calls : y # x => result'[y] = result[y]
        /\ Returns(x, result'[x])
    BY <1>t, <2>1
  <2> QED BY <2>2, <2>3, ReachedStays DEF CallInv, Returns
<1>4. CASE Answer
  <2>1. /\ pending[1] \in Calls /\ status[pending[1]] = "pending"
        /\ status' = [status EXCEPT ![pending[1]] = "answered"] /\ UNCHANGED result
    BY <1>4, AnswerFacts
  <2> QED BY <1>t, <2>1, ReachedStays DEF CallInv
<1>5. CASE \/ \E c \in Sessions, k \in {"p", "P"} : ReadCommand(c, k)
           \/ \E c \in Sessions : Reply(c)
           \/ ExitThread \/ UNCHANGED vars
  BY <1>5, <1>same DEF ReadCommand, Reply, ExitThread, vars, callVars
<1> QED BY <1>1, <1>2, <1>3, <1>4, <1>5, StepCases DEF Serve, Fail

LEMMA OrderStep ==
  ASSUME TypeOK, QueueInv, CallInv, OrderInv, CommandInv, [Next]_vars
  PROVE  OrderInv'
<1>t. status \in [Calls -> {"new", "refused", "pending", "answered"}]
  BY DEF TypeOK
<1>same. ASSUME UNCHANGED status PROVE OrderInv'
  BY <1>same DEF OrderInv
<1>1. ASSUME NEW z \in Calls, RequestSync(z), worker # "exited"
      PROVE  OrderInv'
  <2>1. status[z] = "new" /\ status' = [status EXCEPT ![z] = "pending"]
    BY <1>1, SubmitFacts
  <2>2. ASSUME NEW y \in Calls, z[1] = y[1], z[2] < y[2], status[y] = "answered"
        PROVE  FALSE
    <3>1. Reached(y)
      BY <2>2 DEF CallInv
    <3>2. z[2] \in 1..(y[2] - 1) /\ z = <<y[1], z[2]>>
      BY <2>2, CallShape, BridgeAssumption
    <3>3. result[z] # Running
      BY <3>1, <3>2 DEF Reached
    <3> QED BY <2>1, <3>3 DEF CallInv
  <2> QED BY <1>t, <2>1, <2>2 DEF OrderInv
<1>2. ASSUME NEW z \in Calls, RequestSync(z), worker = "exited"
      PROVE  OrderInv'
  BY <1>t, <1>2, RejectFacts DEF OrderInv
<1>3. CASE Answer
  <2>1. /\ pending # <<>> /\ pending[1] \in Calls /\ status[pending[1]] = "pending"
        /\ status' = [status EXCEPT ![pending[1]] = "answered"]
    BY <1>3, AnswerFacts
  <2>2. ASSUME NEW x \in Calls, x[1] = pending[1][1], x[2] < pending[1][2], status[x] = "pending"
        PROVE  FALSE
    <3>1. pending[1][2] <= x[2]
      BY <2>1, <2>2, AnsweredInTurn
    <3> QED BY <2>1, <2>2, <3>1, CallShape, BridgeAssumption
  <2> QED BY <1>t, <2>1, <2>2 DEF OrderInv
<1>4. CASE \/ \E c \in Sessions, k \in {"p", "P"} : ReadCommand(c, k)
           \/ \E c \in Sessions : Reply(c)
           \/ \E x \in Calls : GiveBack(x)
           \/ ExitThread \/ UNCHANGED vars
  BY <1>4, <1>same DEF ReadCommand, Reply, GiveBack, ExitThread, vars, callVars
<1> QED BY <1>1, <1>2, <1>3, <1>4, StepCases DEF Serve, Fail

\* A further command changes nothing about the ones before.
LEMMA ReadFacts ==
  ASSUME TypeOK, NEW c \in Sessions, NEW k \in {"p", "P"}, ReadCommand(c, k)
  PROVE  /\ commands'[c] \in Seq({"p", "P"}) /\ Len(commands'[c]) = Len(commands[c]) + 1
         /\ \A i \in 1..Len(commands[c]) : commands'[c][i] = commands[c][i]
         /\ \A e \in Sessions : e # c => commands'[e] = commands[e]
         /\ commands' \in [Sessions -> Seq({"p", "P"})]
         /\ Len(commands[c]) < MaxCommands[c]
         /\ UNCHANGED <<callVars, replied, worker, device, payload>>
<1> DEFINE s == commands[c]
<1>1. s \in Seq({"p", "P"})
  BY DEF TypeOK
<1>2. /\ Append(s, k) \in Seq({"p", "P"}) /\ Len(Append(s, k)) = Len(s) + 1
      /\ \A i \in 1..Len(s) : Append(s, k)[i] = s[i]
  BY <1>1, AppendProperties
<1>3. commands' = [commands EXCEPT ![c] = Append(s, k)] /\ Len(s) < MaxCommands[c]
      /\ UNCHANGED <<callVars, replied, worker, device, payload>>
  BY DEF ReadCommand
<1>4. commands'[c] = Append(s, k) /\ \A e \in Sessions : e # c => commands'[e] = commands[e]
  BY <1>3 DEF TypeOK
<1>5. commands' \in [Sessions -> Seq({"p", "P"})]
  BY <1>2, <1>3 DEF TypeOK
<1> HIDE DEF s
<1> QED BY <1>2, <1>3, <1>4, <1>5 DEF s

LEMMA CommandStep ==
  ASSUME TypeOK, QueueInv, CommandInv, [Next]_vars
  PROVE  CommandInv'
<1>t. status \in [Calls -> {"new", "refused", "pending", "answered"}]
  BY DEF TypeOK
<1>len. \A c \in Sessions : Len(commands[c]) \in Nat /\ MaxCommands[c] \in Nat
  BY BridgeAssumption DEF TypeOK
<1>1. ASSUME NEW c \in Sessions, NEW k \in {"p", "P"}, ReadCommand(c, k)
      PROVE  CommandInv'
  <2>1. /\ Len(commands'[c]) = Len(commands[c]) + 1 /\ Len(commands[c]) < MaxCommands[c]
        /\ \A e \in Sessions : e # c => commands'[e] = commands[e]
        /\ UNCHANGED <<status, worker>>
    BY <1>1, ReadFacts DEF callVars
  <2>2. \A e \in Sessions : Len(commands'[e]) <= MaxCommands[e] /\ Len(commands[e]) <= Len(commands'[e])
                            /\ Len(commands'[e]) \in Nat
    BY <1>len, <2>1 DEF CommandInv
  <2>3. \A x \in Calls : x[2] \in Int
    BY CallShape, BridgeAssumption
  <2>4. \A x \in Calls : x[1] \in Sessions /\ status[x] # "new" => x[2] <= 2 * Len(commands'[x[1]])
    BY <1>len, <2>2, <2>3 DEF CommandInv
  <2> QED BY <2>1, <2>2, <2>4 DEF CommandInv
<1>2. ASSUME NEW x \in Calls, RequestSync(x), Due(x)
      PROVE  CommandInv'
  <2>1. UNCHANGED <<commands, worker>>
    BY <1>2 DEF RequestSync, bridgeVars
  <2>2. /\ \A y \in Calls : y # x => status'[y] = status[y]
        /\ worker # "exited" => status'[x] = "pending"
    BY <1>t, <1>2, SubmitFacts, RejectFacts
  <2> QED BY <1>2, <2>1, <2>2 DEF CommandInv, Due
<1>3. CASE Serve \/ Fail
  <2>1. /\ pending[1] \in Calls /\ status[pending[1]] = "pending"
        /\ status' = [status EXCEPT ![pending[1]] = "answered"]
        /\ UNCHANGED commands /\ worker = "up"
    BY <1>3, AnswerFacts DEF Serve, Fail
  <2> QED BY <1>t, <2>1 DEF CommandInv
<1>4. CASE \/ \E c \in Sessions : Reply(c)
           \/ \E x \in Calls : GiveBack(x) /\ UNCHANGED bridgeVars
           \/ ExitThread \/ UNCHANGED vars
  <2>1. UNCHANGED <<status, commands>> /\ (worker' = worker \/ worker = "error")
    BY <1>4 DEF Reply, GiveBack, ExitThread, vars, callVars, bridgeVars
  <2> QED BY <2>1 DEF CommandInv
<1> QED BY <1>1, <1>2, <1>3, <1>4, StepCases

-------------------------------------------------------------------------------
(* The device.                                                             *)

\* What a call asks for is settled when its command is read.
LEMMA ChangeStays ==
  ASSUME TypeOK, CommandInv, [Next]_vars, NEW x \in Calls, Due(x)
  PROVE  IsChange(x)' <=> IsChange(x)
<1>1. CASE UNCHANGED commands
  BY <1>1 DEF IsChange
<1>2. CASE x[1] = KeepAlive
  BY <1>2 DEF IsChange
<1>3. ASSUME NEW c \in Sessions, NEW k \in {"p", "P"}, ReadCommand(c, k), x[1] \in Sessions
      PROVE  IsChange(x)' <=> IsChange(x)
  <2>1. Len(commands[x[1]]) \in Nat /\ x[2] \in Nat /\ x[2] >= 1 /\ x[2] <= 2 * Len(commands[x[1]])
    BY <1>3, CallShape, BridgeAssumption DEF TypeOK, Due
  <2>2. Command(x[2]) \in 1..Len(commands[x[1]])
    BY <2>1 DEF Command
  <2>3. commands'[x[1]][Command(x[2])] = commands[x[1]][Command(x[2])]
    BY <1>3, <2>2, ReadFacts
  <2> QED BY <2>3 DEF IsChange
<1>4. x[1] \in Sessions \/ x[1] = KeepAlive
  BY CallShape, CallersShape
<1> QED BY <1>1, <1>2, <1>3, <1>4, StepCases
        DEF RequestSync, Reply, Serve, Fail, ExitThread, vars, bridgeVars

LEMMA MadeIsDue ==
  ASSUME CommandInv, NEW x \in Calls, status[x] # "new"
  PROVE  Due(x)
  BY DEF CommandInv, Due

LEMMA AxisType == \A x : Axis(x) \in Axes
  BY DEF Axis, Axes

\* What the worker does with the call at the head of the queue.
LEMMA ServeFacts ==
  ASSUME TypeOK, QueueInv, Serve
  PROVE  LET x == pending[1] IN
         /\ x \in Calls /\ status[x] = "pending"
         /\ status' = [status EXCEPT ![x] = "answered"]
         /\ device' = IF IsChange(x) THEN [device EXCEPT ![Axis(x)] = Target(x)] ELSE device
         /\ payload' = [payload EXCEPT ![x] = IF IsChange(x) THEN Garbage ELSE device[Axis(x)]]
         /\ worker = "up" /\ UNCHANGED <<commands, worker>>
  BY AnswerFacts DEF Serve, Moved, Read

LEMMA DeviceStep ==
  ASSUME TypeOK, QueueInv, OrderInv, CommandInv, DeviceInv, [Next]_vars
  PROVE  DeviceInv'
<1>t. /\ status \in [Calls -> {"new", "refused", "pending", "answered"}]
      /\ device \in [Axes -> Angles]
  BY DEF TypeOK
<1>c. \A y \in Calls : status[y] # "new" => (IsChange(y)' <=> IsChange(y))
  BY ChangeStays, MadeIsDue
<1>1. CASE Serve
  <2> DEFINE x == pending[1]
  <2>1. /\ x \in Calls /\ status[x] = "pending"
        /\ status' = [status EXCEPT ![x] = "answered"]
        /\ device' = IF IsChange(x) THEN [device EXCEPT ![Axis(x)] = Target(x)] ELSE device
        /\ worker = "up"
    BY <1>1, ServeFacts
  <2> HIDE DEF x
  <2> SUFFICES ASSUME NEW a \in Axes PROVE AxisInv(a)'
    BY DEF DeviceInv
  <2>2. AxisInv(a)
    BY <2>1 DEF DeviceInv
  <2>3. \A y \in Calls : y # x => (y \in Answered(a)' <=> y \in Answered(a))
    BY <1>t, <1>c, <2>1 DEF Answered
  <2>4. x \notin Answered(a) /\ (x \in Answered(a)' <=> Axis(x) = a /\ IsChange(x))
    BY <1>t, <1>c, <2>1 DEF Answered
  <2>5. CASE Axis(x) = a /\ IsChange(x)
    <3>1. device'[a] = Target(x)
      BY <1>t, <2>1, <2>5
    <3>2. CASE x[1] = KeepAlive
      <4>1. device'[a] = Home
        BY <3>1, <3>2 DEF Target
      <4> QED BY <4>1, BridgeAssumption DEF AxisInv
    <3>3. CASE x[1] # KeepAlive
      <4>1. device'[a] = x /\ x # Unset /\ x[1] \in Sessions
        BY <2>1, <3>1, <3>3, CallShape, CallersShape, BridgeAssumption DEF Target
      <4>2. ASSUME NEW y \in Answered(a)', y[1] = x[1]
            PROVE  y[2] <= x[2]
        <5>1. y \in Calls
          BY <4>2 DEF Answered
        <5>2. x[2] \in Int /\ y[2] \in Int
          BY <2>1, <5>1, CallShape, BridgeAssumption
        <5>3. y # x => status[y] = "answered"
          BY <2>3, <4>2, <5>1 DEF Answered
        <5> QED BY <2>1, <4>2, <5>1, <5>2, <5>3 DEF OrderInv
      <4> QED BY <2>4, <2>5, <4>1, <4>2 DEF AxisInv
    <3> QED BY <3>2, <3>3
  <2>6. CASE ~(Axis(x) = a /\ IsChange(x))
    <3>1. device'[a] = device[a]
      BY <1>t, <2>1, <2>6
    <3>2. Answered(a)' = Answered(a)
      <4>1. Answered(a)' \subseteq Calls /\ Answered(a) \subseteq Calls
        BY DEF Answered
      <4> QED BY <2>3, <2>4, <2>6, <4>1
    <3> QED BY <2>2, <3>1, <3>2 DEF AxisInv
  <2> QED BY <2>5, <2>6
<1>2. CASE Fail \/ ExitThread
  BY <1>2 DEF Fail, ExitThread, DeviceInv
<1>3. ASSUME UNCHANGED <<device, worker>>,
             \A y \in Calls : status'[y] = "answered" <=> status[y] = "answered"
      PROVE  DeviceInv'
  <2>1. \A a : Answered(a)' = Answered(a)
    BY <1>c, <1>3 DEF Answered
  <2> QED BY <1>3, <2>1 DEF DeviceInv, AxisInv
<1>4. ASSUME NEW x \in Calls, RequestSync(x)
      PROVE  DeviceInv'
  <2>1. UNCHANGED <<device, worker>>
    BY <1>4 DEF RequestSync, bridgeVars
  <2>2. \A y \in Calls : status'[y] = "answered" <=> status[y] = "answered"
    BY <1>t, <1>4, SubmitFacts, RejectFacts
  <2> QED BY <1>3, <2>1, <2>2
<1>5. CASE \/ \E c \in Sessions, k \in {"p", "P"} : ReadCommand(c, k)
           \/ \E c \in Sessions : Reply(c)
           \/ \E x \in Calls : GiveBack(x) /\ UNCHANGED bridgeVars
           \/ UNCHANGED vars
  BY <1>3, <1>5 DEF ReadCommand, Reply, GiveBack, vars, callVars, bridgeVars
<1> QED BY <1>1, <1>2, <1>4, <1>5, StepCases

-------------------------------------------------------------------------------
(* What the sessions read.                                                 *)

\* The changes before a call that was made.
LEMMA ChangesStay ==
  ASSUME TypeOK, CommandInv, [Next]_vars, NEW x \in Calls, Due(x), x[1] \in Sessions, NEW a
  PROVE  Changes(x[1], a, x[2])' = Changes(x[1], a, x[2])
<1>1. ASSUME NEW m \in 1..x[2]
      PROVE  IsChange(<<x[1], m>>)' <=> IsChange(<<x[1], m>>)
  <2>1. <<x[1], m>> \in Calls
    BY CallShape
  <2>2. Len(commands[x[1]]) \in Nat /\ x[2] \in Int
    BY CallShape, BridgeAssumption DEF TypeOK
  <2>3. Due(<<x[1], m>>)
    BY <2>2 DEF Due
  <2> QED BY <2>1, <2>3, ChangeStays
<1> QED BY <1>1 DEF Changes

\* A query that is served reads no angle from before its session's last change.
LEMMA ReadIsGood ==
  ASSUME TypeOK, QueueInv, CallInv, OrderInv, CommandInv, DeviceInv, worker = "up",
         pending # <<>>, NEW x \in Calls, x = pending[1], status[x] = "pending",
         x[1] \in Sessions, ~IsChange(x)
  PROVE  LET S == Changes(x[1], Axis(x), x[2])
             d == device[Axis(x)]
         IN  /\ d # Garbage
             /\ S # {} => /\ d # Unset
                          /\ d \in Calls /\ d[1] = x[1] => IsLatest(d[2], S)
<1> DEFINE a == Axis(x)
           S == Changes(x[1], a, x[2])
           d == device[a]
<1>1. a \in Axes /\ d \in Angles /\ AxisInv(a)
  BY AxisType DEF TypeOK, DeviceInv
<1>2. d # Garbage
  BY <1>1, BridgeAssumption DEF Angles
<1>n. x[2] \in Nat /\ x[2] >= 1 /\ x = <<x[1], x[2]>>
  BY CallShape, BridgeAssumption
\* The session made those changes before, and they were answered.
<1>3. ASSUME NEW m \in S
      PROVE  m \in Nat /\ m >= 1 /\ m < x[2] /\ <<x[1], m>> \in Answered(a)
  <2> DEFINE y == <<x[1], m>>
  <2>1. m \in 1..x[2] /\ Axis(y) = a /\ IsChange(y)
    BY <1>3 DEF Changes
  <2>2. m # x[2]
    BY <1>n, <2>1
  <2>3. m \in Nat /\ m >= 1 /\ m < x[2]
    BY <1>n, <2>1, <2>2
  <2>4. y \in Calls
    BY <2>1, CallShape
  <2>5. Reached(x)
    BY DEF CallInv
  <2>6. result[y] # Running
    BY <1>n, <2>3, <2>5 DEF Reached
  <2>7. status[y] \notin {"new", "refused"}
    BY <2>4, <2>6 DEF CallInv, CommandInv
  <2>8. status[y] # "pending"
    <3> SUFFICES ASSUME status[y] = "pending" PROVE FALSE
      OBVIOUS
    <3>1. pending[1][2] <= y[2]
      BY <2>4, AnsweredInTurn
    <3> QED BY <1>n, <2>3, <3>1
  <2>9. status[y] = "answered"
    BY <2>4, <2>7, <2>8 DEF TypeOK
  <2> QED BY <2>1, <2>3, <2>4, <2>9 DEF Answered
<1>4. S # {} => d # Unset
  BY <1>1, <1>3 DEF AxisInv
<1>5. ASSUME S # {}, d \in Calls, d[1] = x[1]
      PROVE  IsLatest(d[2], S)
  <2>1. d \in Answered(a) /\ \A y \in Answered(a) : y[1] = d[1] => y[2] <= d[2]
    BY <1>1, <1>5 DEF AxisInv
  <2>2. d[2] \in Nat /\ d[2] >= 1 /\ d = <<x[1], d[2]>>
    BY <1>5, CallShape, BridgeAssumption
  <2>3. status[d] = "answered" /\ Axis(d) = a /\ IsChange(d)
    BY <2>1 DEF Answered
  <2>4. ~(x[2] < d[2])
    BY <1>5, <2>3 DEF OrderInv
  <2>5. d[2] \in 1..x[2]
    BY <1>n, <2>2, <2>4
  <2>6. d[2] \in S
    BY <2>2, <2>3, <2>5 DEF Changes
  <2>7. \A k \in S : k <= d[2]
    BY <1>3, <1>5, <2>1
  <2> QED BY <2>6, <2>7 DEF IsLatest
<1> QED BY <1>2, <1>4, <1>5

LEMMA PayloadStep ==
  ASSUME TypeOK, QueueInv, CallInv, OrderInv, CommandInv, DeviceInv, PayloadInv, [Next]_vars
  PROVE  PayloadInv'
<1>t. /\ status \in [Calls -> {"new", "refused", "pending", "answered"}]
      /\ payload \in [Calls -> Angles \cup {Garbage}]
  BY DEF TypeOK
\* What was answered before is as good as it was.
<1>old. ASSUME worker = "up", NEW x \in Calls, x[1] \in Sessions, status[x] = "answered",
               ~IsChange(x)', payload'[x] = payload[x]
        PROVE  GoodRead(x)'
  <2>1. Due(x)
    BY <1>old, MadeIsDue
  <2>2. ~IsChange(x)
    BY <1>old, <2>1, ChangeStays
  <2>3. GoodRead(x)
    BY <1>old, <2>2 DEF PayloadInv
  <2>4. Changes(x[1], Axis(x), x[2])' = Changes(x[1], Axis(x), x[2])
    BY <1>old, <2>1, ChangesStay
  <2> QED BY <1>old, <2>3, <2>4 DEF GoodRead
<1>1. CASE Serve
  <2> DEFINE h == pending[1]
  <2>1. /\ h \in Calls /\ status[h] = "pending"
        /\ status' = [status EXCEPT ![h] = "answered"]
        /\ payload' = [payload EXCEPT ![h] = IF IsChange(h) THEN Garbage ELSE device[Axis(h)]]
        /\ worker = "up" /\ worker' = worker
    BY <1>1, ServeFacts
  <2>2. pending # <<>>
    BY <1>1, AnswerFacts DEF Serve
  <2> SUFFICES ASSUME NEW x \in Calls, x[1] \in Sessions, status'[x] = "answered", ~IsChange(x)'
               PROVE  GoodRead(x)'
    BY DEF PayloadInv
  <2>3. CASE x = h
    <3>1. Due(x)
      BY <2>1, <2>3, MadeIsDue
    <3>2. ~IsChange(x)
      BY <3>1, ChangeStays
    <3>3. payload'[x] = device[Axis(x)]
      BY <1>t, <2>1, <2>3, <3>2
    <3>4. Changes(x[1], Axis(x), x[2])' = Changes(x[1], Axis(x), x[2])
      BY <3>1, ChangesStay
    <3> HIDE DEF h
    <3>5. x = pending[1]
      BY <2>3 DEF h
    <3>6. status[x] = "pending"
      BY <2>1, <2>3
    <3> QED BY <2>1, <2>2, <3>2, <3>3, <3>4, <3>5, <3>6, ReadIsGood DEF GoodRead
  <2>4. CASE x # h
    BY <1>t, <1>old, <2>1, <2>4
  <2> QED BY <2>3, <2>4
<1>2. CASE Fail \/ ExitThread
  BY <1>2 DEF Fail, ExitThread, PayloadInv
<1>3. ASSUME UNCHANGED <<payload, worker>>,
             \A y \in Calls : status'[y] = "answered" <=> status[y] = "answered"
      PROVE  PayloadInv'
  BY <1>old, <1>3 DEF PayloadInv
<1>4. ASSUME NEW x \in Calls, RequestSync(x)
      PROVE  PayloadInv'
  <2>1. UNCHANGED <<payload, worker>>
    BY <1>4 DEF RequestSync, bridgeVars
  <2>2. \A y \in Calls : status'[y] = "answered" <=> status[y] = "answered"
    BY <1>t, <1>4, SubmitFacts, RejectFacts
  <2> QED BY <1>3, <2>1, <2>2
<1>5. CASE \/ \E c \in Sessions, k \in {"p", "P"} : ReadCommand(c, k)
           \/ \E c \in Sessions : Reply(c)
           \/ \E x \in Calls : GiveBack(x) /\ UNCHANGED bridgeVars
           \/ UNCHANGED vars
  BY <1>3, <1>5 DEF ReadCommand, Reply, GiveBack, vars, callVars, bridgeVars
<1> QED BY <1>1, <1>2, <1>4, <1>5, StepCases

-------------------------------------------------------------------------------
(* Types.                                                                  *)

LEMMA TypeStep ==
  ASSUME TypeOK, QueueInv, CommandInv, [Next]_vars
  PROVE  TypeOK'
<1> USE DEF callVars, bridgeVars
<1>t. /\ pending \in Seq(Calls)
      /\ \A c \in Sessions : commands[c] \in Seq({"p", "P"}) /\ Len(commands[c]) \in Nat
  BY DEF TypeOK
<1>1. ASSUME NEW c \in Sessions, NEW k \in {"p", "P"}, ReadCommand(c, k)
      PROVE  TypeOK'
  <2>1. /\ commands' \in [Sessions -> Seq({"p", "P"})]
        /\ Len(commands'[c]) = Len(commands[c]) + 1
        /\ \A e \in Sessions : e # c => commands'[e] = commands[e]
        /\ UNCHANGED <<pending, status, result, replied, worker, device, payload>>
    BY <1>1, ReadFacts
  <2>2. ASSUME NEW e \in Sessions PROVE replied[e] <= Len(commands'[e])
    <3>1. replied[e] \in Nat /\ replied[e] <= Len(commands[e]) /\ Len(commands[e]) \in Nat
      BY <1>t DEF TypeOK
    <3>2. Len(commands'[e]) = Len(commands[e]) \/ Len(commands'[e]) = Len(commands[e]) + 1
      BY <2>1
    <3> QED BY <3>1, <3>2
  <2> QED BY <2>1, <2>2 DEF TypeOK
<1>2. ASSUME NEW x \in Calls, RequestSync(x)
      PROVE  TypeOK'
  <2>1. UNCHANGED <<commands, replied, worker, device, payload>>
    BY <1>2 DEF RequestSync
  <2>2. status' \in [Calls -> {"new", "refused", "pending", "answered"}]
    BY <1>2, SubmitFacts, RejectFacts DEF TypeOK
  <2>3. pending' \in Seq(Calls)
    <3>1. Append(pending, x) \in Seq(Calls)
      BY <1>t, AppendProperties
    <3> QED BY <1>2, <1>t, <3>1, SubmitFacts, RejectFacts
  <2>4. result' \in [Calls -> Calls \cup {None, Running}]
    <3>1. CASE worker = "exited"
      <4>1. PICK r \in Calls \cup {None} : result' = [result EXCEPT ![x] = r]
        BY <1>2, <3>1, RejectFacts
      <4> QED BY <4>1 DEF TypeOK
    <3>2. CASE worker # "exited"
      BY <1>2, <3>2, SubmitFacts DEF TypeOK
    <3> QED BY <3>1, <3>2
  <2> QED BY <2>1, <2>2, <2>3, <2>4 DEF TypeOK
<1>3. ASSUME NEW x \in Calls, GiveBack(x), UNCHANGED bridgeVars
      PROVE  TypeOK'
  <2>1. PICK r \in Calls \cup {None} : result' = [result EXCEPT ![x] = r]
    BY <1>3, GiveBackFacts
  <2>2. UNCHANGED <<pending, status>>
    BY <1>3, GiveBackFacts
  <2> QED BY <1>3, <2>1, <2>2 DEF TypeOK
<1>4. ASSUME NEW c \in Sessions, Reply(c)
      PROVE  TypeOK'
  <2>1. /\ replied' = [replied EXCEPT ![c] = Len(commands[c])]
        /\ UNCHANGED <<pending, status, result, commands, worker, device, payload>>
    BY <1>4 DEF Reply
  <2>2. replied' \in [Sessions -> Nat]
    BY <1>t, <2>1 DEF TypeOK
  <2>3. \A e \in Sessions : replied'[e] <= Len(commands[e])
    BY <1>t, <2>1 DEF TypeOK
  <2> QED BY <2>1, <2>2, <2>3 DEF TypeOK
<1>5. CASE Serve \/ Fail
  <2>1. /\ pending' \in Seq(Calls) /\ pending[1] \in Calls /\ result' = result
        /\ status' = [status EXCEPT ![pending[1]] = "answered"]
    BY <1>5, AnswerFacts DEF Serve, Fail
  <2>2. UNCHANGED <<commands, replied>>
    BY <1>5 DEF Serve, Fail
  <2>3. /\ worker' \in {"up", "error", "exited"}
        /\ device' \in [Axes -> Angles]
        /\ payload' \in [Calls -> Angles \cup {Garbage}]
    <3>1. CASE Fail
      BY <3>1 DEF Fail, TypeOK
    <3>2. CASE Serve
      <4> DEFINE x == pending[1]
      <4>1. /\ x \in Calls /\ worker' = worker
            /\ device' = IF IsChange(x) THEN [device EXCEPT ![Axis(x)] = Target(x)] ELSE device
            /\ payload' = [payload EXCEPT ![x] = IF IsChange(x) THEN Garbage ELSE device[Axis(x)]]
        BY <3>2, ServeFacts DEF Serve
      <4> HIDE DEF x
      <4>2. Target(x) \in Angles /\ Axis(x) \in Axes
        BY <4>1, AxisType DEF Target, Angles
      <4>3. device[Axis(x)] \in Angles
        BY <4>2 DEF TypeOK
      <4>4. device' \in [Axes -> Angles]
        BY <4>1, <4>2 DEF TypeOK
      <4>5. payload' \in [Calls -> Angles \cup {Garbage}]
        BY <4>1, <4>3 DEF TypeOK
      <4> QED BY <4>1, <4>4, <4>5 DEF TypeOK
    <3> QED BY <1>5, <3>1, <3>2
  <2> QED BY <2>1, <2>2, <2>3 DEF TypeOK
<1>6. CASE ExitThread \/ UNCHANGED vars
  BY <1>6 DEF ExitThread, vars, TypeOK
<1> QED BY <1>1, <1>2, <1>3, <1>4, <1>5, <1>6, StepCases

-------------------------------------------------------------------------------
(* The theorems.                                                           *)

LEMMA InvariantHolds == Spec => []IInv
<1>1. Init => IInv
  <2> SUFFICES ASSUME Init PROVE IInv
    OBVIOUS
  <2>1. /\ pending = <<>> /\ status = [x \in Calls |-> "new"]
        /\ result = [x \in Calls |-> Running]
    BY DEF Init, CallsInit, Controller!Init
  <2>2. Len(pending) = 0
    BY <2>1
  <2>3. Running \notin Calls
    BY BridgeAssumption
  <2>4. TypeOK
    <3>1. \A c \in Sessions : commands[c] = <<>> /\ replied[c] = 0
      BY DEF Init
    <3>2. \A c \in Sessions : replied[c] <= Len(commands[c])
      BY <3>1
    <3>3. <<>> \in Seq(Calls) /\ <<>> \in Seq({"p", "P"})
      OBVIOUS
    <3> QED BY <2>1, <3>2, <3>3 DEF Init, TypeOK, Angles
  <2>5. QueueInv /\ CallInv /\ OrderInv
    BY <2>1, <2>2, <2>3 DEF QueueInv, CallInv, OrderInv
  <2>6. CommandInv
    <3>1. \A c \in Sessions : Len(commands[c]) = 0 /\ MaxCommands[c] \in Nat
      BY BridgeAssumption DEF Init
    <3> QED BY <2>1, <3>1 DEF CommandInv
  <2>7. DeviceInv
    BY <2>1, BridgeAssumption DEF Init, DeviceInv, AxisInv, Answered
  <2>8. PayloadInv
    BY <2>1 DEF PayloadInv
  <2> QED BY <2>4, <2>5, <2>6, <2>7, <2>8 DEF IInv
<1>2. IInv /\ [Next]_vars => IInv'
  BY TypeStep, QueueStep, CallStep, OrderStep, CommandStep, DeviceStep, PayloadStep DEF IInv
<1> QED BY <1>1, <1>2, PTL DEF Spec

\* Every variable of the bridge has its type in every reachable state: a
\* session replies to no command it did not read.
THEOREM BridgeTypeCorrect == Spec => []TypeOK
<1>1. IInv => TypeOK
  BY DEF IInv
<1> QED BY <1>1, InvariantHolds, PTL

\* With any number of sessions beside the keep-alive thread, each axis rests
\* where the latest P of the session that moved it last took it: a request
\* that RequestSync gave up waiting for is not obeyed after a later one.
THEOREM BridgeRestsAtLatest == Spec => []RestsAtLatest
<1>1. ASSUME IInv, AtRest, NEW a \in Axes, device[a] \in Calls
      PROVE  IsLatest(device[a][2], Changes(device[a][1], a, 2 * Len(commands[device[a][1]])))
  <2> DEFINE x == device[a]
             c == x[1]
             L == 2 * Len(commands[c])
  <2>1. worker = "up" /\ pending = <<>> /\ \A e \in Sessions : Through(e)
    BY <1>1 DEF AtRest
  <2>2. c \in Sessions /\ x \in Answered(a) /\ \A y \in Answered(a) : y[1] = c => y[2] <= x[2]
    BY <1>1, <2>1 DEF IInv, DeviceInv, AxisInv
  <2>3. x[2] \in Nat /\ x[2] >= 1 /\ x = <<c, x[2]>>
    BY <1>1, CallShape, BridgeAssumption
  <2>4. x[2] <= L
    BY <1>1, <2>2 DEF IInv, CommandInv, Answered
  <2>5. L \in Nat /\ L <= MaxCalls /\ MaxCalls \in Nat
    <3>1. Len(commands[c]) \in Nat /\ Len(commands[c]) <= MaxCommands[c]
      BY <1>1, <2>2 DEF IInv, TypeOK, CommandInv
    <3>2. MaxCommands[c] \in 0..(MaxCalls \div 2) /\ MaxCalls \in Nat
      BY <2>2, BridgeAssumption
    <3> QED BY <3>1, <3>2
  <2> HIDE DEF L
  <2>6. x[2] \in Changes(c, a, L)
    <3>1. Axis(x) = a /\ IsChange(x)
      BY <2>2 DEF Answered
    <3>2. x[2] \in 1..L
      BY <2>3, <2>4, <2>5
    <3> QED BY <2>3, <3>1, <3>2 DEF Changes
  <2>7. ASSUME NEW k \in Changes(c, a, L)
        PROVE  k <= x[2]
    <3> DEFINE y == <<c, k>>
    <3>1. k \in 1..L /\ Axis(y) = a /\ IsChange(y)
      BY <2>7 DEF Changes
    <3>2. y \in Calls
      <4>1. k \in 1..MaxCalls
        BY <2>5, <3>1
      <4> QED BY <2>2, <4>1, CallShape, CallersShape
    <3>3. result[y] # Running
      BY <2>1, <2>2, <3>1 DEF Through, Returned, L
    <3>4. status[y] \notin {"new", "refused"}
      BY <1>1, <2>1, <3>2, <3>3 DEF IInv, CallInv, CommandInv
    <3>5. status[y] # "pending"
      <4>1. Len(pending) = 0
        BY <2>1
      <4> QED BY <1>1, <3>2, <4>1 DEF IInv, QueueInv
    <3>6. status[y] = "answered"
      BY <1>1, <3>2, <3>4, <3>5 DEF IInv, TypeOK
    <3>7. y \in Answered(a)
      BY <3>1, <3>2, <3>6 DEF Answered
    <3> QED BY <2>2, <3>7
  <2> QED BY <2>6, <2>7 DEF IsLatest, L
<1>2. IInv => RestsAtLatest
  BY <1>1 DEF RestsAtLatest
<1> QED BY <1>2, InvariantHolds, PTL

\* While the connection lasts, a session's call comes back with a response of
\* that session's: its own or, late, one to a query that RequestSync gave up
\* before.  An angle it comes back with is an angle, and none from before the
\* latest P ahead of the query it answers, even when RequestSync came back from
\* that P before the device obeyed.
THEOREM SessionReadsOwnWrites == Spec => []ReadsOwnWrites
<1>1. ASSUME IInv, worker = "up", NEW c \in Sessions, NEW n \in 1..(2 * Len(commands[c])),
             result[<<c, n>>] \in Calls, ~IsChange(result[<<c, n>>])
      PROVE  result[<<c, n>>][1] = c /\ result[<<c, n>>][2] <= n /\ GoodRead(result[<<c, n>>])
  <2> DEFINE y == result[<<c, n>>]
  <2>1. Len(commands[c]) \in Nat /\ Len(commands[c]) <= MaxCommands[c]
    BY <1>1 DEF IInv, TypeOK, CommandInv
  <2>2. MaxCommands[c] \in 0..(MaxCalls \div 2) /\ MaxCalls \in Nat
    BY BridgeAssumption
  <2>3. n \in 1..MaxCalls
    BY <2>1, <2>2
  <2>4. <<c, n>> \in Calls
    BY <2>3, CallShape, CallersShape
  <2>5. status[y] = "answered" /\ y[1] = c /\ y[2] <= n
    BY <1>1, <2>4 DEF IInv, CallInv
  <2> QED BY <1>1, <2>5 DEF IInv, PayloadInv
<1>2. IInv => ReadsOwnWrites
  BY <1>1 DEF ReadsOwnWrites, GoodRead
<1> QED BY <1>2, InvariantHolds, PTL
===============================================================================
