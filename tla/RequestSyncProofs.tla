-------------------------- MODULE RequestSyncProofs ---------------------------
(***************************************************************************)
(* Proofs about RequestSync, for any number of callers and calls.          *)
(***************************************************************************)
EXTENDS RequestSync, TLAPS

-------------------------------------------------------------------------------
(* The inductive invariant, by parts.                                      *)

\* Where a call is: over, under way, or not made yet.
ProgressOf(c, n) ==
  /\ n < frame[c] => status[<<c, n>>] # "new" /\ result[<<c, n>>] # Running
  /\ n = frame[c] => /\ status[<<c, n>>] = "new" <=> pc[c] = "request"
                     /\ result[<<c, n>>] = Running <=> pc[c] # "idle"
  /\ n > frame[c] => status[<<c, n>>] = "new" /\ result[<<c, n>>] = Running
ProgressInv == \A c \in Callers, n \in 1..MaxCalls : ProgressOf(c, n)

\* A caller at work has a current call.
FrameInv == \A c \in Callers : pc[c] # "idle" => frame[c] \in 1..MaxCalls

\* The service's queue holds the pending calls, each once.
QueueInv ==
  /\ \A i \in 1..Len(pending) : status[pending[i]] = "pending"
  /\ \A i, k \in 1..Len(pending) : pending[i] = pending[k] => i = k

\* The callback that has still to notify has written.
DeliveryInv == delivering # None => status[delivering] = "answered"

\* No callback of an earlier call is left while a clean call runs.
CleanInv ==
  \A c \in Callers : clean[c] /\ pc[c] # "idle" =>
    \A n \in 1..MaxCalls : n < frame[c] => status[<<c, n>>] # "pending"

\* A response was written by its own callback; one of an earlier call was
\* written after that call had returned without it.
Written(c, m) ==
  /\ respTemp[c] = <<c, m>>
  /\ status[<<c, m>>] = "answered"
  /\ m < frame[c] /\ pc[c] # "idle" => result[<<c, m>>] # <<c, m>>
ResponseInv ==
  /\ \A x \in Calls : result[x] = x => status[x] = "answered"
  /\ \A c \in Callers : respTemp[c] # None => \E m \in 1..frame[c] : Written(c, m)

IInv ==
  /\ TypeOK
  /\ ProgressInv
  /\ FrameInv
  /\ QueueInv
  /\ DeliveryInv
  /\ CleanInv
  /\ CleanCallExact
  /\ ResponseInv
  /\ ForeignIsAbandoned

-------------------------------------------------------------------------------
(* The parts of the invariant, step by step.                               *)

\* A dangling reference stays on its stack; a live one hits its frame.
LEMMA HitsFacts ==
  ASSUME NEW x \in Calls, NEW hit \in Hits(x)
  PROVE  /\ \A c \in hit : c = x[1] /\ pc[c] # "idle"
         /\ pc[x[1]] # "idle" /\ frame[x[1]] = x[2] => hit = {x[1]}
  BY DEF Hits
\* The callback that writes is a pending call's.
LEMMA HeadFacts ==
  ASSUME TypeOK, QueueInv, Controller!Answer
  PROVE  /\ Head(pending) \in Calls
         /\ status[Head(pending)] = "pending"
         /\ status' = [status EXCEPT ![Head(pending)] = "answered"]
  BY DEF TypeOK, QueueInv, Controller!Answer


\* TypeOK, step by step.
LEMMA TypeStep == TypeOK /\ FrameInv /\ QueueInv /\ [Next]_vars => TypeOK'
<1> SUFFICES ASSUME TypeOK, FrameInv, QueueInv, [Next]_vars PROVE TypeOK'
  OBVIOUS
<1> USE CallsAssumption DEF FrameInv, TypeOK, Responses, Points, Calls, Current, serviceVars
<1>1. ASSUME NEW c \in Callers, Call(c) PROVE TypeOK'
  BY <1>1 DEF Call
<1>2. ASSUME NEW c \in Callers, Refused(c) PROVE TypeOK'
  BY <1>2 DEF Refused, ReturnFrom, Controller!Refuse
<1>3. ASSUME NEW c \in Callers, Accepted(c) PROVE TypeOK'
  <2>1. Current(c) \in Calls
    BY <1>3 DEF FrameInv, Accepted
  <2>2. pending' = Append(pending, Current(c)) /\ status' = [status EXCEPT ![Current(c)] = "pending"]
    BY <1>3 DEF Accepted, Controller!Admit
  <2> HIDE DEF Current, Calls
  <2>3. pending' \in Seq(Calls) /\ status' \in [Calls -> {"new", "refused", "pending", "answered"}]
    BY <2>1, <2>2
  <2> QED BY <1>3, <2>3 DEF Accepted
<1>4. ASSUME NEW c \in Callers, AnsweredInside(c) PROVE TypeOK'
  <2>1. Current(c) \in Calls
    BY <1>4 DEF FrameInv, AnsweredInside
  <2> HIDE DEF Current, Calls
  <2> QED BY <1>4, <2>1 DEF AnsweredInside, Controller!AnswerAtOnce
<1>5. ASSUME NEW c \in Callers, Wait(c) PROVE TypeOK'
  BY <1>5 DEF Wait
<1>6. ASSUME NEW c \in Callers, Timeout(c) PROVE TypeOK'
  BY <1>6 DEF Timeout, WakeUp
<1>7. ASSUME NEW c \in Callers, SpuriousWakeup(c) PROVE TypeOK'
  BY <1>7 DEF SpuriousWakeup, WakeUp
<1>8. ASSUME NEW c \in Callers, Return(c) PROVE TypeOK'
  BY <1>8 DEF Return, ReturnFrom
<1>9. CASE CallbackWrite
  BY <1>9, HeadFacts, HitsFacts DEF CallbackWrite, Controller!Answer
<1>10. CASE CallbackNotify
  BY <1>10, HeadFacts, HitsFacts DEF CallbackNotify
<1>11. CASE UNCHANGED vars
  BY <1>11 DEF vars
<1> QED
  BY <1>1, <1>2, <1>3, <1>4, <1>5, <1>6, <1>7, <1>8, <1>9, <1>10, <1>11 DEF Next, Caller

\* Calls of one caller follow one another.
LEMMA ProgressStep == TypeOK /\ QueueInv /\ FrameInv /\ ProgressInv /\ [Next]_vars => ProgressInv'
<1> SUFFICES ASSUME TypeOK, QueueInv, FrameInv, ProgressInv, [Next]_vars,
                    NEW d \in Callers, NEW n \in 1..MaxCalls
             PROVE  ProgressOf(d, n)'
  BY DEF ProgressInv
<1>0. /\ ProgressOf(d, n)
      /\ frame[d] \in 0..MaxCalls /\ MaxCalls \in Nat /\ n \in Nat
      /\ pc[d] # "idle" => frame[d] \in 1..MaxCalls
      /\ <<d, n>> \in Calls
      /\ frame \in [Callers -> 0..MaxCalls] /\ pc \in [Callers -> Points]
  BY CallsAssumption DEF ProgressInv, TypeOK, FrameInv, Calls
<1>s. status \in [Calls -> {"new", "refused", "pending", "answered"}]
      /\ result \in [Calls -> Responses \cup {Running}]
      /\ respTemp \in [Callers -> Responses]
  BY DEF TypeOK
<1>1. ASSUME NEW c \in Callers, Call(c) PROVE ProgressOf(d, n)'
  <2>1. frame'[d] = IF c = d THEN frame[d] + 1 ELSE frame[d]
    BY <1>0, <1>1 DEF Call
  <2>2. pc'[d] = IF c = d THEN "request" ELSE pc[d]
    BY <1>0, <1>1 DEF Call
  <2>3. (c = d => pc[d] = "idle") /\ UNCHANGED <<status, result>>
    BY <1>1 DEF Call, serviceVars
  <2> QED BY <1>0, <2>1, <2>2, <2>3 DEF ProgressOf
<1>2. ASSUME NEW c \in Callers, Refused(c) PROVE ProgressOf(d, n)'
  <2> DEFINE x == Current(c)
  <2>0. x \in Calls /\ respTemp[c] # Running
    BY <1>0, <1>s, <1>2, CallsAssumption DEF Refused, Current, Calls, FrameInv, Responses
  <2>1. status'[<<d, n>>] = (IF <<d, n>> = x THEN "refused" ELSE status[<<d, n>>])
    BY <1>0, <1>s, <1>2 DEF Refused, Controller!Refuse
  <2>2. result'[<<d, n>>] = IF <<d, n>> = x THEN respTemp[c] ELSE result[<<d, n>>]
    BY <1>0, <1>s, <1>2 DEF Refused, ReturnFrom
  <2>3. pc'[d] = IF c = d THEN "idle" ELSE pc[d]
    BY <1>0, <1>2 DEF Refused, ReturnFrom
  <2>4. UNCHANGED frame /\ pc[c] = "request"
    BY <1>2 DEF Refused
  <2>5. <<d, n>> = x <=> d = c /\ n = frame[d]
    BY DEF Current
  <2> HIDE DEF x
  <2> QED BY <1>0, <2>0, <2>1, <2>2, <2>3, <2>4, <2>5 DEF ProgressOf
<1>3. ASSUME NEW c \in Callers, Return(c) PROVE ProgressOf(d, n)'
  <2> DEFINE x == Current(c)
  <2>0. respTemp[c] # Running
    BY <1>s, CallsAssumption DEF Responses
  <2>2. result'[<<d, n>>] = IF <<d, n>> = x THEN respTemp[c] ELSE result[<<d, n>>]
    BY <1>0, <1>s, <1>3 DEF Return, ReturnFrom
  <2>3. pc'[d] = IF c = d THEN "idle" ELSE pc[d]
    BY <1>0, <1>3 DEF Return, ReturnFrom
  <2>4. UNCHANGED <<frame, status>> /\ pc[c] = "awake"
    BY <1>3 DEF Return, serviceVars
  <2>5. <<d, n>> = x <=> d = c /\ n = frame[d]
    BY DEF Current
  <2> HIDE DEF x
  <2> QED BY <1>0, <2>0, <2>2, <2>3, <2>4, <2>5 DEF ProgressOf
<1>4. CASE CallbackWrite
  <2>1. status[<<d, n>>] = "new" <=> status'[<<d, n>>] = "new"
    BY <1>0, <1>s, <1>4, HeadFacts DEF CallbackWrite
  <2>2. UNCHANGED <<pc, frame, result>>
    BY <1>4 DEF CallbackWrite
  <2> QED BY <1>0, <2>1, <2>2 DEF ProgressOf
<1>5. CASE CallbackNotify
  <2>1. UNCHANGED <<status, frame, result>>
    BY <1>5 DEF CallbackNotify, serviceVars
  <2>2. /\ pc'[d] = "idle" <=> pc[d] = "idle"
        /\ pc'[d] = "request" <=> pc[d] = "request"
    BY <1>5 DEF CallbackNotify
  <2> QED BY <1>0, <2>1, <2>2 DEF ProgressOf
<1>6. ASSUME NEW c \in Callers, Accepted(c) \/ AnsweredInside(c) PROVE ProgressOf(d, n)'
  <2>1. \E s \in {"pending", "answered"} : status' = [status EXCEPT ![Current(c)] = s]
    BY <1>6 DEF Accepted, AnsweredInside, Controller!Admit, Controller!AnswerAtOnce
  <2>2. pc'[d] = IF c = d THEN "accepted" ELSE pc[d]
    BY <1>0, <1>6 DEF Accepted, AnsweredInside
  <2>3. UNCHANGED <<frame, result>> /\ pc[c] = "request"
    BY <1>6 DEF Accepted, AnsweredInside
  <2>4. <<d, n>> = Current(c) <=> d = c /\ n = frame[d]
    BY DEF Current
  <2> QED BY <1>0, <1>s, <2>1, <2>2, <2>3, <2>4 DEF ProgressOf
<1>7. ASSUME NEW c \in Callers, Wait(c) \/ Timeout(c) \/ SpuriousWakeup(c) PROVE ProgressOf(d, n)'
  <2>1. UNCHANGED <<status, frame, result>>
    BY <1>7 DEF Wait, Timeout, SpuriousWakeup, serviceVars
  <2>2. /\ pc'[d] = "idle" <=> pc[d] = "idle"
        /\ pc'[d] = "request" <=> pc[d] = "request"
    BY <1>0, <1>7 DEF Wait, Timeout, SpuriousWakeup, WakeUp
  <2> QED BY <1>0, <2>1, <2>2 DEF ProgressOf
<1>8. CASE UNCHANGED vars
  BY <1>0, <1>8 DEF vars, serviceVars, ProgressOf
<1> QED
  BY <1>1, <1>2, <1>3, <1>4, <1>5, <1>6, <1>7, <1>8 DEF Next, Caller

\* Answer takes the head of a queue without duplicates.
LEMMA QueueStep == TypeOK /\ FrameInv /\ ProgressInv /\ QueueInv /\ [Next]_vars => QueueInv'
<1> SUFFICES ASSUME TypeOK, FrameInv, ProgressInv, QueueInv, [Next]_vars PROVE QueueInv'
  OBVIOUS
<1> USE CallsAssumption DEF TypeOK, FrameInv, ProgressInv, ProgressOf, QueueInv, Calls, Current, serviceVars
<1>1. ASSUME NEW c \in Callers, Call(c) PROVE QueueInv'
  BY <1>1 DEF Call
<1>2. ASSUME NEW c \in Callers, Refused(c) PROVE QueueInv'
  BY <1>2 DEF Refused, ReturnFrom, Controller!Refuse
<1>3. ASSUME NEW c \in Callers, Accepted(c) PROVE QueueInv'
  <2> DEFINE x == Current(c)
  <2>1. x \in Calls
    BY <1>3 DEF Accepted
  <2>2. status[x] = "new" /\ status' = [status EXCEPT ![x] = "pending"] /\ pending' = Append(pending, x)
    BY <1>3 DEF Accepted, Controller!Admit
  <2> HIDE DEF x, Current, Calls
  <2>3. /\ Len(pending) \in Nat /\ Len(pending') = Len(pending) + 1 /\ pending'[Len(pending) + 1] = x
        /\ \A i \in 1..Len(pending) : pending'[i] = pending[i] /\ pending[i] \in Calls
    BY <2>1, <2>2
  <2>4. \A i \in 1..Len(pending') : i \in 1..Len(pending) \/ i = Len(pending) + 1
    BY <2>3
  <2>5. \A i \in 1..Len(pending) : pending[i] # x
    BY <2>2
  <2>6. \A i \in 1..Len(pending') : status'[pending'[i]] = "pending"
    BY <2>1, <2>2, <2>3, <2>4
  <2>7. \A i, k \in 1..Len(pending') : pending'[i] = pending'[k] => i = k
    <3> SUFFICES ASSUME NEW i \in 1..Len(pending'), NEW k \in 1..Len(pending'), pending'[i] = pending'[k]
                 PROVE  i = k
      OBVIOUS
    <3>1. \A a, b \in 1..Len(pending) : pending[a] = pending[b] => a = b
      OBVIOUS
    <3> HIDE DEF QueueInv
    <3>2. CASE i \in 1..Len(pending) /\ k \in 1..Len(pending)
      BY <2>3, <3>1, <3>2
    <3>3. CASE i = Len(pending) + 1 \/ k = Len(pending) + 1
      BY <2>3, <2>4, <2>5, <3>3
    <3> QED BY <2>4, <3>2, <3>3
  <2> QED BY <2>6, <2>7
<1>4. ASSUME NEW c \in Callers, AnsweredInside(c) PROVE QueueInv'
  BY <1>4 DEF AnsweredInside, Controller!AnswerAtOnce
<1>5. ASSUME NEW c \in Callers, Wait(c) PROVE QueueInv'
  BY <1>5 DEF Wait
<1>6. ASSUME NEW c \in Callers, Timeout(c) PROVE QueueInv'
  BY <1>6 DEF Timeout, WakeUp
<1>7. ASSUME NEW c \in Callers, SpuriousWakeup(c) PROVE QueueInv'
  BY <1>7 DEF SpuriousWakeup, WakeUp
<1>8. ASSUME NEW c \in Callers, Return(c) PROVE QueueInv'
  BY <1>8 DEF Return, ReturnFrom
<1>9. CASE CallbackWrite
  <2> DEFINE q == Len(pending)
  <2>1. pending \in Seq(Calls) /\ pending # <<>> /\ pending' = Tail(pending)
    BY <1>9 DEF CallbackWrite, Controller!Answer
  <2>2. /\ q \in Nat \ {0} /\ Len(pending') = q - 1 /\ Head(pending) = pending[1]
        /\ \A i \in 1..Len(pending') : i + 1 \in 1..q /\ pending'[i] = pending[i + 1]
    BY <2>1
  <2>3. \A i \in 1..Len(pending') : pending'[i] # Head(pending) /\ pending'[i] \in Calls
    BY <2>1, <2>2
  <2>6. \A x \in Calls : x # Head(pending) => status'[x] = status[x]
    BY <1>9, HeadFacts DEF CallbackWrite
  <2>a. /\ \A i \in 1..q : status[pending[i]] = "pending"
        /\ \A i, k \in 1..q : pending[i] = pending[k] => i = k
    BY DEF QueueInv
  <2> HIDE DEF q, QueueInv, TypeOK, FrameInv, ProgressInv, ProgressOf, Calls
  <2>4. ASSUME NEW i \in 1..Len(pending'), NEW k \in 1..Len(pending'), pending'[i] = pending'[k]
        PROVE  i = k
    <3>1. i + 1 = k + 1
      BY <2>2, <2>a, <2>4
    <3> QED BY <2>2, <3>1
  <2>5. \A i \in 1..Len(pending') : status[pending'[i]] = "pending"
    BY <2>2, <2>a
  <2>7. \A i \in 1..Len(pending') : status'[pending'[i]] = "pending"
    BY <2>3, <2>5, <2>6
  <2> QED BY <2>4, <2>7 DEF QueueInv
<1>10. CASE CallbackNotify
  BY <1>10, HeadFacts, HitsFacts DEF CallbackNotify
<1>11. CASE UNCHANGED vars
  BY <1>11 DEF vars
<1> QED
  BY <1>1, <1>2, <1>3, <1>4, <1>5, <1>6, <1>7, <1>8, <1>9, <1>10, <1>11 DEF Next, Caller

\* Frames are counted when a call begins.
LEMMA FrameStep == TypeOK /\ FrameInv /\ [Next]_vars => FrameInv'
<1> SUFFICES ASSUME TypeOK, FrameInv, [Next]_vars PROVE FrameInv'
  OBVIOUS
<1> USE CallsAssumption DEF TypeOK, FrameInv, Calls, Current, serviceVars
<1>1. ASSUME NEW c \in Callers, Call(c) PROVE FrameInv'
  BY <1>1 DEF Call
<1>2. ASSUME NEW c \in Callers, Refused(c) PROVE FrameInv'
  BY <1>2 DEF Refused, ReturnFrom, Controller!Refuse
<1>3. ASSUME NEW c \in Callers, Accepted(c) PROVE FrameInv'
  BY <1>3 DEF Accepted, Controller!Admit
<1>4. ASSUME NEW c \in Callers, AnsweredInside(c) PROVE FrameInv'
  BY <1>4 DEF AnsweredInside, Controller!AnswerAtOnce
<1>5. ASSUME NEW c \in Callers, Wait(c) PROVE FrameInv'
  BY <1>5 DEF Wait
<1>6. ASSUME NEW c \in Callers, Timeout(c) PROVE FrameInv'
  BY <1>6 DEF Timeout, WakeUp
<1>7. ASSUME NEW c \in Callers, SpuriousWakeup(c) PROVE FrameInv'
  BY <1>7 DEF SpuriousWakeup, WakeUp
<1>8. ASSUME NEW c \in Callers, Return(c) PROVE FrameInv'
  BY <1>8 DEF Return, ReturnFrom
<1>9. CASE CallbackWrite
  BY <1>9, HeadFacts, HitsFacts DEF CallbackWrite, Controller!Answer
<1>10. CASE CallbackNotify
  BY <1>10, HeadFacts, HitsFacts DEF CallbackNotify
<1>11. CASE UNCHANGED vars
  BY <1>11 DEF vars
<1> QED
  BY <1>1, <1>2, <1>3, <1>4, <1>5, <1>6, <1>7, <1>8, <1>9, <1>10, <1>11 DEF Next, Caller

\* What was answered stays answered.
LEMMA DeliveryStep == TypeOK /\ FrameInv /\ ProgressInv /\ QueueInv /\ DeliveryInv /\ [Next]_vars => DeliveryInv'
<1> SUFFICES ASSUME TypeOK, FrameInv, ProgressInv, QueueInv, DeliveryInv, [Next]_vars PROVE DeliveryInv'
  OBVIOUS
<1> USE CallsAssumption DEF TypeOK, FrameInv, ProgressInv, ProgressOf, DeliveryInv, Responses, Calls, Current, serviceVars
<1>1. ASSUME NEW c \in Callers, Call(c) PROVE DeliveryInv'
  BY <1>1 DEF Call
<1>2. ASSUME NEW c \in Callers, Refused(c) PROVE DeliveryInv'
  BY <1>2 DEF Refused, ReturnFrom, Controller!Refuse
<1>3. ASSUME NEW c \in Callers, Accepted(c) PROVE DeliveryInv'
  BY <1>3 DEF Accepted, Controller!Admit
<1>4. ASSUME NEW c \in Callers, AnsweredInside(c) PROVE DeliveryInv'
  BY <1>4 DEF AnsweredInside, Controller!AnswerAtOnce
<1>5. ASSUME NEW c \in Callers, Wait(c) PROVE DeliveryInv'
  BY <1>5 DEF Wait
<1>6. ASSUME NEW c \in Callers, Timeout(c) PROVE DeliveryInv'
  BY <1>6 DEF Timeout, WakeUp
<1>7. ASSUME NEW c \in Callers, SpuriousWakeup(c) PROVE DeliveryInv'
  BY <1>7 DEF SpuriousWakeup, WakeUp
<1>8. ASSUME NEW c \in Callers, Return(c) PROVE DeliveryInv'
  BY <1>8 DEF Return, ReturnFrom
<1>9. CASE CallbackWrite
  BY <1>9, HeadFacts, HitsFacts DEF CallbackWrite, Controller!Answer
<1>10. CASE CallbackNotify
  BY <1>10, HeadFacts, HitsFacts DEF CallbackNotify
<1>11. CASE UNCHANGED vars
  BY <1>11 DEF vars
<1> QED
  BY <1>1, <1>2, <1>3, <1>4, <1>5, <1>6, <1>7, <1>8, <1>9, <1>10, <1>11 DEF Next, Caller

\* No earlier call of the caller becomes pending again.
LEMMA CleanStep == TypeOK /\ FrameInv /\ ProgressInv /\ QueueInv /\ CleanInv /\ [Next]_vars => CleanInv'
<1> SUFFICES ASSUME TypeOK, FrameInv, ProgressInv, QueueInv, CleanInv, [Next]_vars PROVE CleanInv'
  OBVIOUS
<1> USE CallsAssumption DEF TypeOK, FrameInv, ProgressInv, ProgressOf, CleanInv, Outstanding, Calls, Current, serviceVars
<1>1. ASSUME NEW c \in Callers, Call(c) PROVE CleanInv'
  BY <1>1 DEF Call
<1>2. ASSUME NEW c \in Callers, Refused(c) PROVE CleanInv'
  BY <1>2 DEF Refused, ReturnFrom, Controller!Refuse
<1>3. ASSUME NEW c \in Callers, Accepted(c) PROVE CleanInv'
  BY <1>3 DEF Accepted, Controller!Admit
<1>4. ASSUME NEW c \in Callers, AnsweredInside(c) PROVE CleanInv'
  BY <1>4 DEF AnsweredInside, Controller!AnswerAtOnce
<1>5. ASSUME NEW c \in Callers, Wait(c) PROVE CleanInv'
  BY <1>5 DEF Wait
<1>6. ASSUME NEW c \in Callers, Timeout(c) PROVE CleanInv'
  BY <1>6 DEF Timeout, WakeUp
<1>7. ASSUME NEW c \in Callers, SpuriousWakeup(c) PROVE CleanInv'
  BY <1>7 DEF SpuriousWakeup, WakeUp
<1>8. ASSUME NEW c \in Callers, Return(c) PROVE CleanInv'
  BY <1>8 DEF Return, ReturnFrom
<1>9. CASE CallbackWrite
  BY <1>9, HeadFacts, HitsFacts DEF CallbackWrite, Controller!Answer
<1>10. CASE CallbackNotify
  BY <1>10, HeadFacts, HitsFacts DEF CallbackNotify
<1>11. CASE UNCHANGED vars
  BY <1>11 DEF vars
<1> QED
  BY <1>1, <1>2, <1>3, <1>4, <1>5, <1>6, <1>7, <1>8, <1>9, <1>10, <1>11 DEF Next, Caller

\* While a clean call runs, only its own callback can hit its frame.
LEMMA ExactStep == TypeOK /\ FrameInv /\ ProgressInv /\ QueueInv /\ CleanInv /\ CleanCallExact /\ [Next]_vars => CleanCallExact'
<1> SUFFICES ASSUME TypeOK, FrameInv, ProgressInv, QueueInv, CleanInv, CleanCallExact, [Next]_vars PROVE CleanCallExact'
  OBVIOUS
<1> USE CallsAssumption DEF TypeOK, FrameInv, ProgressInv, ProgressOf, CleanInv, CleanCallExact, Calls, Current, serviceVars
<1>1. ASSUME NEW c \in Callers, Call(c) PROVE CleanCallExact'
  <2>1. frame'[c] \in 1..MaxCalls /\ frame'[c] > frame[c] /\ respTemp'[c] = None
    BY <1>1 DEF Call
  <2>2. status'[<<c, frame'[c]>>] = "new"
    BY <1>1, <2>1 DEF Call
  <2>3. \A d \in Callers \ {c} : frame'[d] = frame[d] /\ pc'[d] = pc[d] /\ clean'[d] = clean[d]
                              /\ respTemp'[d] = respTemp[d]
    BY <1>1 DEF Call
  <2>4. status' = status
    BY <1>1 DEF Call
  <2> QED BY <2>1, <2>2, <2>3, <2>4 DEF CleanCallExact
<1>2. ASSUME NEW c \in Callers, Refused(c) PROVE CleanCallExact'
  BY <1>2 DEF Refused, ReturnFrom, Controller!Refuse
<1>3. ASSUME NEW c \in Callers, Accepted(c) PROVE CleanCallExact'
  BY <1>3 DEF Accepted, Controller!Admit
<1>4. ASSUME NEW c \in Callers, AnsweredInside(c) PROVE CleanCallExact'
  BY <1>4 DEF AnsweredInside, Controller!AnswerAtOnce
<1>5. ASSUME NEW c \in Callers, Wait(c) PROVE CleanCallExact'
  BY <1>5 DEF Wait
<1>6. ASSUME NEW c \in Callers, Timeout(c) PROVE CleanCallExact'
  BY <1>6 DEF Timeout, WakeUp
<1>7. ASSUME NEW c \in Callers, SpuriousWakeup(c) PROVE CleanCallExact'
  BY <1>7 DEF SpuriousWakeup, WakeUp
<1>8. ASSUME NEW c \in Callers, Return(c) PROVE CleanCallExact'
  BY <1>8 DEF Return, ReturnFrom
<1>9. CASE CallbackWrite
  <2> DEFINE h == Head(pending)
  <2>1. /\ h \in Calls /\ status[h] = "pending"
        /\ status' = [status EXCEPT ![h] = "answered"]
    BY <1>9, HeadFacts DEF CallbackWrite
  <2>2. PICK hit \in Hits(h) :
          respTemp' = [c \in Callers |-> IF c \in hit THEN h ELSE respTemp[c]]
    BY <1>9 DEF CallbackWrite
  <2>3. UNCHANGED <<pc, frame, clean>>
    BY <1>9 DEF CallbackWrite
  <2>4. /\ \A c \in hit : c = h[1] /\ pc[c] # "idle"
        /\ pc[h[1]] # "idle" /\ frame[h[1]] = h[2] => hit = {h[1]}
    BY <2>1, HitsFacts
  <2>h. PICK a \in Callers, m \in 1..MaxCalls : h = <<a, m>>
    BY <2>1 DEF Calls
  <2> SUFFICES ASSUME NEW c \in Callers, clean[c], pc[c] # "idle"
               PROVE  respTemp'[c] = IF status'[<<c, frame[c]>>] = "answered" THEN <<c, frame[c]>> ELSE None
    BY <2>3 DEF CleanCallExact
  <2>5. <<c, frame[c]>> \in Calls /\ frame[c] \in 1..MaxCalls
    OBVIOUS
  <2>6. respTemp[c] = IF status[<<c, frame[c]>>] = "answered" THEN <<c, frame[c]>> ELSE None
    OBVIOUS
  <2>7. CASE h = <<c, frame[c]>>
    <3>1. hit = {c} /\ respTemp'[c] = h
      BY <2>2, <2>4, <2>7
    <3>2. status'[h] = "answered"
      BY <2>1
    <3> QED BY <2>7, <3>1, <3>2
  <2>8. CASE h # <<c, frame[c]>>
    <3>1. c \notin hit
      <4> SUFFICES ASSUME c \in hit PROVE FALSE
        OBVIOUS
      <4>1. a = c /\ m # frame[c]
        BY <2>4, <2>8, <2>h
      <4>2. status[<<c, m>>] = "pending"
        BY <2>1, <2>h, <4>1
      <4>3. m < frame[c]
        <5>1. ProgressOf(c, m) /\ m \in Nat /\ frame[c] \in Nat
          BY <2>5
        <5> HIDE DEF ProgressInv, TypeOK, FrameInv, CleanInv, CleanCallExact
        <5> QED BY <4>1, <4>2, <5>1
      <4> QED BY <4>2, <4>3 DEF CleanInv
    <3>2. respTemp'[c] = respTemp[c]
      BY <2>2, <3>1
    <3>3. status'[<<c, frame[c]>>] = status[<<c, frame[c]>>]
      BY <2>1, <2>5, <2>8
    <3> QED BY <2>6, <3>2, <3>3
  <2> QED BY <2>7, <2>8
<1>10. CASE CallbackNotify
  BY <1>10, HeadFacts, HitsFacts DEF CallbackNotify
<1>11. CASE UNCHANGED vars
  BY <1>11 DEF vars
<1> QED
  BY <1>1, <1>2, <1>3, <1>4, <1>5, <1>6, <1>7, <1>8, <1>9, <1>10, <1>11 DEF Next, Caller


\* A callback writes while its call is pending, so after that call returned
\* without its response if it returned at all.
LEMMA ResponseStep ==
  TypeOK /\ FrameInv /\ ProgressInv /\ QueueInv /\ ResponseInv /\ [Next]_vars => ResponseInv'
<1> SUFFICES ASSUME TypeOK, FrameInv, ProgressInv, QueueInv, ResponseInv, [Next]_vars
             PROVE  ResponseInv'
  OBVIOUS
<1>a. /\ status \in [Calls -> {"new", "refused", "pending", "answered"}]
      /\ result \in [Calls -> Responses \cup {Running}]
      /\ respTemp \in [Callers -> Responses]
      /\ frame \in [Callers -> 0..MaxCalls] /\ pc \in [Callers -> Points]
      /\ MaxCalls \in Nat
  BY CallsAssumption DEF TypeOK
<1>b. \A c \in Callers : pc[c] # "idle" => frame[c] \in 1..MaxCalls /\ Current(c) \in Calls
  BY DEF FrameInv, Current, Calls
<1>c. \A x \in Calls : result[x] = x => status[x] = "answered"
  BY DEF ResponseInv
<1>d. \A c \in Callers : respTemp[c] # None => \E m \in 1..frame[c] : Written(c, m)
  BY DEF ResponseInv
<1>e. \A c \in Callers : \A m \in 1..frame[c] : m \in 1..MaxCalls /\ <<c, m>> \in Calls
  BY <1>a DEF Calls
\* A caller's return.
<1>r. ASSUME NEW c \in Callers, ReturnFrom(c), pc[c] # "idle", UNCHANGED <<frame, respTemp>>,
             \A x \in Calls : status[x] = "answered" => status'[x] = "answered"
      PROVE  ResponseInv'
  <2>1. result' = [result EXCEPT ![Current(c)] = respTemp[c]] /\ pc' = [pc EXCEPT ![c] = "idle"]
    BY <1>r DEF ReturnFrom
  <2>2. ASSUME NEW x \in Calls, result'[x] = x PROVE status'[x] = "answered"
    <3>1. CASE x = Current(c)
      <4>1. respTemp[c] = Current(c)
        BY <1>a, <2>1, <2>2, <3>1
      <4>2. PICK m \in 1..frame[c] : Written(c, m)
        BY <1>d, <4>1, <1>b, <1>r, CallsAssumption
      <4> QED BY <1>r, <3>1, <4>1, <4>2 DEF Written
    <3>2. CASE x # Current(c)
      BY <1>a, <1>b, <1>c, <1>r, <2>1, <2>2, <3>2
    <3> QED BY <3>1, <3>2
  <2>3. ASSUME NEW d \in Callers, respTemp'[d] # None
        PROVE  \E m \in 1..frame'[d] : Written(d, m)'
    <3>1. PICK m \in 1..frame[d] : Written(d, m)
      BY <1>d, <1>r, <2>3
    <3>2. status'[<<d, m>>] = "answered" /\ respTemp'[d] = <<d, m>>
      BY <1>e, <1>r, <3>1 DEF Written
    <3>3. m < frame[d] /\ pc'[d] # "idle" => result'[<<d, m>>] # <<d, m>>
      <4> SUFFICES ASSUME m < frame[d], pc'[d] # "idle" PROVE result'[<<d, m>>] # <<d, m>>
        OBVIOUS
      <4>1. d # c /\ pc[d] # "idle"
        BY <1>a, <2>1
      <4>2. <<d, m>> # Current(c)
        BY <4>1 DEF Current
      <4> QED BY <1>a, <1>e, <2>1, <3>1, <4>1, <4>2 DEF Written
    <3> QED BY <1>r, <3>2, <3>3 DEF Written
  <2> QED BY <2>2, <2>3 DEF ResponseInv
\* Steps that only move control points of callers that stay at work.
<1>m. ASSUME UNCHANGED <<frame, respTemp, result>>,
             \A x \in Calls : status[x] = "answered" => status'[x] = "answered",
             \A c \in Callers : pc'[c] # "idle" => pc[c] # "idle"
      PROVE  ResponseInv'
  <2>1. \A x \in Calls : result'[x] = x => status'[x] = "answered"
    BY <1>c, <1>m
  <2>2. ASSUME NEW d \in Callers, respTemp'[d] # None
        PROVE  \E m \in 1..frame'[d] : Written(d, m)'
    <3>1. PICK m \in 1..frame[d] : Written(d, m)
      BY <1>d, <1>m, <2>2
    <3>2. Written(d, m)'
      BY <1>e, <1>m, <3>1 DEF Written
    <3> QED BY <1>m, <3>2
  <2> QED BY <2>1, <2>2 DEF ResponseInv
<1>1. ASSUME NEW c \in Callers, Call(c) PROVE ResponseInv'
  <2>1. /\ UNCHANGED <<status, result>>
        /\ \A d \in Callers : respTemp'[d] = IF d = c THEN None ELSE respTemp[d]
        /\ \A d \in Callers \ {c} : frame'[d] = frame[d] /\ pc'[d] = pc[d]
    BY <1>1, <1>a DEF Call, serviceVars
  <2>2. ASSUME NEW d \in Callers, respTemp'[d] # None
        PROVE  \E m \in 1..frame'[d] : Written(d, m)'
    <3>1. d # c /\ respTemp[d] # None
      BY <2>1, <2>2
    <3>2. PICK m \in 1..frame[d] : Written(d, m)
      BY <1>d, <3>1
    <3> QED BY <2>1, <3>1, <3>2 DEF Written
  <2> QED BY <1>c, <2>1, <2>2 DEF ResponseInv
<1>2. ASSUME NEW c \in Callers, Refused(c) PROVE ResponseInv'
  <2>1. \A x \in Calls : status[x] = "answered" => status'[x] = "answered"
    BY <1>2, <1>a DEF Refused, Controller!Refuse
  <2> QED BY <1>2, <1>r, <2>1 DEF Refused
<1>3. ASSUME NEW c \in Callers, Accepted(c) PROVE ResponseInv'
  <2>1. \A x \in Calls : status[x] = "answered" => status'[x] = "answered"
    BY <1>3, <1>a DEF Accepted, Controller!Admit
  <2>2. \A d \in Callers : pc'[d] # "idle" => pc[d] # "idle"
    BY <1>3, <1>a DEF Accepted
  <2> QED BY <1>3, <1>m, <2>1, <2>2 DEF Accepted
<1>4. ASSUME NEW c \in Callers, AnsweredInside(c) PROVE ResponseInv'
  <2>1. /\ status' = [status EXCEPT ![Current(c)] = "answered"]
        /\ respTemp' = [respTemp EXCEPT ![c] = Current(c)]
        /\ pc[c] = "request" /\ pc' = [pc EXCEPT ![c] = "accepted"]
        /\ UNCHANGED <<frame, result>>
    BY <1>4 DEF AnsweredInside, Controller!AnswerAtOnce
  <2>2. \A x \in Calls : status[x] = "answered" => status'[x] = "answered"
    BY <1>a, <2>1
  <2>3. ASSUME NEW d \in Callers, respTemp'[d] # None
        PROVE  \E m \in 1..frame'[d] : Written(d, m)'
    <3>1. CASE d = c
      <4>1. /\ frame[c] \in 1..frame[c] /\ respTemp'[c] = <<c, frame[c]>>
            /\ status'[<<c, frame[c]>>] = "answered"
        BY <1>a, <1>b, <2>1 DEF Current
      <4>2. Written(c, frame[c])'
        BY <2>1, <1>a, <4>1 DEF Written
      <4> QED BY <2>1, <3>1, <4>1, <4>2
    <3>2. CASE d # c
      <4>1. respTemp'[d] = respTemp[d] /\ pc'[d] = pc[d]
        BY <1>a, <2>1, <3>2
      <4>2. PICK m \in 1..frame[d] : Written(d, m)
        BY <1>d, <2>3, <4>1
      <4>3. Written(d, m)'
        BY <1>e, <2>1, <2>2, <4>1, <4>2 DEF Written
      <4> QED BY <2>1, <4>3
    <3> QED BY <3>1, <3>2
  <2> QED BY <1>c, <2>1, <2>2, <2>3 DEF ResponseInv
<1>5. ASSUME NEW c \in Callers, Wait(c) \/ Timeout(c) \/ SpuriousWakeup(c) PROVE ResponseInv'
  <2>1. UNCHANGED <<status, frame, respTemp, result>>
    BY <1>5 DEF Wait, Timeout, SpuriousWakeup, serviceVars
  <2>2. \A d \in Callers : pc'[d] # "idle" => pc[d] # "idle"
    BY <1>5, <1>a DEF Wait, Timeout, SpuriousWakeup, WakeUp
  <2> QED BY <1>m, <2>1, <2>2
<1>6. ASSUME NEW c \in Callers, Return(c) PROVE ResponseInv'
  <2>1. pc[c] # "idle" /\ ReturnFrom(c) /\ UNCHANGED <<status, frame, respTemp>>
    BY <1>6 DEF Return, serviceVars
  <2> QED BY <1>r, <2>1
<1>7. CASE CallbackWrite
  <2>1. PICK a \in Callers, n \in 1..MaxCalls : Head(pending) = <<a, n>>
    BY <1>7, HeadFacts DEF CallbackWrite, Calls
  <2>2. /\ <<a, n>> \in Calls /\ status[<<a, n>>] = "pending"
        /\ status' = [status EXCEPT ![<<a, n>>] = "answered"]
    BY <1>7, <2>1, HeadFacts DEF CallbackWrite
  <2>3. PICK hit \in Hits(<<a, n>>) :
          respTemp' = [c \in Callers |-> IF c \in hit THEN <<a, n>> ELSE respTemp[c]]
    BY <1>7, <2>1 DEF CallbackWrite
  <2>4. \A c \in hit : c = a
    BY <2>2, <2>3, HitsFacts
  <2>5. UNCHANGED <<pc, frame, result>>
    BY <1>7 DEF CallbackWrite
  <2>6. n \in 1..frame[a] /\ result[<<a, n>>] # <<a, n>>
    BY <1>a, <1>c, <2>2 DEF ProgressInv, ProgressOf
  <2>7. \A x \in Calls : status[x] = "answered" => status'[x] = "answered"
    BY <1>a, <2>2
  <2>8. ASSUME NEW d \in Callers, respTemp'[d] # None
        PROVE  \E m \in 1..frame'[d] : Written(d, m)'
    <3>1. CASE d \in hit
      <4>1. Written(a, n)'
        BY <1>a, <2>2, <2>3, <2>4, <2>5, <2>6, <3>1 DEF Written
      <4> QED BY <2>4, <2>5, <2>6, <3>1, <4>1
    <3>2. CASE d \notin hit
      <4>1. respTemp'[d] = respTemp[d]
        BY <2>3, <3>2
      <4>2. PICK m \in 1..frame[d] : Written(d, m)
        BY <1>d, <2>8, <4>1
      <4>3. Written(d, m)'
        BY <1>e, <2>5, <2>7, <4>1, <4>2 DEF Written
      <4> QED BY <2>5, <4>3
    <3> QED BY <3>1, <3>2
  <2> QED BY <1>c, <2>5, <2>7, <2>8 DEF ResponseInv
<1>8. CASE CallbackNotify
  <2>1. UNCHANGED <<status, frame, respTemp, result>>
    BY <1>8 DEF CallbackNotify, serviceVars
  <2>2. \A d \in Callers : pc'[d] # "idle" => pc[d] # "idle"
    BY <1>8 DEF CallbackNotify
  <2> QED BY <1>m, <2>1, <2>2
<1>9. CASE UNCHANGED vars
  BY <1>9, <1>m DEF vars, serviceVars
<1> QED
  BY <1>1, <1>2, <1>3, <1>4, <1>5, <1>6, <1>7, <1>8, <1>9 DEF Next, Caller

\* What a call returns is what was written.
LEMMA ForeignStep ==
  TypeOK /\ FrameInv /\ ProgressInv /\ ResponseInv /\ ForeignIsAbandoned /\ [Next]_vars
    => ForeignIsAbandoned'
<1> SUFFICES ASSUME TypeOK, FrameInv, ProgressInv, ResponseInv, ForeignIsAbandoned, [Next]_vars
             PROVE  ForeignIsAbandoned'
  OBVIOUS
<1>1. ASSUME NEW c \in Callers, ReturnFrom(c), pc[c] # "idle" PROVE ForeignIsAbandoned'
  <2>1. /\ frame[c] \in 1..MaxCalls /\ MaxCalls \in Nat
        /\ result \in [Calls -> Responses \cup {Running}]
        /\ result' = [result EXCEPT ![<<c, frame[c]>>] = respTemp[c]]
        /\ <<c, frame[c]>> \in Calls
    BY <1>1, CallsAssumption DEF ReturnFrom, Current, FrameInv, TypeOK, Calls
  <2> SUFFICES ASSUME NEW d \in Callers, NEW n \in 1..MaxCalls,
                      result'[<<d, n>>] \in Calls \ {<<d, n>>}
               PROVE  \E m \in 1..(n - 1) : /\ result'[<<d, n>>] = <<d, m>>
                                            /\ result'[<<d, m>>] # <<d, m>>
    BY DEF ForeignIsAbandoned
  <2>2. <<d, n>> \in Calls
    BY DEF Calls
  <2>3. CASE d = c /\ n = frame[c]
    <3>1. result'[<<d, n>>] = respTemp[c] /\ respTemp[c] # None
      BY <2>1, <2>2, <2>3, CallsAssumption
    <3>2. PICK m \in 1..frame[c] : Written(c, m)
      BY <3>1 DEF ResponseInv
    <3>3. m # frame[c] /\ m < frame[c] /\ m \in 1..(n - 1)
      BY <2>1, <2>3, <3>1, <3>2 DEF Written
    <3>4. result'[<<c, m>>] = result[<<c, m>>]
      <4>1. <<c, m>> # <<c, frame[c]>> /\ <<c, m>> \in Calls
        BY <2>1, <3>3 DEF Calls
      <4> QED BY <2>1, <4>1
    <3> QED BY <1>1, <2>3, <3>1, <3>2, <3>3, <3>4 DEF Written
  <2>4. CASE ~(d = c /\ n = frame[c])
    <3>1. <<d, n>> # <<c, frame[c]>>
      BY <2>4
    <3>2. result'[<<d, n>>] = result[<<d, n>>]
      BY <2>1, <2>2, <3>1
    <3>3. PICK m \in 1..(n - 1) : result[<<d, n>>] = <<d, m>> /\ result[<<d, m>>] # <<d, m>>
      BY <3>2 DEF ForeignIsAbandoned
    <3>4. <<d, m>> \in Calls /\ m \in Nat
      BY <2>1 DEF Calls
    <3>5. result'[<<d, m>>] # <<d, m>>
      <4>1. CASE <<d, m>> = <<c, frame[c]>>
        <5>1. result'[<<d, m>>] = respTemp[c]
          BY <2>1, <3>4, <4>1
        <5>2. d = c /\ m = frame[c]
          BY <4>1
        <5>3. result[<<d, n>>] = Running
          BY <2>1, <3>3, <5>2 DEF ProgressInv, ProgressOf
        <5> QED BY <3>2, <5>3, CallsAssumption
      <4>2. CASE <<d, m>> # <<c, frame[c]>>
        BY <2>1, <3>3, <3>4, <4>2
      <4> QED BY <4>1, <4>2
    <3> QED BY <3>2, <3>3, <3>5
  <2> QED BY <2>3, <2>4
<1>2. CASE UNCHANGED result
  BY <1>2 DEF ForeignIsAbandoned
<1> QED
  BY <1>1, <1>2 DEF Next, Caller, Call, Refused, Accepted, AnsweredInside, Wait, Timeout,
    SpuriousWakeup, Return, CallbackWrite, CallbackNotify, vars

-------------------------------------------------------------------------------
(* The theorems.                                                           *)

\* The inductive invariant holds in every reachable state.
LEMMA InvariantHolds == Spec => []IInv
<1>1. Init => IInv
  <2> SUFFICES ASSUME Init PROVE IInv
    OBVIOUS
  <2> USE CallsAssumption DEF Init, Controller!Init
  <2>1. TypeOK /\ FrameInv /\ DeliveryInv /\ CleanInv /\ CleanCallExact
    BY DEF TypeOK, Points, Responses, FrameInv, DeliveryInv, CleanInv, CleanCallExact
  <2>2. ProgressInv
    BY DEF ProgressInv, ProgressOf, Calls
  <2>3. QueueInv
    BY DEF QueueInv
  <2>4. ResponseInv /\ ForeignIsAbandoned
    BY DEF ResponseInv, ForeignIsAbandoned, Calls
  <2> QED BY <2>1, <2>2, <2>3, <2>4 DEF IInv
<1>2. IInv /\ [Next]_vars => IInv'
  BY TypeStep, ProgressStep, FrameStep, QueueStep, DeliveryStep, CleanStep, ExactStep,
    ResponseStep, ForeignStep DEF IInv
<1> QED
  BY <1>1, <1>2, PTL DEF Spec

\* Every variable of the blocking call keeps its type.
THEOREM SyncTypeCorrect == Spec => []TypeOK
<1>1. IInv => TypeOK
  BY DEF IInv
<1> QED BY <1>1, InvariantHolds, PTL

\* However many callers share the controller, a call that starts with no
\* callback of its stack left over gets its own response and no other.
THEOREM CleanCallCorrect == Spec => []CleanCallExact
<1>1. IInv => CleanCallExact
  BY DEF IInv
<1> QED BY <1>1, InvariantHolds, PTL

\* A wrong response is always the late one of an abandoned call.
THEOREM ForeignCorrect == Spec => []ForeignIsAbandoned
<1>1. IInv => ForeignIsAbandoned
  BY DEF IInv
<1> QED BY <1>1, InvariantHolds, PTL

-------------------------------------------------------------------------------
(* RequestSync keeps the promise of BlockingCalls.                         *)

(* Beside IInv: a call that goes on was accepted, and once it is answered  *)
(* its frame is not empty any more.                                        *)

Kept(c) ==
  pc[c] # "idle" =>
    /\ status[Current(c)] # "refused"
    /\ status[Current(c)] = "answered" => respTemp[c] # None

KeptInv == \A c \in Callers : Kept(c)

\* What a call finds in its frame: nothing, its own response or a late one.
LEMMA FrameContents ==
  ASSUME IInv, NEW c \in Callers, pc[c] # "idle"
  PROVE  /\ Current(c) \in Calls
         /\ Blocking!Reached(Current(c))
         /\ respTemp[c] \in Blocking!Late(Current(c)) \cup {None, Current(c)}
         /\ respTemp[c] = Current(c) => status[Current(c)] = "answered"
<1>1. /\ frame[c] \in 1..MaxCalls /\ MaxCalls \in Nat
      /\ Current(c) = <<c, frame[c]>> /\ Current(c) \in Calls
      /\ respTemp[c] \in Calls \cup {None}
  BY CallsAssumption DEF IInv, TypeOK, FrameInv, Current, Calls, Responses
<1>2. \A n \in 1..(frame[c] - 1) : result[<<c, n>>] # Running
  BY <1>1 DEF IInv, ProgressInv, ProgressOf
<1>3. Blocking!Reached(Current(c))
  BY <1>1, <1>2 DEF Blocking!Reached
<1>4. CASE respTemp[c] # None
  <2>1. PICK m \in 1..frame[c] : Written(c, m)
    BY <1>4 DEF IInv, ResponseInv
  <2>2. CASE m = frame[c]
    BY <1>1, <1>3, <2>1, <2>2 DEF Written
  <2>3. CASE m < frame[c]
    <3>1. respTemp[c] = <<c, m>> /\ status[<<c, m>>] = "answered" /\ result[<<c, m>>] # <<c, m>>
      BY <2>1, <2>3 DEF Written
    <3>2. respTemp[c] \in Blocking!Late(Current(c))
      BY <1>1, <1>4, <2>3, <3>1 DEF Blocking!Late, Blocking!Calls, Calls
    <3>3. respTemp[c] # Current(c)
      BY <1>1, <2>3, <3>1
    <3> QED BY <1>1, <1>3, <3>2, <3>3
  <2> QED BY <1>1, <2>1, <2>2, <2>3
<1>5. CASE respTemp[c] = None
  BY <1>1, <1>3, <1>5, CallsAssumption
<1> QED BY <1>4, <1>5

\* The callback of a call that goes on hits its frame.
LEMMA KeptStep == IInv /\ KeptInv /\ [Next]_vars => KeptInv'
<1> SUFFICES ASSUME IInv, KeptInv, [Next]_vars, NEW d \in Callers PROVE Kept(d)'
  BY DEF KeptInv
<1>0. /\ status \in [Calls -> {"new", "refused", "pending", "answered"}]
      /\ respTemp \in [Callers -> Responses] /\ None \notin Calls
      /\ frame \in [Callers -> 0..MaxCalls] /\ pc \in [Callers -> Points]
      /\ pc[d] # "idle" => Current(d) \in Calls
      /\ Kept(d)
  BY CallsAssumption DEF IInv, TypeOK, FrameInv, Current, Calls, KeptInv
<1>1. ASSUME NEW c \in Callers, Call(c) PROVE Kept(d)'
  <2>1. CASE c = d
    <3>1. frame[d] + 1 \in 1..MaxCalls /\ status[<<d, frame[d] + 1>>] = "new"
      BY <1>0, <1>1, <2>1, CallsAssumption DEF Call, IInv, ProgressInv, ProgressOf
    <3>2. Current(d)' = <<d, frame[d] + 1>> /\ UNCHANGED status
      BY <1>0, <1>1, <2>1 DEF Call, Current, serviceVars
    <3> QED BY <3>1, <3>2 DEF Kept
  <2>2. CASE c # d
    <3>1. pc'[d] = pc[d] /\ respTemp'[d] = respTemp[d] /\ frame'[d] = frame[d] /\ UNCHANGED status
      BY <1>0, <1>1, <2>2 DEF Call, serviceVars
    <3> QED BY <1>0, <3>1 DEF Kept, Current
  <2> QED BY <2>1, <2>2
<1>2. ASSUME NEW c \in Callers, Refused(c) PROVE Kept(d)'
  <2>1. pc'[d] = IF c = d THEN "idle" ELSE pc[d]
    BY <1>0, <1>2 DEF Refused, ReturnFrom
  <2>2. Current(d) # Current(c) => status'[Current(d)] = status[Current(d)] \/ pc[d] = "idle"
    BY <1>0, <1>2 DEF Refused, Controller!Refuse
  <2> QED BY <1>0, <1>2, <2>1, <2>2 DEF Refused, Kept, Current
<1>3. ASSUME NEW c \in Callers, Accepted(c) PROVE Kept(d)'
  <2>1. status' = [status EXCEPT ![Current(c)] = "pending"] /\ UNCHANGED <<frame, respTemp>>
    BY <1>3 DEF Accepted, Controller!Admit
  <2>2. pc'[d] # "idle" => pc[d] # "idle"
    BY <1>0, <1>3 DEF Accepted
  <2> QED BY <1>0, <2>1, <2>2 DEF Kept, Current
<1>4. ASSUME NEW c \in Callers, AnsweredInside(c) PROVE Kept(d)'
  <2>1. /\ status' = [status EXCEPT ![Current(c)] = "answered"] /\ UNCHANGED frame
        /\ respTemp' = [respTemp EXCEPT ![c] = Current(c)] /\ pc[c] # "idle"
    BY <1>4 DEF AnsweredInside, Controller!AnswerAtOnce
  <2>2. pc'[d] # "idle" => pc[d] # "idle"
    BY <1>0, <1>4 DEF AnsweredInside
  <2>3. Current(c) = Current(d) <=> c = d
    BY DEF Current
  <2> QED BY <1>0, <2>1, <2>2, <2>3 DEF Kept, Current
<1>5. ASSUME NEW c \in Callers, Wait(c) \/ Timeout(c) \/ SpuriousWakeup(c) \/ Return(c)
      PROVE  Kept(d)'
  <2>1. UNCHANGED <<status, frame, respTemp>>
    BY <1>5 DEF Wait, Timeout, SpuriousWakeup, Return, serviceVars
  <2>2. pc'[d] # "idle" => pc[d] # "idle"
    BY <1>0, <1>5 DEF Wait, Timeout, SpuriousWakeup, WakeUp, Return, ReturnFrom
  <2> QED BY <1>0, <2>1, <2>2 DEF Kept, Current
<1>6. CASE CallbackWrite
  <2> DEFINE x == Head(pending)
  <2>1. /\ x \in Calls /\ status' = [status EXCEPT ![x] = "answered"]
        /\ UNCHANGED <<pc, frame>>
    BY <1>6, HeadFacts DEF CallbackWrite, IInv
  <2>2. PICK hit \in Hits(x) :
          respTemp' = [c \in Callers |-> IF c \in hit THEN x ELSE respTemp[c]]
    BY <1>6 DEF CallbackWrite
  <2>3. pc[d] # "idle" /\ Current(d) = x => d \in hit
    BY <2>1, <2>2, HitsFacts DEF Current
  <2> HIDE DEF x
  <2> QED BY <1>0, <2>1, <2>2, <2>3 DEF Kept, Current
<1>7. CASE CallbackNotify
  <2>1. UNCHANGED <<status, frame, respTemp>> /\ (pc'[d] # "idle" => pc[d] # "idle")
    BY <1>7 DEF CallbackNotify, serviceVars
  <2> QED BY <1>0, <2>1 DEF Kept, Current
<1>8. CASE UNCHANGED vars
  BY <1>0, <1>8 DEF vars, serviceVars, Kept, Current
<1> QED
  BY <1>1, <1>2, <1>3, <1>4, <1>5, <1>6, <1>7, <1>8 DEF Next, Caller

-------------------------------------------------------------------------------
\* Submitting and giving back are RequestSync's; the rest of it stutters.
LEMMA BlockingStep ==
  IInv /\ KeptInv /\ [Next]_vars => [Blocking!CallsNext]_<<pending, status, result>>
<1> SUFFICES ASSUME IInv, KeptInv, [Next]_vars
             PROVE  Blocking!CallsNext \/ UNCHANGED <<pending, status, result>>
  OBVIOUS
<1>1. ASSUME NEW c \in Callers, Refused(c) PROVE Blocking!CallsNext
  <2>1. /\ pc[c] = "request" /\ status[Current(c)] = "new"
        /\ result' = [result EXCEPT ![Current(c)] = respTemp[c]]
        /\ Blocking!Controller!Refuse(Current(c))
    BY <1>1 DEF Refused, ReturnFrom, Controller!Refuse, Blocking!Controller!Refuse
  <2>2. /\ Current(c) \in Blocking!Calls /\ Blocking!Reached(Current(c))
        /\ respTemp[c] \in Blocking!Late(Current(c)) \cup {None}
    BY <2>1, FrameContents DEF Blocking!Calls, Calls
  <2>3. Blocking!Reject(Current(c))
    BY <2>1, <2>2 DEF Blocking!Reject
  <2> QED BY <2>2, <2>3 DEF Blocking!CallsNext
<1>2. ASSUME NEW c \in Callers, Accepted(c) PROVE Blocking!CallsNext
  <2>1. pc[c] = "request" /\ Blocking!Controller!Admit(Current(c)) /\ UNCHANGED result
    BY <1>2 DEF Accepted, Controller!Admit, Blocking!Controller!Admit
  <2>2. Current(c) \in Blocking!Calls /\ Blocking!Reached(Current(c))
    BY <2>1, FrameContents DEF Blocking!Calls, Calls
  <2> QED BY <2>1, <2>2 DEF Blocking!CallsNext, Blocking!Submit
<1>3. ASSUME NEW c \in Callers, AnsweredInside(c) PROVE Blocking!CallsNext
  <2>1. pc[c] = "request" /\ Blocking!Controller!AnswerAtOnce(Current(c)) /\ UNCHANGED result
    BY <1>3 DEF AnsweredInside, Controller!AnswerAtOnce, Blocking!Controller!AnswerAtOnce
  <2>2. Current(c) \in Blocking!Calls /\ Blocking!Reached(Current(c))
    BY <2>1, FrameContents DEF Blocking!Calls, Calls
  <2> QED BY <2>1, <2>2 DEF Blocking!CallsNext, Blocking!SubmitAnswered
<1>4. ASSUME NEW c \in Callers, Return(c) PROVE Blocking!CallsNext
  <2> DEFINE x == Current(c)
  <2>1. /\ pc[c] = "awake" /\ UNCHANGED <<pending, status>>
        /\ result' = [result EXCEPT ![x] = respTemp[c]]
    BY <1>4 DEF Return, ReturnFrom, serviceVars
  <2>2. /\ x \in Calls /\ x \in Blocking!Calls
        /\ respTemp[c] \in Blocking!Late(x) \cup {None, x}
        /\ respTemp[c] = x => status[x] = "answered"
    BY <2>1, FrameContents DEF Blocking!Calls, Calls
  <2>3. result[x] = Running /\ status[x] # "new"
    BY <2>1 DEF IInv, FrameInv, ProgressInv, ProgressOf, Current
  <2>4. status[x] # "refused" /\ (status[x] = "answered" => respTemp[c] # None)
    BY <2>1 DEF KeptInv, Kept
  <2>5. status[x] \in {"pending", "answered"}
    BY <2>2, <2>3, <2>4 DEF IInv, TypeOK
  <2>6. respTemp[c] \in Blocking!Late(x) \cup {IF status[x] = "answered" THEN x ELSE None}
    BY <2>2, <2>4
  <2> HIDE DEF x
  <2>7. Blocking!GiveBack(x)
    BY <2>1, <2>3, <2>5, <2>6 DEF Blocking!GiveBack
  <2> QED BY <2>2, <2>7 DEF Blocking!CallsNext
<1>5. CASE CallbackWrite
  <2>1. Blocking!Answer
    BY <1>5 DEF CallbackWrite, Controller!Answer, Blocking!Answer, Blocking!Controller!Answer
  <2> QED BY <2>1 DEF Blocking!CallsNext
<1>6. ASSUME NEW c \in Callers, Call(c) \/ Wait(c) \/ Timeout(c) \/ SpuriousWakeup(c)
      PROVE  UNCHANGED <<pending, status, result>>
  BY <1>6 DEF Call, Wait, Timeout, SpuriousWakeup, serviceVars
<1>7. CASE CallbackNotify \/ UNCHANGED vars
  BY <1>7 DEF CallbackNotify, vars, serviceVars
<1> QED
  BY <1>1, <1>2, <1>3, <1>4, <1>5, <1>6, <1>7 DEF Next, Caller

\* For any callers and any number of calls, RequestSync refuses, submits and
\* gives back as BlockingCalls says: frames, waits and notifications are
\* hidden, and what they lose or lead astray is no more than it allows.
THEOREM SyncImplementsBlocking == Spec => Implements
<1>1. Init => Blocking!CallsInit /\ KeptInv
  BY DEF Init, Controller!Init, Blocking!CallsInit, Blocking!Controller!Init, Blocking!Calls,
     Calls, KeptInv, Kept
<1>2. [Blocking!CallsNext]_<<pending, status, result>> => [Blocking!CallsNext]_(Blocking!callVars)
  BY DEF Blocking!callVars
<1> QED
  BY <1>1, <1>2, KeptStep, BlockingStep, InvariantHolds, PTL
  DEF Spec, Implements, Blocking!CallsSpec
===============================================================================
