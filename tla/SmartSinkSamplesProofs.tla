------------------------ MODULE SmartSinkSamplesProofs ------------------------
(***************************************************************************)
(* Proofs about SmartSinkSamples, for any number of chains, all angles and *)
(* offsets in their ranges and either kind of char.                        *)
(*                                                                         *)
(* What chains do to worker and device is a step of CamPTZCodec, whose     *)
(* invariant therefore holds.  On top of it, every sample the device gave  *)
(* is what the worker reads of the place the sample remembers.             *)
(***************************************************************************)
EXTENDS SmartSinkSamples, CamPTZCodecProofs

-------------------------------------------------------------------------------
(* The inductive invariant.                                                *)

\* The angle the worker reads at place n of the axis of question i.
Got(i, n) == IF IsAzi(i) THEN AziGot(Bytes(n)) ELSE EleGot(Bytes(n))

FromDevice(s) ==
  \A i \in 1..4 :
    /\ IsAzi(i) => s[i].at <= 36000
    /\ s[i].asked => s[i].angle = Got(i, s[i].at)

SamplesInv ==
  /\ FromDevice(samples)
  /\ judged # None => FromDevice(judged.samples) /\ judged.replay = NeedReplay(judged.samples)

ChainInv == IInv /\ SamplesTypeOK /\ SamplesInv

-------------------------------------------------------------------------------
(* Lemmas.                                                                 *)

LEMMA Indices ==
  /\ \A i : i \in 1..4 <=> i \in {1, 2, 3, 4}
  /\ \A i : i \in 0..4 <=> i \in {0, 1, 2, 3, 4}
  /\ \A i : i \in 0..3 <=> i \in {0, 1, 2, 3}
  OBVIOUS

LEMMA NoChainFacts == None \notin Chains /\ None \notin 0..4
<1>1. \A k : k \in 0..4 => k \in Int
  OBVIOUS
<1> QED BY <1>1, SamplesAssumption, CodecAssumption, Zenon

LEMMA GarbageFacts == \A g \in Garbage : g \in Int
  BY SamplesAssumption, Zenon

LEMMA GotType ==
  ASSUME TypeOK, NEW i \in 1..4, NEW n \in Words16
  PROVE  Got(i, n) \in Int
<1>1. Raw(Bytes(n)) \in Int
  BY BytesType, RawType
<1> QED BY <1>1, Offsets, TurnIs DEF Got, AziGot, EleGot

LEMMA WhereType ==
  ASSUME IInv, NEW i \in 1..4
  PROVE  Where(i) \in Words16 /\ (IsAzi(i) => Where(i) <= 36000)
  BY DEF IInv, TypeOK, PositionInv, Places, Where

LEMMA FakedType ==
  ASSUME IInv, NEW i \in 1..4, NEW g \in Garbage
  PROVE  Faked(i, g) \in Reading
  BY WhereType, GarbageFacts DEF Faked, Reading

\* A read angle stays what it is as long as the configuration does.
LEMMA GotStays ==
  ASSUME UNCHANGED config
  PROVE  /\ \A i : Got(i, samples[i].at)' = Got(i, samples'[i].at)
         /\ \A i : Got(i, judged.samples[i].at)' = Got(i, judged'.samples[i].at)
  BY DEF config, Got, IsAzi, AziGot, EleGot, Raw, Char, Bytes

LEMMA SamplesInvNext ==
  ASSUME UNCHANGED config,
         FromDevice(samples'),
         judged' # None =>
           FromDevice(judged'.samples) /\ judged'.replay = NeedReplay(judged'.samples)
  PROVE  SamplesInv'
<1>1. FromDevice(samples)'
  BY GotStays DEF FromDevice, IsAzi
<1>2. judged' # None => FromDevice(judged.samples)'
  BY GotStays DEF FromDevice, IsAzi
<1>3. NeedReplay(judged.samples)' = NeedReplay(judged'.samples)
  BY DEF NeedReplay, DeltaAzi, DeltaEle
<1> QED BY <1>1, <1>2, <1>3 DEF SamplesInv

\* An answer that is stored leaves the samples what they are to be.
LEMMA StoreStep ==
  ASSUME ChainInv, NEW c \in Chains, got[c] \in 0..3,
         NEW reading \in Reading,
         IsAzi(got[c] + 1) => reading.at <= 36000,
         reading.asked => reading.angle = Got(got[c] + 1, reading.at),
         Store(c, reading)
  PROVE  /\ FromDevice(samples')
         /\ samples' \in [1..4 -> Reading]
         /\ got' \in [Chains -> 0..4 \cup {None}]
         /\ \A d \in Chains : d # c => got'[d] = got[d]
<1>1. got[c] + 1 \in 1..4 /\ got[c] + 1 \in 0..4
  OBVIOUS
<1>2. samples \in [1..4 -> Reading] /\ got \in [Chains -> 0..4 \cup {None}]
  BY DEF ChainInv, SamplesTypeOK
<1> DEFINE k == got[c] + 1
<1>3. samples' = [samples EXCEPT ![k] = reading] /\ got' = [got EXCEPT ![c] = k]
  BY DEF Store
<1>4. FromDevice(samples)
  BY DEF ChainInv, SamplesInv
<1> HIDE DEF k
<1>5. k \in 1..4 /\ k \in 0..4
  BY <1>1 DEF k
<1>6. /\ samples' \in [1..4 -> Reading]
      /\ \A i \in 1..4 : samples'[i] = IF i = k THEN reading ELSE samples[i]
  BY <1>2, <1>3, <1>5
<1>7. FromDevice(samples')
  <2>1. (IsAzi(k) => reading.at <= 36000) /\ (reading.asked => reading.angle = Got(k, reading.at))
    BY DEF k
  <2>2. ASSUME NEW i \in 1..4
        PROVE  /\ IsAzi(i) => samples'[i].at <= 36000
               /\ samples'[i].asked => samples'[i].angle = Got(i, samples'[i].at)
    <3>1. CASE i = k
      <4>1. samples'[i] = reading
        BY <1>6, <3>1
      <4> QED BY <2>1, <3>1, <4>1
    <3>2. CASE i # k
      <4>1. samples'[i] = samples[i]
        BY <1>6, <3>2
      <4> QED BY <1>4, <4>1 DEF FromDevice
    <3> QED BY <3>1, <3>2
  <2> QED BY <2>2 DEF FromDevice
<1>8. /\ got' \in [Chains -> 0..4 \cup {None}]
      /\ \A d \in Chains : d # c => got'[d] = got[d]
  BY <1>2, <1>3, <1>5
<1> QED BY <1>6, <1>7, <1>8

-------------------------------------------------------------------------------
(* Steps of chains are steps of the codec.                                 *)

LEMMA QuestionIsJob == \A i \in 1..4 : Question(i) \in Jobs
  BY DEF Question, Jobs

LEMMA ChainSteps ==
  ASSUME ChainInv, [SamplesNext]_samplesVars
  PROVE  [Next]_vars
<1> USE DEF chain
<1>1. CASE UNCHANGED samplesVars
  BY <1>1 DEF samplesVars
<1>2. ASSUME NEW c \in Chains, Ask(c)
      PROVE  Next
  <2>1. got[c] + 1 \in 1..4
    BY <1>2 DEF Ask, Questioning
  <2>2. Question(got[c] + 1) \in Jobs /\ Send(Question(got[c] + 1))
    BY <1>2, <2>1, QuestionIsJob DEF Ask
  <2> QED BY <2>2, Zenon DEF Next
<1>3. ASSUME NEW c \in Chains, Answer(c)
      PROVE  Next
  BY <1>3, Zenon DEF Answer, Next
<1>4. ASSUME NEW c \in Chains, StartChain(c) \/ Fake(c) \/ Decide(c)
      PROVE  UNCHANGED vars
  BY <1>4 DEF StartChain, Fake, Decide
<1>5. CASE Others
  BY <1>5 DEF Others, Next
<1> QED BY <1>1, <1>2, <1>3, <1>4, <1>5, Zenon DEF SamplesNext

LEMMA CodecInvNext ==
  ASSUME IInv, [Next]_vars
  PROVE  IInv'
  BY SendStep, ReceiveStep, MoveStep, ObeyStep, StutterStep DEF Next

\* The configuration is chosen once.
LEMMA ConfigStays ==
  ASSUME [Next]_vars
  PROVE  UNCHANGED config
  BY DEF Next, vars, Send, Obey, Receive, Move

-------------------------------------------------------------------------------
(* The first state, and the steps one by one.                              *)

LEMMA SamplesInitHolds == SamplesInit => ChainInv
<1> SUFFICES ASSUME SamplesInit PROVE ChainInv
  OBVIOUS
<1>1. IInv
  BY InitHolds DEF SamplesInit
<1>2. PICK g \in Garbage : samples = [i \in 1..4 |-> Faked(i, g)]
  BY DEF SamplesInit
<1>3. \A i \in 1..4 : Faked(i, g) \in Reading
  BY <1>1, FakedType
<1>4. samples \in [1..4 -> Reading]
  BY <1>2, <1>3
<1>5. SamplesTypeOK
  BY <1>4 DEF SamplesInit, SamplesTypeOK
<1>6. SamplesInv
  <2>1. \A i \in 1..4 : samples[i].at = Where(i) /\ samples[i].asked = FALSE
    BY <1>2 DEF Faked
  <2>2. FromDevice(samples)
    BY <1>1, <2>1, WhereType DEF FromDevice
  <2> QED BY <2>2 DEF SamplesInit, SamplesInv
<1> QED BY <1>1, <1>5, <1>6 DEF ChainInv

LEMMA StartChainStep ==
  ASSUME ChainInv, IInv', UNCHANGED config, NEW c \in Chains, StartChain(c)
  PROVE  ChainInv'
<1> USE DEF vars
<1>1. got \in [Chains -> 0..4 \cup {None}] /\ samples \in [1..4 -> Reading]
  BY DEF ChainInv, SamplesTypeOK
<1>2. /\ got' \in [Chains -> 0..4 \cup {None}]
      /\ \A d \in Chains : d # c => got'[d] = got[d]
  BY <1>1, Indices DEF StartChain
<1>3. asking # c
  BY NoChainFacts, Indices DEF ChainInv, SamplesTypeOK, StartChain
<1>4. SamplesTypeOK'
  BY <1>1, <1>2, <1>3 DEF ChainInv, SamplesTypeOK, StartChain, Question, IsAzi
<1>5. SamplesInv'
  BY SamplesInvNext DEF ChainInv, SamplesInv, StartChain
<1> QED BY <1>4, <1>5 DEF ChainInv

LEMMA FakeStep ==
  ASSUME ChainInv, IInv', UNCHANGED config, NEW c \in Chains, Fake(c)
  PROVE  ChainInv'
<1> USE DEF vars
<1>1. PICK g \in Garbage : Store(c, Faked(got[c] + 1, g))
  BY DEF Fake
<1>2. got[c] \in 0..3 /\ asking # c /\ got[c] + 1 \in 1..4
  BY DEF Fake, Questioning
<1> DEFINE k == got[c] + 1
           reading == Faked(k, g)
<1>3. reading \in Reading /\ (IsAzi(k) => reading.at <= 36000) /\ reading.asked = FALSE
  BY <1>2, FakedType, WhereType DEF ChainInv, Faked
<1>4. Store(c, reading)
  BY <1>1
<1> HIDE DEF reading
<1>5. /\ FromDevice(samples') /\ samples' \in [1..4 -> Reading]
      /\ got' \in [Chains -> 0..4 \cup {None}]
      /\ \A d \in Chains : d # c => got'[d] = got[d]
  BY <1>2, <1>3, <1>4, StoreStep
<1>6. SamplesTypeOK'
  BY <1>2, <1>5 DEF ChainInv, SamplesTypeOK, Fake, Question, IsAzi
<1>7. SamplesInv'
  BY <1>5, SamplesInvNext DEF Fake
<1> QED BY <1>6, <1>7 DEF ChainInv

LEMMA AskStep ==
  ASSUME ChainInv, IInv', UNCHANGED config, NEW c \in Chains, Ask(c)
  PROVE  ChainInv'
<1>1. /\ asking' = c /\ got' = got /\ samples' = samples /\ judged' = None
      /\ sampling' = sampling /\ got[c] \in 0..3
      /\ job' = Question(got[c] + 1)
  BY DEF Ask, Send, Questioning
<1>2. SamplesTypeOK'
  BY <1>1 DEF ChainInv, SamplesTypeOK, Question, IsAzi
<1>3. SamplesInv'
  BY <1>1, SamplesInvNext DEF ChainInv, SamplesInv
<1> QED BY <1>2, <1>3 DEF ChainInv

LEMMA AnswerStep ==
  ASSUME ChainInv, IInv', UNCHANGED config, NEW c \in Chains, Answer(c)
  PROVE  ChainInv'
<1> DEFINE k == got[c] + 1
           reading == [asked |-> TRUE, angle |-> response'.angle, at |-> Where(k)]
<1>1. got[c] \in 0..3 /\ k \in 1..4 /\ job = Question(k) /\ TypeOK
  <2>1. got[c] \in 0..3 /\ job = Question(k)
    BY NoChainFacts DEF ChainInv, SamplesTypeOK, Answer
  <2> QED BY <2>1 DEF ChainInv, IInv
<1>2. reply # None /\ asking = c /\ Store(c, reading)
  BY DEF Answer, Receive
<1>3. response'.angle = Got(k, Where(k))
  <2>1. job.cmd = IF IsAzi(k) THEN "GET_AZI" ELSE "GET_ELE"
    BY <1>1 DEF Question
  <2> HIDE DEF k
  <2>2. reply = Bytes(Where(k))
    BY <1>2, <2>1 DEF ChainInv, IInv, ReplyInv, Where
  <2>3. response' = IF job.cmd = "GET_AZI" THEN [axis |-> "azi", angle |-> AziGot(reply)]
                                           ELSE [axis |-> "ele", angle |-> EleGot(reply)]
    BY DEF Answer, Receive
  <2> QED BY <2>1, <2>2, <2>3 DEF Got
<1>4. Where(k) \in Words16 /\ (IsAzi(k) => Where(k) <= 36000)
  BY <1>1, WhereType DEF ChainInv
<1> HIDE DEF k
<1>5. Got(k, Where(k)) \in Int
  BY <1>1, <1>4, GotType
<1>6. reading \in Reading /\ reading.at = Where(k) /\ reading.angle = Got(k, reading.at)
  BY <1>3, <1>4, <1>5 DEF Reading
<1> HIDE DEF reading
<1>7. /\ FromDevice(samples') /\ samples' \in [1..4 -> Reading]
      /\ got' \in [Chains -> 0..4 \cup {None}]
  BY <1>1, <1>2, <1>4, <1>6, StoreStep DEF k
<1>8. SamplesTypeOK'
  BY <1>7 DEF ChainInv, SamplesTypeOK, Answer
<1>9. SamplesInv'
  BY <1>7, SamplesInvNext DEF Answer
<1> QED BY <1>8, <1>9 DEF ChainInv

LEMMA DecideStep ==
  ASSUME ChainInv, IInv', UNCHANGED config, NEW c \in Chains, Decide(c)
  PROVE  ChainInv'
<1> USE DEF vars
<1>1. got \in [Chains -> 0..4 \cup {None}] /\ samples \in [1..4 -> Reading]
  BY DEF ChainInv, SamplesTypeOK
<1>2. /\ got' \in [Chains -> 0..4 \cup {None}]
      /\ \A d \in Chains : d # c => got'[d] = got[d]
  BY <1>1 DEF Decide
<1>3. asking # c
  BY NoChainFacts, Indices DEF ChainInv, SamplesTypeOK, Decide
<1>4. NeedReplay(samples) \in BOOLEAN
  BY DEF NeedReplay
<1>5. SamplesTypeOK'
  BY <1>1, <1>2, <1>3, <1>4 DEF ChainInv, SamplesTypeOK, Decide, Question, IsAzi
<1>6. SamplesInv'
  BY SamplesInvNext DEF ChainInv, SamplesInv, Decide
<1> QED BY <1>5, <1>6 DEF ChainInv

\* A question is answered or still in the worker's hands, whatever others do.
LEMMA OthersStep ==
  ASSUME ChainInv, IInv', UNCHANGED config, Others
  PROVE  ChainInv'
<1>1. UNCHANGED <<sampling, got, asking, samples>> /\ judged' = None
  BY DEF Others
<1>2. ASSUME asking # None
      PROVE  job' = job
  <2>1. got[asking] \in 0..3 /\ job = Question(got[asking] + 1)
    BY <1>2 DEF ChainInv, SamplesTypeOK
  <2>2. got[asking] + 1 \in 1..4
    BY <2>1
  <2>3. job \in Jobs /\ job.cmd \in Queries
    BY <2>1, <2>2, QuestionIsJob, Zenon DEF Question, Queries
  <2>4. job # None
    BY <2>3, NoneAssumption
  <2>5. Obey
    BY <1>2, <2>4 DEF Others, Send, Move
  <2>6. wire.op \in {81, 83}
    BY <2>3, <2>5, OpcodeIs DEF ChainInv, IInv, WireInv, Obey, Frame, Queries
  <2>7. \A n : Bytes(n) = [hi |-> n \div 256, lo |-> n % 256]
    BY DEF Bytes
  <2>8. reply' # None
    <3>1. position.azi \in Words16 /\ position.ele \in Words16
      BY DEF ChainInv, IInv, TypeOK, Places
    <3>2. Bytes(position.azi) # None /\ Bytes(position.ele) # None
      BY <3>1, BytesType, NoneAssumption, Zenon
    <3> QED BY <2>5, <2>6, <3>2 DEF Obey
  <2> QED BY <2>5, <2>8 DEF Obey
<1>3. SamplesTypeOK'
  BY <1>1, <1>2 DEF ChainInv, SamplesTypeOK, Question, IsAzi
<1>4. SamplesInv'
  BY <1>1, SamplesInvNext DEF ChainInv, SamplesInv
<1> QED BY <1>3, <1>4 DEF ChainInv

LEMMA SamplesInvariant == SamplesSpec => []ChainInv
<1>1. ASSUME ChainInv, [SamplesNext]_samplesVars
      PROVE  ChainInv'
  <2>1. [Next]_vars
    BY <1>1, ChainSteps
  <2>2. IInv' /\ UNCHANGED config
    BY <1>1, <2>1, CodecInvNext, ConfigStays DEF ChainInv
  <2>3. CASE UNCHANGED samplesVars
    <3>1. UNCHANGED <<job, sampling, got, asking, samples, judged>>
      BY <2>3 DEF samplesVars, vars, chain
    <3>2. SamplesTypeOK'
      BY <1>1, <3>1 DEF ChainInv, SamplesTypeOK, Question, IsAzi
    <3>3. SamplesInv'
      BY <1>1, <2>2, <3>1, SamplesInvNext DEF ChainInv, SamplesInv
    <3> QED BY <2>2, <3>2, <3>3 DEF ChainInv
  <2>4. ASSUME NEW c \in Chains,
               StartChain(c) \/ Fake(c) \/ Ask(c) \/ Answer(c) \/ Decide(c)
        PROVE  ChainInv'
    BY <1>1, <2>2, <2>4, StartChainStep, FakeStep, AskStep, AnswerStep, DecideStep
  <2>5. CASE Others
    BY <1>1, <2>2, <2>5, OthersStep
  <2> QED BY <1>1, <2>3, <2>4, <2>5 DEF SamplesNext
<1> QED BY SamplesInitHolds, <1>1, PTL DEF SamplesSpec

-------------------------------------------------------------------------------
(* What follows in every state of the invariant.                           *)

\* The shorter way around is the circle's distance.
LEMMA ShorterWay ==
  ASSUME NEW d \in Int, -Turn <= d, d <= Turn
  PROVE  Least(Turn - Dist(d), Dist(d)) = Least((-d) % Turn, Turn - ((-d) % Turn))
<1>1. (-d) % Turn = IF d = Turn \/ d = -Turn THEN 0 ELSE IF d > 0 THEN Turn - d ELSE -d
  BY TurnIs
<1> QED BY <1>1, TurnIs DEF Least, Dist

LEMMA VerdictHolds == ChainInv => VerdictRight
<1> SUFFICES ASSUME ChainInv, judged # None, \A i \in 1..4 : judged.samples[i].asked
             PROVE  /\ AtRest(judged.samples) => judged.replay
                    /\ ~signedChar /\ SlowTilt(judged.samples) =>
                         (judged.replay <=> Turned(judged.samples) < 5 * Deg)
  BY DEF VerdictRight
<1> DEFINE s == judged.samples
           p == s[1].at
           q == s[3].at
           e == s[2].at
           f == s[4].at
<1>1. 1 \in 1..4 /\ 2 \in 1..4 /\ 3 \in 1..4 /\ 4 \in 1..4
  OBVIOUS
<1>2. s \in [1..4 -> Reading] /\ FromDevice(s) /\ judged.replay = NeedReplay(s) /\ TypeOK
  BY DEF ChainInv, SamplesTypeOK, SamplesInv, IInv
<1>3. \A i \in 1..4 : s[i].asked
  OBVIOUS
<1> HIDE DEF s
<1>4. /\ p \in Words16 /\ q \in Words16 /\ e \in Words16 /\ f \in Words16
      /\ p <= 36000 /\ q <= 36000
      /\ s[1].angle = AziGot(Bytes(p)) /\ s[3].angle = AziGot(Bytes(q))
      /\ s[2].angle = EleGot(Bytes(e)) /\ s[4].angle = EleGot(Bytes(f))
  BY <1>1, <1>2, <1>3 DEF FromDevice, Got, IsAzi, Reading
<1>5. \A i \in 1..4 : s[i].angle \in Int
  BY <1>2 DEF Reading
<1>6. /\ p \in Int /\ 0 <= p /\ q \in Int /\ 0 <= q /\ e \in Int /\ f \in Int
  BY <1>4, WordsAre
<1>7. aziOffset \in Int /\ eleOffset \in Int
  BY <1>2, Offsets
<1>8. ASSUME AtRest(s)
      PROVE  judged.replay
  <2>1. s[1].angle = s[3].angle /\ s[2].angle = s[4].angle
    BY <1>4, <1>8 DEF AtRest
  <2>2. s[3].angle - s[1].angle = 0 /\ s[4].angle - s[2].angle = 0
    BY <1>1, <1>5, <2>1
  <2>3. DeltaAzi(s[1].angle, s[3].angle) = 0 /\ DeltaEle(s[2].angle, s[4].angle) = 0
    BY <2>2, TurnIs DEF DeltaAzi, DeltaEle, Least, Dist
  <2>4. NeedReplay(s)
    BY <2>3, TurnIs DEF NeedReplay
  <2> QED BY <1>2, <2>4, Zenon
<1>9. ASSUME ~signedChar, SlowTilt(s)
      PROVE  judged.replay <=> Turned(s) < 5 * Deg
  <2>1. /\ Raw(Bytes(p)) = p /\ Raw(Bytes(q)) = q /\ Raw(Bytes(e)) = e /\ Raw(Bytes(f)) = f
    BY <1>4, <1>9, RawOfBytes DEF Plain
  <2>2. /\ s[1].angle = 10 * p - aziOffset /\ s[2].angle = 90 * Deg - (10 * e - eleOffset)
        /\ s[3].angle = 10 * q - aziOffset /\ s[4].angle = 90 * Deg - (10 * f - eleOffset)
    BY <1>4, <2>1 DEF AziGot, EleGot
  <2> DEFINE d == 10 * q - 10 * p
             h == e - f
  <2>0. Turned(s) = Apart(10 * p, 10 * q) + 10 * Dist(h) /\ Dist(h) <= 4500
    BY <1>9 DEF Turned, SlowTilt
  <2> HIDE DEF p, q, e, f
  <2>3. s[3].angle - s[1].angle = d /\ s[4].angle - s[2].angle = 10 * h
    BY <1>6, <1>7, <2>2, TurnIs
  <2>4. d \in Int /\ -Turn <= d /\ d <= Turn /\ -d = 10 * p - 10 * q /\ h \in Int
    BY <1>4, <1>6, TurnIs
  <2> HIDE DEF d, h
  <2>5. DeltaAzi(s[1].angle, s[3].angle) = Least(Turn - Dist(d), Dist(d))
    BY <2>3 DEF DeltaAzi
  <2>6. Apart(10 * p, 10 * q) = Least(Turn - Dist(d), Dist(d))
    BY <2>4, ShorterWay DEF Apart
  <2>7. DeltaEle(s[2].angle, s[4].angle) = 10 * Dist(h)
    BY <2>0, <2>3, <2>4, TurnIs DEF DeltaEle, Dist, Least
  <2> DEFINE a == Least(Turn - Dist(d), Dist(d))
             b == 10 * Dist(h)
  <2>8. a \in Int /\ b \in Int
    BY <2>4, TurnIs DEF Dist, Least
  <2>9. NeedReplay(s) <=> b + a < 5 * Deg
    BY <2>5, <2>7 DEF NeedReplay
  <2>10. Turned(s) = a + b
    BY <2>0, <2>6
  <2> HIDE DEF a, b
  <2>11. NeedReplay(s) <=> Turned(s) < 5 * Deg
    BY <2>8, <2>9, <2>10, TurnIs
  <2> QED BY <1>2, <2>11, Zenon
<1> QED BY <1>8, <1>9 DEF s

-------------------------------------------------------------------------------
(* The theorems.                                                           *)

\* A question that reached the device is the next of its chain and stays in
\* the worker's hands until its answer is stored, however many chains share
\* the four members.
THEOREM SamplesTypeCorrect == SamplesSpec => []SamplesTypeOK
  BY SamplesInvariant, PTL DEF ChainInv

\* If all four samples are the device's, smartSink decides as the motor turned
\* between them, whichever chains they were taken for.
THEOREM VerdictIsRight == SamplesSpec => []VerdictRight
  BY SamplesInvariant, VerdictHolds, PTL
===============================================================================
