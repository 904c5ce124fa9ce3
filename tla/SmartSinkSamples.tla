--------------------------- MODULE SmartSinkSamples ---------------------------
(***************************************************************************)
(* What the chains of smartSink know of the motor when they decide about a *)
(* replay (CamPTZ::RequestImpl).                                           *)
(*                                                                         *)
(* A chain asks four questions by way of RequestImpl: azimuth and          *)
(* elevation, and both again a second later.  It has set smartSinkSampling *)
(* before the first of them, so RequestImpl answers them itself, with a    *)
(* response whose payload nobody has set.  Only while the end of a rival   *)
(* chain has taken the flag back does a question reach the device.  All    *)
(* chains keep their answers in the same four members.                     *)
(*                                                                         *)
(* When chains run, and what their replays lead to, is the subject of      *)
(* SmartSink.                                                              *)
(***************************************************************************)
EXTENDS CamPTZCodec

CONSTANTS
  Chains,      \* the threads that may pass the test of the flag together
  Garbage      \* the angles an unset payload or member may hold

ASSUME SamplesAssumption == Garbage \subseteq Int /\ None \notin Chains

VARIABLES
  sampling,    \* smartSinkSampling
  got,         \* how many answers each chain has had; None when it is over
  asking,      \* the chain whose question is on its way to the device
  samples,     \* smartSinkLastAzi, LastEle, ThisAzi, ThisEle
  judged       \* history: the decision just made, and the samples it is about

chain == <<sampling, got, asking, samples, judged>>
samplesVars == <<vars, chain>>

-------------------------------------------------------------------------------
(* The verdict.                                                            *)

\* Mutant: no second way around.
OneWay(p, q) == Dist(q - p)

\* deltaAzi and deltaEle of two angles.
DeltaAzi(p, q) == Least(Turn - Dist(q - p), Dist(q - p))
DeltaEle(p, q) == Least(90 * Deg - Dist(q - p), Dist(q - p))

NeedReplay(s) ==
  DeltaEle(s[2].angle, s[4].angle) + DeltaAzi(s[1].angle, s[3].angle) < 5 * Deg

-------------------------------------------------------------------------------
\* An angle, whether the device gave it, and where the axis was by then.
Reading == [asked : BOOLEAN, angle : Int, at : Words16]

\* The first and the third question are about the azimuth.
IsAzi(i)    == i \in {1, 3}
Question(i) == [cmd |-> IF IsAzi(i) THEN "GET_AZI" ELSE "GET_ELE", arg |-> 0]
Where(i)    == IF IsAzi(i) THEN position.azi ELSE position.ele
Faked(i, angle) == [asked |-> FALSE, angle |-> angle, at |-> Where(i)]

\* The chains' state has its type, and a question on its way is in the worker's
\* hands and is the next of its chain.
SamplesTypeOK ==
  /\ sampling \in BOOLEAN
  /\ got \in [Chains -> 0..4 \cup {None}]
  /\ asking \in Chains \cup {None}
  /\ asking # None => got[asking] \in 0..3 /\ job = Question(got[asking] + 1)
  /\ samples \in [1..4 -> Reading]
  /\ judged \in [samples : [1..4 -> Reading], replay : BOOLEAN] \cup {None}

SamplesInit ==
  /\ Init
  /\ sampling = FALSE
  /\ got = [c \in Chains |-> None]
  /\ asking = None
  /\ \E angle \in Garbage : samples = [i \in 1..4 |-> Faked(i, angle)]
  /\ judged = None

\* A repeated request passes the test and then sets the flag, which a rival may
\* have set in between.
StartChain(c) ==
  /\ got[c] = None
  /\ sampling' = TRUE
  /\ got' = [got EXCEPT ![c] = 0]
  /\ judged' = None
  /\ UNCHANGED <<vars, asking, samples>>

\* Mutant: a fifth question.
AsksOn(c) == got[c] # None /\ asking # c
Questioning(c) == got[c] \in 0..3 /\ asking # c

\* The callback of the chain stores the answer.
Store(c, reading) ==
  /\ samples' = [samples EXCEPT ![got[c] + 1] = reading]
  /\ got' = [got EXCEPT ![c] = got[c] + 1]

\* RequestImpl finds the flag set and makes the callback with respFake.
Fake(c) ==
  /\ Questioning(c) /\ sampling
  /\ \E angle \in Garbage : Store(c, Faked(got[c] + 1, angle))
  /\ judged' = None
  /\ UNCHANGED <<vars, sampling, asking>>

\* It finds the flag reset and pushes the question, which the worker sends.
Ask(c) ==
  /\ Questioning(c) /\ ~sampling
  /\ Send(Question(got[c] + 1))
  /\ asking' = c
  /\ judged' = None
  /\ UNCHANGED <<sampling, got, samples>>

\* The worker makes the callback.
Answer(c) ==
  /\ asking = c
  /\ Receive
  /\ Store(c, [asked |-> TRUE, angle |-> response'.angle, at |-> Where(got[c] + 1)])
  /\ asking' = None
  /\ judged' = None
  /\ UNCHANGED sampling

\* The last callback decides, and resets the flag.
Decide(c) ==
  /\ got[c] = 4
  /\ judged' = [samples |-> samples, replay |-> NeedReplay(samples)]
  /\ got' = [got EXCEPT ![c] = None]
  /\ sampling' = FALSE
  /\ UNCHANGED <<vars, asking, samples>>

\* Requests of others, the device and its motor.
Others ==
  /\ \/ \E j \in Jobs : Send(j)
     \/ Obey
     \/ asking = None /\ Receive
     \/ Move
  /\ judged' = None
  /\ UNCHANGED <<sampling, got, asking, samples>>

SamplesNext ==
  \/ \E c \in Chains : StartChain(c) \/ Fake(c) \/ Ask(c) \/ Answer(c) \/ Decide(c)
  \/ Others

SamplesSpec == SamplesInit /\ [][SamplesNext]_samplesVars

-------------------------------------------------------------------------------
(* Properties.                                                             *)

\* How far the motor turned between the samples.  No motor tilts by 45 degrees
\* in a second.
Turned(s)   == Apart(10 * s[1].at, 10 * s[3].at) + 10 * Dist(s[2].at - s[4].at)
SlowTilt(s) == Dist(s[2].at - s[4].at) <= 4500
AtRest(s)   == s[1].at = s[3].at /\ s[2].at = s[4].at

\* A verdict on four answers of the device, which takes a rival that reset the
\* flag, is a replay exactly when the motor turned by less than 5 degrees,
\* across north too; with a signed char at least when it stopped.
VerdictRight ==
  judged # None /\ (\A i \in 1..4 : judged.samples[i].asked) =>
    /\ AtRest(judged.samples) => judged.replay
    /\ ~signedChar /\ SlowTilt(judged.samples) =>
         (judged.replay <=> Turned(judged.samples) < 5 * Deg)

-------------------------------------------------------------------------------
(* What the repository says of this code and the code does not do.         *)

\* "test if the delta is sufficient; or we need to replay the request": the
\* request is replayed for a motor that stands still.
StoppedMeansReplay ==
  judged # None /\ AtRest(judged.samples) => judged.replay
===============================================================================
