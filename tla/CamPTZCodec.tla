----------------------------- MODULE CamPTZCodec ------------------------------
(***************************************************************************)
(* What the cases of CamPTZ::threadMain make of angles: the frames that    *)
(* are sent to the device and the angles that are read back from it.       *)
(* SmartSinkSamples adds the chains of smartSink that ask for them.        *)
(*                                                                         *)
(* Angles are integers, thousandths of a degree; the device counts in      *)
(* hundredths.  The errors of doubles below that are not modelled.  A      *)
(* frame is four of its seven bytes: the others are constant.              *)
(***************************************************************************)
EXTENDS Integers

CONSTANTS
  AziOffsets, EleOffsets,  \* the offsets that may be configured
  Azimuths, Elevations,    \* the angles that are requested
  Presets,                 \* the indices of presets
  Positions,               \* where the motor may be met on its way
  None                     \* no frame, no reply, no angle

Deg  == 1000
Turn == 360 * Deg

Bytes8  == 0..255
Words16 == 0..(256 * 256 - 1)

\* CamPTZ.hpp gives the ranges of the offsets, RotatorCommon.hpp means the
\* angles to be on the circle and from the horizon to the zenith.  No code
\* checks either.
ASSUME CodecAssumption ==
  /\ AziOffsets \subseteq (1 - Turn)..(Turn - 1)
  /\ EleOffsets \subseteq (1 - 90 * Deg)..(90 * Deg - 1)
  /\ Azimuths \subseteq 0..Turn
  /\ Elevations \subseteq 0..(90 * Deg)
  /\ Presets \subseteq Bytes8
  /\ Positions \subseteq [azi : 0..(36 * Deg - 1), ele : 0..(9 * Deg)]
  /\ None \notin Int

VARIABLES
  signedChar,  \* whether the compiler's char is signed: the build's choice
  aziOffset, eleOffset,
  job,         \* the request in the worker's hands
  wire,        \* the frame on its way to the device,
  reply,       \* and the reply's data bytes on their way back
  position,    \* where the device points, in its own hundredths
  presets,     \* the presets it holds
  response,    \* the angle last handed to a callback
  aim          \* history: the angles the device was sent to and stays at

config == <<signedChar, aziOffset, eleOffset>>
device == <<position, presets, aim>>
vars == <<config, job, wire, reply, device, response>>

-------------------------------------------------------------------------------
(* The arithmetic.                                                         *)

Dist(x) == IF x >= 0 THEN x ELSE -x
Least(x, y) == IF x <= y THEN x ELSE y

\* Mutant: the fraction is cut off, as a conversion to int does.
Truncate(x) == IF x >= 0 THEN x \div 10 ELSE -((-x) \div 10)

\* std::round of hundredths: halves go away from zero.
Round(x) == IF x >= 0 THEN (x + 5) \div 10 ELSE -((5 - x) \div 10)

\* Mutant: no wrap above.
WrapBelow(d) == IF d < 0 THEN d + Turn ELSE d
Wrap(d) == IF d < 0 THEN d + Turn ELSE IF d >= Turn THEN d - Turn ELSE d

AziInt(a) == Round(Wrap(a + aziOffset))
EleInt(e) == Round(90 * Deg - (e + eleOffset))

\* C's / and % go towards zero.
Quotient(n)  == IF n >= 0 THEN n \div 256 ELSE -((-n) \div 256)
Remainder(n) == n - 256 * Quotient(n)

\* Mutant: no conversion to char.
WholeInt(n) == n

\* (char) keeps the low byte.
Byte(n) == n % 256

Frame(op, n) ==
  LET hi == Byte(Quotient(n))
      lo == Byte(Remainder(n))
  IN  [op |-> op, hi |-> hi, lo |-> lo, sum |-> Byte(op + hi + lo)]

Opcode == [CHANGE_AZI |-> 75, CHANGE_ELE |-> 77, GET_AZI |-> 81, GET_ELE |-> 83,
           CAMPTZ_PRESET_SET |-> 3, CAMPTZ_PRESET_CLEAR |-> 5, CAMPTZ_PRESET_CALL |-> 7]

Data(j) ==
  CASE j.cmd = "CHANGE_AZI" -> AziInt(j.arg)
    [] j.cmd = "CHANGE_ELE" -> EleInt(j.arg)
    [] OTHER -> j.arg

\* A byte of the reply, as an operand of + and *.
Char(b) == IF signedChar /\ b >= 128 THEN b - 256 ELSE b
Raw(r) == 256 * Char(r.hi) + Char(r.lo)

\* Mutant: the offset is added where it is to be taken off.
AddsOffset(r) == 10 * Raw(r) + aziOffset

AziGot(r) == 10 * Raw(r) - aziOffset
EleGot(r) == 90 * Deg - (10 * Raw(r) - eleOffset)

-------------------------------------------------------------------------------
Jobs ==
  [cmd : {"CHANGE_AZI"}, arg : Azimuths] \cup [cmd : {"CHANGE_ELE"}, arg : Elevations]
    \cup [cmd : {"GET_AZI", "GET_ELE"}, arg : {0}]
    \cup [cmd : {"CAMPTZ_PRESET_CALL", "CAMPTZ_PRESET_SET", "CAMPTZ_PRESET_CLEAR"},
          arg : Presets]

ASSUME NoneAssumption == None \notin Jobs /\ None \notin [hi : Bytes8, lo : Bytes8]

\* The data bytes of a position.
Bytes(n) == [hi |-> n \div 256, lo |-> n % 256]

Places == [azi : Words16, ele : Words16]

\* Every variable has its type; what travels is made of bytes.
TypeOK ==
  /\ signedChar \in BOOLEAN
  /\ aziOffset \in AziOffsets /\ eleOffset \in EleOffsets
  /\ job \in Jobs \cup {None}
  /\ wire \in [op : Bytes8, hi : Bytes8, lo : Bytes8, sum : Bytes8] \cup {None}
  /\ reply \in [hi : Bytes8, lo : Bytes8] \cup {None}
  /\ position \in Places
  /\ presets \subseteq Bytes8
  /\ response \in [axis : {"azi", "ele"}, angle : Int] \cup {None}
  /\ aim \in [azi : Azimuths \cup {None}, ele : Elevations \cup {None}]

Init ==
  /\ signedChar \in BOOLEAN
  /\ aziOffset \in AziOffsets /\ eleOffset \in EleOffsets
  /\ job = None /\ wire = None /\ reply = None
  /\ position \in Positions
  /\ presets \in SUBSET Presets
  /\ response = None
  /\ aim = [azi |-> None, ele |-> None]

-------------------------------------------------------------------------------
(* The worker.                                                             *)

\* Every case begins with a frame.
Send(j) ==
  /\ job = None
  /\ job' = j
  /\ wire' = Frame(Opcode[j.cmd], Data(j))
  /\ response' = None
  /\ UNCHANGED <<config, reply, device>>

\* GET_AZI and GET_ELE end with the reply.
Receive ==
  /\ reply # None
  /\ response' = IF job.cmd = "GET_AZI" THEN [axis |-> "azi", angle |-> AziGot(reply)]
                                        ELSE [axis |-> "ele", angle |-> EleGot(reply)]
  /\ job' = None /\ reply' = None
  /\ UNCHANGED <<config, wire, device>>

-------------------------------------------------------------------------------
(* The device, which reads big-endian words and ignores a wrong sum.       *)

Obey ==
  /\ wire # None
  /\ wire.sum = (wire.op + wire.hi + wire.lo) % 256
  /\ LET n == 256 * wire.hi + wire.lo IN
     /\ position' = CASE wire.op = 75 -> [position EXCEPT !.azi = n]
                      [] wire.op = 77 -> [position EXCEPT !.ele = n]
                      [] OTHER -> position
     /\ presets' = CASE wire.op = 3 -> presets \cup {wire.lo}
                     [] wire.op = 5 -> presets \ {wire.lo}
                     [] OTHER -> presets
     /\ reply' = CASE wire.op = 81 -> Bytes(position.azi)
                   [] wire.op = 83 -> Bytes(position.ele)
                   [] OTHER -> None
  /\ aim' = CASE job.cmd = "CHANGE_AZI" -> [aim EXCEPT !.azi = job.arg]
              [] job.cmd = "CHANGE_ELE" -> [aim EXCEPT !.ele = job.arg]
              [] OTHER -> aim
  /\ wire' = None
  /\ job' = IF reply' = None THEN None ELSE job
  /\ UNCHANGED <<config, response>>

\* The motor is on its way, or was moved by a preset or by hand.
Move ==
  /\ job = None
  /\ position' \in Positions
  /\ aim' = [azi |-> None, ele |-> None]
  /\ response' = None
  /\ UNCHANGED <<config, job, wire, reply, presets>>

Next ==
  \/ \E j \in Jobs : Send(j)
  \/ Obey \/ Receive
  \/ Move

Spec == Init /\ [][Next]_vars

-------------------------------------------------------------------------------
(* Properties.                                                             *)

\* The circle's distance between two angles, and a rounding error.
Apart(x, y) == LET d == (x - y) % Turn IN Least(d, Turn - d)
Near(x, y)  == Dist(x - y) <= 5

\* Wherever the offsets take it, the device goes where it was sent: azimuths
\* by way of wrap, rounding and two bytes, elevations as long as the offset
\* does not take them beyond the zenith.
DeviceGoesToTarget ==
  /\ aim.azi # None => Apart(10 * position.azi, aim.azi + aziOffset) <= 5
  /\ aim.ele # None /\ aim.ele + eleOffset <= 90 * Deg =>
       Near(10 * position.ele, 90 * Deg - (aim.ele + eleOffset))

\* The azimuth read back is, full turns aside, the one commanded, if bytes are
\* not negative: for a signed char up to 127 in both.
Plain(n) == ~signedChar \/ (n \div 256 < 128 /\ n % 256 < 128)
AziReadBack ==
  response # None /\ response.axis = "azi" /\ aim.azi # None /\ Plain(position.azi)
    => Apart(response.angle, aim.azi) <= 5
===============================================================================
