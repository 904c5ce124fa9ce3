--------------------------- MODULE CamPTZCodecProofs ---------------------------
(***************************************************************************)
(* Proofs about CamPTZCodec, for all angles and offsets in their ranges    *)
(* and for either kind of char.                                            *)
(*                                                                         *)
(* The arithmetic comes first, as lemmas about integers; the invariant     *)
(* then says that what travels is what the formulas make of the job in     *)
(* hand and of the device's position.                                      *)
(***************************************************************************)
EXTENDS CamPTZCodec, TLAPS

-------------------------------------------------------------------------------
(* The inductive invariant.                                                *)

Queries == {"GET_AZI", "GET_ELE"}

\* A frame is its job's, and with it on its way nothing was answered yet.
WireInv ==
  wire # None =>
    /\ job \in Jobs
    /\ wire = Frame(Opcode[job.cmd], Data(job))
    /\ reply = None /\ response = None

\* A reply is about the position, which stays as long as the job does.
ReplyInv ==
  reply # None =>
    /\ job \in Jobs /\ job.cmd \in Queries
    /\ job.cmd = "GET_AZI" => reply = Bytes(position.azi)
    /\ job.cmd = "GET_ELE" => reply = Bytes(position.ele)
    /\ response = None

ResponseInv ==
  response # None /\ response.axis = "azi" => response.angle = AziGot(Bytes(position.azi))

\* The device never points beyond the full turn.
PositionInv == position.azi <= 36000

IInv ==
  /\ TypeOK /\ WireInv /\ ReplyInv /\ ResponseInv /\ PositionInv
  /\ DeviceGoesToTarget

-------------------------------------------------------------------------------
(* The arithmetic, with bounds as inequalities.                            *)

LEMMA IntervalFacts == \A i, j \in Int : \A k : k \in i..j <=> k \in Int /\ i <= k /\ k <= j
  OBVIOUS

LEMMA BytesAre == \A k : k \in Bytes8 <=> k \in Int /\ 0 <= k /\ k <= 255
<1>1. 0 \in Int /\ 255 \in Int
  OBVIOUS
<1> QED BY <1>1, IntervalFacts, Zenon DEF Bytes8

LEMMA WordsAre == \A k : k \in Words16 <=> k \in Int /\ 0 <= k /\ k <= 65535
<1> DEFINE top == 256 * 256 - 1
<1>1. top = 65535
  OBVIOUS
<1>2. Words16 = 0..top
  BY Zenon DEF Words16
<1> HIDE DEF top
<1>3. top \in Int
  BY <1>1
<1>4. 0 \in Int
  OBVIOUS
<1>5. \A k : k \in 0..top <=> k \in Int /\ 0 <= k /\ k <= top
  BY <1>3, <1>4, IntervalFacts, Zenon
<1>6. \A k : k \in Words16 <=> k \in Int /\ 0 <= k /\ k <= top
  BY <1>2, <1>5, Zenon
<1> QED BY <1>1, <1>6

LEMMA TurnIs == Turn = 360000 /\ Deg = 1000
  BY DEF Turn, Deg

LEMMA BytesOfInt ==
  ASSUME NEW n \in Int
  PROVE  Byte(Quotient(n)) \in Bytes8 /\ Byte(Remainder(n)) \in Bytes8
<1>1. Quotient(n) \in Int
  BY DEF Quotient
<1>2. Remainder(n) \in Int
  BY <1>1 DEF Remainder
<1>3. \A k \in Int : k % 256 \in Int /\ 0 <= k % 256 /\ k % 256 <= 255
  OBVIOUS
<1> QED BY <1>1, <1>2, <1>3, BytesAre DEF Byte

\* A word that is not negative survives the way through two chars.
LEMMA WordKept ==
  ASSUME NEW n \in Words16
  PROVE  256 * Byte(Quotient(n)) + Byte(Remainder(n)) = n
<1>1. n \in Int /\ 0 <= n /\ n <= 65535
  BY WordsAre
<1> DEFINE q == n \div 256
<1>2. q \in Int /\ 0 <= q /\ q <= 255 /\ 0 <= n - 256 * q /\ n - 256 * q <= 255
  BY <1>1
<1>3. Quotient(n) = q /\ Remainder(n) = n - 256 * q
  BY <1>1 DEF Quotient, Remainder
<1>4. \A k \in Int : 0 <= k /\ k <= 255 => k % 256 = k
  OBVIOUS
<1> HIDE DEF q
<1>5. Byte(q) = q /\ Byte(n - 256 * q) = n - 256 * q
  BY <1>1, <1>2, <1>4 DEF Byte
<1> QED BY <1>1, <1>2, <1>3, <1>5

LEMMA FrameType ==
  ASSUME NEW op \in Bytes8, NEW n \in Int
  PROVE  Frame(op, n) \in [op : Bytes8, hi : Bytes8, lo : Bytes8, sum : Bytes8]
<1> DEFINE hi == Byte(Quotient(n))
           lo == Byte(Remainder(n))
<1>1. hi \in Bytes8 /\ lo \in Bytes8
  BY BytesOfInt
<1>2. Byte(op + hi + lo) \in Bytes8
  <2> HIDE DEF hi, lo
  <2>1. op + hi + lo \in Int
    BY <1>1, BytesAre
  <2>2. \A k \in Int : k % 256 \in Int /\ 0 <= k % 256 /\ k % 256 <= 255
    OBVIOUS
  <2> QED BY <2>1, <2>2, BytesAre DEF Byte
<1>3. Frame(op, n) = [op |-> op, hi |-> hi, lo |-> lo, sum |-> Byte(op + hi + lo)]
  BY DEF Frame
<1> HIDE DEF hi, lo
<1> QED BY <1>1, <1>2, <1>3

LEMMA BytesType ==
  ASSUME NEW n \in Words16
  PROVE  Bytes(n) \in [hi : Bytes8, lo : Bytes8]
<1>1. n \in Int /\ 0 <= n /\ n <= 65535
  BY WordsAre
<1>2. n \div 256 \in Int /\ 0 <= n \div 256 /\ n \div 256 <= 255
  BY <1>1
<1>3. n % 256 \in Int /\ 0 <= n % 256 /\ n % 256 <= 255
  BY <1>1
<1> QED BY <1>2, <1>3, BytesAre DEF Bytes

\* As far as bytes are not negative, the reply says where the device is.
LEMMA RawOfBytes ==
  ASSUME NEW n \in Words16, Plain(n)
  PROVE  Raw(Bytes(n)) = n
<1>1. n \in Int /\ 0 <= n
  BY WordsAre
<1>2. Bytes(n).hi = n \div 256 /\ Bytes(n).lo = n % 256
  BY DEF Bytes
<1>3. Char(n \div 256) = n \div 256 /\ Char(n % 256) = n % 256
  BY <1>1 DEF Char, Plain
<1>4. 256 * (n \div 256) + (n % 256) = n
  BY <1>1
<1> QED BY <1>2, <1>3, <1>4 DEF Raw

LEMMA RawType ==
  ASSUME NEW r \in [hi : Bytes8, lo : Bytes8]
  PROVE  Raw(r) \in Int
<1>1. r.hi \in Int /\ r.lo \in Int
  BY BytesAre
<1>2. Char(r.hi) \in Int /\ Char(r.lo) \in Int
  BY <1>1 DEF Char
<1> QED BY <1>2 DEF Raw

\* Two angles that differ by a rounding error and at most one turn.
LEMMA ApartFacts ==
  ASSUME NEW x \in Int, NEW y \in Int, NEW e \in Int, -5 <= e, e <= 5,
         x - y = e \/ x - y = e + Turn \/ x - y = e - Turn
  PROVE  Apart(x, y) <= 5
<1>1. (x - y) % Turn = IF e >= 0 THEN e ELSE e + Turn
  BY TurnIs
<1> QED BY <1>1, TurnIs DEF Apart, Least

\* Azimuths: by way of wrap and rounding, the circle's distance is a rounding error.
LEMMA AziSent ==
  ASSUME NEW a \in Int, 0 <= a, a <= Turn,
         aziOffset \in Int, -Turn < aziOffset, aziOffset < Turn
  PROVE  /\ AziInt(a) \in Int /\ 0 <= AziInt(a) /\ AziInt(a) <= 36000
         /\ Apart(10 * AziInt(a), a + aziOffset) <= 5
<1> DEFINE d == a + aziOffset
           w == Wrap(d)
           n == Round(w)
<1>1. d \in Int /\ -Turn < d /\ d < 2 * Turn
  BY TurnIs
<1> HIDE DEF d
<1>2. w \in Int /\ 0 <= w /\ w < Turn /\ (w = d \/ w = d + Turn \/ w = d - Turn)
  BY <1>1, TurnIs DEF Wrap
<1>3. n = (w + 5) \div 10
  BY <1>2 DEF Round
<1> HIDE DEF n, w
<1>4. n \in Int /\ 0 <= n /\ n <= 36000 /\ -5 <= 10 * n - w /\ 10 * n - w <= 5
  BY <1>2, <1>3, TurnIs
<1> DEFINE e == 10 * n - w
<1>5. e \in Int /\ -5 <= e /\ e <= 5
  BY <1>2, <1>4
<1>6. 10 * n - d = e \/ 10 * n - d = e + Turn \/ 10 * n - d = e - Turn
  BY <1>1, <1>2, <1>4, TurnIs
<1> HIDE DEF e
<1>7. 10 * n \in Int /\ d \in Int
  BY <1>1, <1>4
<1>8. Apart(10 * n, d) <= 5
  BY <1>5, <1>6, <1>7, ApartFacts
<1> QED BY <1>4, <1>8 DEF AziInt, n, w, d

\* Elevations that the offset does not take beyond the zenith.
LEMMA EleSent ==
  ASSUME NEW e \in Int, 0 <= e, e <= 90 * Deg,
         eleOffset \in Int, -(90 * Deg) < eleOffset, eleOffset < 90 * Deg
  PROVE  /\ EleInt(e) \in Int
         /\ e + eleOffset <= 90 * Deg =>
              /\ EleInt(e) \in Words16
              /\ Near(10 * EleInt(e), 90 * Deg - (e + eleOffset))
<1> DEFINE x == 90 * Deg - (e + eleOffset)
           n == Round(x)
<1>1. x \in Int /\ x < 180000 /\ (e + eleOffset <= 90 * Deg => x >= 0)
  BY TurnIs
<1> HIDE DEF x
<1>2. n \in Int
  BY <1>1 DEF Round
<1>3. ASSUME x >= 0
      PROVE  n \in Words16 /\ Dist(10 * n - x) <= 5
  <2>1. n = (x + 5) \div 10
    BY <1>1, <1>3 DEF Round
  <2> HIDE DEF n
  <2>2. n \in Int /\ 0 <= n /\ n <= 65535 /\ -5 <= 10 * n - x /\ 10 * n - x <= 5
    BY <1>1, <1>3, <2>1
  <2>3. 10 * n - x \in Int
    BY <1>1, <2>2
  <2> QED BY <2>2, <2>3, WordsAre DEF Dist
<1> HIDE DEF n
<1> QED BY <1>1, <1>2, <1>3 DEF EleInt, Near, n, x

-------------------------------------------------------------------------------
(* What the assumptions say of the constants.                              *)

LEMMA Domains ==
  /\ \A a \in AziOffsets : a \in Int /\ -Turn < a /\ a < Turn
  /\ \A e \in EleOffsets : e \in Int /\ -(90 * Deg) < e /\ e < 90 * Deg
  /\ \A a \in Azimuths : a \in Int /\ 0 <= a /\ a <= Turn
  /\ \A e \in Elevations : e \in Int /\ 0 <= e /\ e <= 90 * Deg
  /\ Presets \subseteq Bytes8
<1> DEFINE t == Turn
           z == 90 * Deg
<1>0. t \in Int /\ z \in Int /\ 1 - t \in Int /\ t - 1 \in Int /\ 1 - z \in Int /\ z - 1 \in Int
  BY TurnIs
<1>1. /\ AziOffsets \subseteq (1 - t)..(t - 1)
      /\ EleOffsets \subseteq (1 - z)..(z - 1)
      /\ Azimuths \subseteq 0..t
      /\ Elevations \subseteq 0..z
      /\ Presets \subseteq Bytes8
  BY CodecAssumption, Zenon
<1> HIDE DEF t, z
<1>2. /\ \A a \in AziOffsets : a \in Int /\ -t < a /\ a < t
      /\ \A e \in EleOffsets : e \in Int /\ -z < e /\ e < z
      /\ \A a \in Azimuths : a \in Int /\ 0 <= a /\ a <= t
      /\ \A e \in Elevations : e \in Int /\ 0 <= e /\ e <= z
  BY <1>0, <1>1
<1> QED BY <1>1, <1>2, Zenon DEF t, z

LEMMA PositionFacts == \A p \in Positions : p \in Places /\ p.azi <= 36000
<1> DEFINE a == 36 * Deg - 1
           e == 9 * Deg
<1>1. a = 35999 /\ e = 9000
  BY TurnIs
<1>2. Positions \subseteq [azi : 0..a, ele : 0..e]
  BY CodecAssumption, Zenon
<1> HIDE DEF a, e
<1>3. \A k : (k \in 0..a => k \in Int /\ 0 <= k /\ k <= a)
          /\ (k \in 0..e => k \in Int /\ 0 <= k /\ k <= e)
  <2>1. a \in Int /\ e \in Int /\ 0 \in Int
    BY <1>1
  <2> QED BY <2>1, IntervalFacts, Zenon
<1>4. SUFFICES ASSUME NEW p \in Positions PROVE p \in Places /\ p.azi <= 36000
  OBVIOUS
<1>5. p = [azi |-> p.azi, ele |-> p.ele] /\ p.azi \in 0..a /\ p.ele \in 0..e
  BY <1>2
<1>6. p.azi \in Int /\ 0 <= p.azi /\ p.azi <= a /\ p.ele \in Int /\ 0 <= p.ele /\ p.ele <= e
  BY <1>3, <1>5, Zenon
<1>7. p.azi \in Words16 /\ p.ele \in Words16 /\ p.azi <= 36000
  BY <1>1, <1>6, WordsAre
<1> QED BY <1>5, <1>7 DEF Places

LEMMA OpcodeIs ==
  /\ Opcode["CHANGE_AZI"] = 75 /\ Opcode["CHANGE_ELE"] = 77
  /\ Opcode["GET_AZI"] = 81 /\ Opcode["GET_ELE"] = 83
  /\ Opcode["CAMPTZ_PRESET_SET"] = 3 /\ Opcode["CAMPTZ_PRESET_CLEAR"] = 5
  /\ Opcode["CAMPTZ_PRESET_CALL"] = 7
  BY DEF Opcode

LEMMA JobKinds ==
  ASSUME NEW j \in Jobs
  PROVE  \/ j.cmd = "CHANGE_AZI" /\ j.arg \in Azimuths
         \/ j.cmd = "CHANGE_ELE" /\ j.arg \in Elevations
         \/ j.cmd \in Queries /\ j.arg = 0
         \/ /\ j.cmd \in {"CAMPTZ_PRESET_CALL", "CAMPTZ_PRESET_SET", "CAMPTZ_PRESET_CLEAR"}
            /\ j.arg \in Bytes8
  BY Domains DEF Jobs, Queries

LEMMA Offsets ==
  ASSUME TypeOK
  PROVE  /\ aziOffset \in Int /\ -Turn < aziOffset /\ aziOffset < Turn
         /\ eleOffset \in Int /\ -(90 * Deg) < eleOffset /\ eleOffset < 90 * Deg
  BY Domains, Zenon DEF TypeOK

LEMMA JobFrame ==
  ASSUME TypeOK, NEW j \in Jobs
  PROVE  Opcode[j.cmd] \in Bytes8 /\ Data(j) \in Int
<1>1. Opcode[j.cmd] \in Bytes8
  BY OpcodeIs, JobKinds, BytesAre DEF Queries
<1>2. CASE j.cmd = "CHANGE_AZI"
  <2>1. j.arg \in Int /\ 0 <= j.arg /\ j.arg <= Turn
    BY <1>2, JobKinds, Domains DEF Queries
  <2>2. AziInt(j.arg) \in Int
    BY <2>1, Offsets, AziSent
  <2> QED BY <1>1, <1>2, <2>2 DEF Data
<1>3. CASE j.cmd = "CHANGE_ELE"
  <2>1. j.arg \in Int /\ 0 <= j.arg /\ j.arg <= 90 * Deg
    BY <1>3, JobKinds, Domains DEF Queries
  <2>2. EleInt(j.arg) \in Int
    BY <2>1, Offsets, EleSent
  <2> QED BY <1>1, <1>3, <2>2 DEF Data
<1>4. CASE j.cmd # "CHANGE_AZI" /\ j.cmd # "CHANGE_ELE"
  <2>1. j.arg \in Int
    BY <1>4, JobKinds, BytesAre
  <2> QED BY <1>1, <1>4, <2>1 DEF Data
<1> QED BY <1>2, <1>3, <1>4

-------------------------------------------------------------------------------
(* The first state, and the steps one by one.                              *)

LEMMA InitHolds == Init => IInv
<1> SUFFICES ASSUME Init PROVE IInv
  OBVIOUS
<1>1. TypeOK
  BY PositionFacts, Domains DEF Init, TypeOK
<1>2. PositionInv
  BY PositionFacts DEF Init, PositionInv
<1> QED BY <1>1, <1>2
        DEF Init, IInv, WireInv, ReplyInv, ResponseInv, DeviceGoesToTarget

LEMMA SendStep ==
  ASSUME IInv, NEW j \in Jobs, Send(j)
  PROVE  IInv'
<1> USE DEF config, device
<1>1. Opcode[j.cmd] \in Bytes8 /\ Data(j) \in Int
  BY JobFrame DEF IInv
<1>2. wire' \in [op : Bytes8, hi : Bytes8, lo : Bytes8, sum : Bytes8]
  BY <1>1, FrameType DEF Send
<1>3. TypeOK'
  BY <1>2 DEF IInv, TypeOK, Send
<1>4. reply = None
  BY NoneAssumption DEF IInv, ReplyInv, Send
<1>5. WireInv' /\ ReplyInv' /\ ResponseInv'
  BY <1>4 DEF Send, WireInv, ReplyInv, ResponseInv, Frame, Data, AziInt, EleInt
<1>6. PositionInv' /\ DeviceGoesToTarget'
  BY DEF IInv, Send, PositionInv, DeviceGoesToTarget
<1> QED BY <1>3, <1>5, <1>6 DEF IInv

LEMMA ReceiveStep ==
  ASSUME IInv, Receive
  PROVE  IInv'
<1> USE DEF config, device
<1>1. reply \in [hi : Bytes8, lo : Bytes8] /\ job \in Jobs
  BY DEF IInv, TypeOK, ReplyInv, Receive
<1>2. AziGot(reply) \in Int /\ EleGot(reply) \in Int
  <2>1. Raw(reply) \in Int
    BY <1>1, RawType
  <2> QED BY <2>1, Offsets, TurnIs DEF IInv, AziGot, EleGot
<1>3. response' \in [axis : {"azi", "ele"}, angle : Int]
  BY <1>2 DEF Receive
<1>4. TypeOK'
  BY <1>3 DEF IInv, TypeOK, Receive
<1>5. wire = None
  BY DEF IInv, WireInv, Receive
<1>6. job.cmd = "GET_AZI" => reply = Bytes(position.azi)
  BY DEF IInv, ReplyInv, Receive
<1>7. ResponseInv'
  <2>1. aziOffset' = aziOffset /\ signedChar' = signedChar /\ position' = position
    BY DEF Receive
  <2>2. AziGot(Bytes(position.azi))' = AziGot(Bytes(position.azi))
    BY <2>1 DEF AziGot, Raw, Char, Bytes
  <2>3. CASE job.cmd = "GET_AZI"
    BY <1>6, <2>2, <2>3 DEF Receive, ResponseInv
  <2>4. CASE job.cmd # "GET_AZI"
    BY <2>4 DEF Receive, ResponseInv
  <2> QED BY <2>3, <2>4
<1>8. WireInv' /\ ReplyInv'
  BY <1>5 DEF Receive, WireInv, ReplyInv
<1>9. PositionInv' /\ DeviceGoesToTarget'
  BY DEF IInv, Receive, PositionInv, DeviceGoesToTarget
<1> QED BY <1>4, <1>7, <1>8, <1>9 DEF IInv

LEMMA MoveStep ==
  ASSUME IInv, Move
  PROVE  IInv'
<1> USE DEF config, device
<1>1. position' \in Places /\ position'.azi <= 36000
  BY PositionFacts DEF Move
<1>2. TypeOK'
  BY <1>1 DEF IInv, TypeOK, Move
<1>3. wire = None /\ reply = None
  BY NoneAssumption DEF IInv, WireInv, ReplyInv, Move
<1>4. WireInv' /\ ReplyInv' /\ ResponseInv'
  BY <1>3 DEF Move, WireInv, ReplyInv, ResponseInv
<1>5. PositionInv' /\ DeviceGoesToTarget'
  BY <1>1 DEF Move, PositionInv, DeviceGoesToTarget
<1> QED BY <1>2, <1>4, <1>5 DEF IInv

LEMMA StutterStep ==
  ASSUME IInv, UNCHANGED vars
  PROVE  IInv'
<1> USE DEF vars, config, device
<1>1. TypeOK' /\ PositionInv' /\ DeviceGoesToTarget' /\ ReplyInv'
  BY DEF IInv, TypeOK, PositionInv, DeviceGoesToTarget, ReplyInv
<1>2. WireInv'
  BY DEF IInv, WireInv, Frame, Data, AziInt, EleInt
<1>3. ResponseInv'
  BY DEF IInv, ResponseInv, AziGot, Raw, Char, Bytes
<1> QED BY <1>1, <1>2, <1>3 DEF IInv

\* What the device makes of a frame.
LEMMA ObeyStep ==
  ASSUME IInv, Obey
  PROVE  IInv'
<1> USE DEF config, device
<1> DEFINE n == 256 * wire.hi + wire.lo
<1>1. /\ job \in Jobs /\ wire = Frame(Opcode[job.cmd], Data(job))
      /\ reply = None /\ response = None
      /\ wire \in [op : Bytes8, hi : Bytes8, lo : Bytes8, sum : Bytes8]
      /\ TypeOK
  BY DEF IInv, TypeOK, WireInv, Obey
<1>2. /\ wire.op = Opcode[job.cmd]
      /\ wire.hi = Byte(Quotient(Data(job))) /\ wire.lo = Byte(Remainder(Data(job)))
  BY <1>1 DEF Frame
<1>3. n \in Words16
  <2>1. wire.hi \in Bytes8 /\ wire.lo \in Bytes8
    BY <1>1
  <2> QED BY <2>1, BytesAre, WordsAre
<1>4. Bytes(position.azi) \in [hi : Bytes8, lo : Bytes8]
        /\ Bytes(position.ele) \in [hi : Bytes8, lo : Bytes8]
  <2>1. position.azi \in Words16 /\ position.ele \in Words16
    BY <1>1 DEF TypeOK, Places
  <2> QED BY <2>1, BytesType
<1>5. ASSUME /\ position' \in Places /\ position'.azi <= 36000
             /\ presets' \subseteq Bytes8
             /\ reply' # None =>
                  /\ reply' \in [hi : Bytes8, lo : Bytes8]
                  /\ job.cmd \in Queries
                  /\ job.cmd = "GET_AZI" => reply' = Bytes(position'.azi)
                  /\ job.cmd = "GET_ELE" => reply' = Bytes(position'.ele)
             /\ aim' \in [azi : Azimuths \cup {None}, ele : Elevations \cup {None}]
             /\ DeviceGoesToTarget'
      PROVE  IInv'
  <2>0. /\ wire' = None /\ job' = IF reply' = None THEN None ELSE job
        /\ UNCHANGED <<signedChar, aziOffset, eleOffset, response>>
    BY DEF Obey
  <2>1. TypeOK'
    <3>1. job' \in Jobs \cup {None} /\ reply' \in [hi : Bytes8, lo : Bytes8] \cup {None}
      BY <1>1, <1>5, <2>0
    <3> QED BY <1>1, <1>5, <2>0, <3>1 DEF TypeOK
  <2>2. WireInv' /\ PositionInv'
    BY <1>5, <2>0 DEF WireInv, PositionInv
  <2>3. ReplyInv' /\ ResponseInv'
    <3>1. response' = None /\ (reply' # None => job' = job)
      BY <1>1, <2>0
    <3>2. ReplyInv'
      <4>1. \A r : Bytes(r)' = Bytes(r)
        BY DEF Bytes
      <4> QED BY <1>1, <1>5, <3>1, <4>1 DEF ReplyInv, Bytes
    <3> QED BY <3>1, <3>2 DEF ResponseInv
  <2> QED BY <1>5, <2>1, <2>2, <2>3 DEF IInv
<1> HIDE DEF n
<1>6. CASE job.cmd = "CHANGE_AZI"
  <2>1. wire.op = 75 /\ Data(job) = AziInt(job.arg) /\ job.arg \in Azimuths
    BY <1>1, <1>2, <1>6, OpcodeIs, JobKinds DEF Data, Queries
  <2>2. job.arg \in Int /\ 0 <= job.arg /\ job.arg <= Turn
    BY <2>1, Domains
  <2>3. /\ AziInt(job.arg) \in Int /\ 0 <= AziInt(job.arg) /\ AziInt(job.arg) <= 36000
        /\ Apart(10 * AziInt(job.arg), job.arg + aziOffset) <= 5
    BY <1>1, <2>2, Offsets, AziSent
  <2>4. AziInt(job.arg) \in Words16
    BY <2>3, WordsAre
  <2>5. n = AziInt(job.arg)
    BY <1>2, <2>1, <2>4, WordKept DEF n
  <2>6. /\ position' = [position EXCEPT !.azi = n] /\ presets' = presets /\ reply' = None
        /\ aim' = [aim EXCEPT !.azi = job.arg]
    BY <1>6, <2>1 DEF Obey, n
  <2>7. position' \in Places /\ position'.azi = n /\ position'.ele = position.ele
    BY <1>1, <1>3, <2>6 DEF TypeOK, Places
  <2>8. /\ aim' \in [azi : Azimuths \cup {None}, ele : Elevations \cup {None}]
        /\ aim'.azi = job.arg /\ aim'.ele = aim.ele
    BY <1>1, <2>1, <2>6 DEF TypeOK
  <2>9. DeviceGoesToTarget'
    BY <2>3, <2>5, <2>7, <2>8 DEF IInv, DeviceGoesToTarget, Obey
  <2> QED BY <1>1, <1>5, <2>3, <2>5, <2>6, <2>7, <2>8, <2>9 DEF TypeOK
<1>7. CASE job.cmd = "CHANGE_ELE"
  <2>1. wire.op = 77 /\ Data(job) = EleInt(job.arg) /\ job.arg \in Elevations
    BY <1>1, <1>2, <1>7, OpcodeIs, JobKinds DEF Data, Queries
  <2>2. job.arg \in Int /\ 0 <= job.arg /\ job.arg <= 90 * Deg
    BY <2>1, Domains
  <2>3. job.arg + eleOffset <= 90 * Deg =>
          /\ EleInt(job.arg) \in Words16
          /\ Near(10 * EleInt(job.arg), 90 * Deg - (job.arg + eleOffset))
    BY <1>1, <2>2, Offsets, EleSent
  <2>4. job.arg + eleOffset <= 90 * Deg => n = EleInt(job.arg)
    BY <1>2, <2>1, <2>3, WordKept DEF n
  <2>5. /\ position' = [position EXCEPT !.ele = n] /\ presets' = presets /\ reply' = None
        /\ aim' = [aim EXCEPT !.ele = job.arg]
    BY <1>7, <2>1 DEF Obey, n
  <2>6. position' \in Places /\ position'.azi = position.azi /\ position'.ele = n
    BY <1>1, <1>3, <2>5 DEF TypeOK, Places
  <2>7. /\ aim' \in [azi : Azimuths \cup {None}, ele : Elevations \cup {None}]
        /\ aim'.azi = aim.azi /\ aim'.ele = job.arg
    BY <1>1, <2>1, <2>5 DEF TypeOK
  <2>8. DeviceGoesToTarget'
    BY <2>3, <2>4, <2>6, <2>7 DEF IInv, DeviceGoesToTarget, Obey
  <2>9. position'.azi <= 36000
    BY <2>6 DEF IInv, PositionInv
  <2> QED BY <1>1, <1>5, <2>5, <2>6, <2>7, <2>8, <2>9 DEF TypeOK
<1>8. CASE job.cmd # "CHANGE_AZI" /\ job.cmd # "CHANGE_ELE"
  <2>1. wire.op # 75 /\ wire.op # 77
    BY <1>1, <1>2, <1>8, OpcodeIs, JobKinds DEF Queries
  <2>2. position' = position /\ aim' = aim
    BY <1>8, <2>1 DEF Obey
  <2>3. presets' \subseteq Bytes8
    BY <1>1 DEF TypeOK, Obey
  <2>4. reply' # None => reply' \in [hi : Bytes8, lo : Bytes8] /\ job.cmd \in Queries
    <3>1. wire.op \in {81, 83} => job.cmd \in Queries
      BY <1>1, <1>2, <1>8, OpcodeIs, JobKinds DEF Queries
    <3>2. reply' # None => wire.op \in {81, 83} /\ reply' \in [hi : Bytes8, lo : Bytes8]
      BY <1>4 DEF Obey
    <3> QED BY <3>1, <3>2
  <2>5. /\ job.cmd = "GET_AZI" => reply' = Bytes(position.azi)
        /\ job.cmd = "GET_ELE" => reply' = Bytes(position.ele)
    BY <1>2, OpcodeIs DEF Obey
  <2>6. DeviceGoesToTarget'
    BY <2>2 DEF IInv, DeviceGoesToTarget, Obey
  <2> QED BY <1>1, <1>5, <2>2, <2>3, <2>4, <2>5, <2>6 DEF IInv, TypeOK, PositionInv
<1> QED BY <1>6, <1>7, <1>8

LEMMA InvariantHolds == Spec => []IInv
<1>1. IInv /\ [Next]_vars => IInv'
  BY SendStep, ReceiveStep, MoveStep, ObeyStep, StutterStep DEF Next
<1> QED BY InitHolds, <1>1, PTL DEF Spec

-------------------------------------------------------------------------------
(* What follows in every state of the invariant.                           *)

\* Taking the offset off leaves the distance to the target as it was.
LEMMA ReadBackHolds == IInv => AziReadBack
<1> SUFFICES ASSUME IInv, response # None, response.axis = "azi", aim.azi # None,
                    Plain(position.azi)
             PROVE  Apart(response.angle, aim.azi) <= 5
  BY DEF AziReadBack
<1> DEFINE p == position.azi
           a == aim.azi
<1>1. p \in Words16 /\ a \in Int /\ aziOffset \in Int
  BY Domains, Offsets DEF IInv, TypeOK, Places
<1>2. p \in Int
  BY <1>1, WordsAre
<1>3. response.angle = 10 * p - aziOffset
  BY <1>1, RawOfBytes DEF IInv, ResponseInv, AziGot
<1>4. Apart(10 * p, a + aziOffset) <= 5
  BY DEF IInv, DeviceGoesToTarget
<1> HIDE DEF p
<1>5. (10 * p - aziOffset) - a = 10 * p - (a + aziOffset)
  BY <1>1, <1>2
<1>6. Apart(10 * p - aziOffset, a) = Apart(10 * p, a + aziOffset)
  BY <1>5 DEF Apart
<1> QED BY <1>3, <1>4, <1>6

-------------------------------------------------------------------------------
(* The theorems.                                                           *)

\* What travels is made of bytes, and what the device holds of words, whatever
\* the offsets and the requests: the conversions of threadMain lose nothing
\* but what lies beyond their ranges.
THEOREM CodecTypeCorrect == Spec => []TypeOK
  BY InvariantHolds, PTL DEF IInv

\* The device goes where it was sent, through offset, wrap, rounding and bytes
\* of CHANGE_AZI and CHANGE_ELE.
THEOREM DeviceReachesTarget == Spec => []DeviceGoesToTarget
  BY InvariantHolds, PTL DEF IInv

\* GET_AZI reads back the azimuth that CHANGE_AZI commanded.
THEOREM AzimuthReadBack == Spec => []AziReadBack
  BY InvariantHolds, ReadBackHolds, PTL

===============================================================================
