-------------------------------- MODULE Bridge --------------------------------
(***************************************************************************)
(* The bridge as a whole with --disable-smart-sink: the sessions of        *)
(* rotctld, the request handler of cliMain, RequestSync, the keep-alive    *)
(* thread, the worker and the device, from the command to the reply.       *)
(*                                                                         *)
(* A command is two calls of RequestSync in a row, the azimuth's and then  *)
(* the elevation's, and so is a round of the keep-alive thread: the odd    *)
(* calls of a caller are about the azimuth.  The angle a change asks for   *)
(* is named by the call that asks for it.                                  *)
(*                                                                         *)
(* RequestSync is taken as BlockingCalls, which it implements, on top of   *)
(* RotatorService, which CamPTZWorker implements; here that has a device,  *)
(* which obeys at once, and it may fail for good.                          *)
(***************************************************************************)
EXTENDS BlockingCalls

CONSTANTS
  KeepAlive,   \* the keep-alive thread, one of the Callers
  MaxCommands, \* bound: how many commands each session gets,
  MaxRounds,   \* and how often the keep-alive thread wakes up
  Home,        \* 0.0, which with smartSink off the targets never leave
  Unset,       \* where the device is before its first command
  Garbage      \* an uninitialised payload

Sessions == Callers \ {KeepAlive}
Axes     == {"azi", "ele"}
Angles   == Calls \cup {Home, Unset}

ASSUME BridgeAssumption ==
  /\ MaxCalls \in Nat
  /\ None \notin Calls /\ Running \notin Calls \cup {None}
  /\ KeepAlive \in Callers /\ MaxRounds \in 0..(MaxCalls \div 2)
  /\ MaxCommands \in [Sessions -> 0..(MaxCalls \div 2)]
  /\ {Home, Unset, Garbage} \cap Calls = {}
  /\ Home # Unset /\ Garbage \notin {Home, Unset}

VARIABLES
  commands, \* what each session was told: "p", "P"
  replied,  \* how many replies it sent
  worker,   \* threadMain: "up", past a socket "error", or "exited"
  device,   \* where each axis points
  payload   \* the payload of the response to each call

bridgeVars == <<commands, replied, worker, device, payload>>
vars == <<callVars, bridgeVars>>

-------------------------------------------------------------------------------
Axis(x) == IF x[2] % 2 = 1 THEN "azi" ELSE "ele"

\* Which of the caller's commands call n belongs to.
Command(n) == (n + 1) \div 2

IsChange(x) == x[1] = KeepAlive \/ commands[x[1]][Command(x[2])] = "P"
Target(x)   == IF x[1] = KeepAlive THEN Home ELSE x

\* Every variable has its type.
TypeOK ==
  /\ pending \in Seq(Calls)
  /\ status \in [Calls -> {"new", "refused", "pending", "answered"}]
  /\ result \in [Calls -> Calls \cup {None, Running}]
  /\ commands \in [Sessions -> Seq({"p", "P"})]
  /\ replied \in [Sessions -> Nat]
  /\ \A c \in Sessions : replied[c] <= Len(commands[c])
  /\ worker \in {"up", "error", "exited"}
  /\ device \in [Axes -> Angles]
  /\ payload \in [Calls -> Angles \cup {Garbage}]

\* The worker has connected: else everything is as it is once it exited.
Init ==
  /\ CallsInit
  /\ commands = [c \in Sessions |-> <<>>]
  /\ replied = [c \in Sessions |-> 0]
  /\ worker = "up"
  /\ device = [a \in Axes |-> Unset]
  /\ payload = [x \in Calls |-> Garbage]

-------------------------------------------------------------------------------
(* The sessions and the keep-alive thread.                                 *)

Returned(c, n) == \A m \in 1..n : result[<<c, m>>] # Running

\* Both calls of every command so far have returned.
Through(c) == Returned(c, 2 * Len(commands[c]))

ReadCommand(c, k) ==
  /\ Through(c) /\ replied[c] = Len(commands[c])
  /\ Len(commands[c]) < MaxCommands[c]
  /\ commands' = [commands EXCEPT ![c] = Append(@, k)]
  /\ UNCHANGED <<callVars, replied, worker, device, payload>>

\* RequestSync, whose Request looks at threadExited.
RequestSync(x) ==
  /\ \/ worker = "exited" /\ Reject(x)
     \/ worker # "exited" /\ Submit(x)
  /\ UNCHANGED bridgeVars

\* requestHandler(req) for one axis and then for the other, whatever came back
\* for the first.
HandleRequest(c) ==
  \E n \in 1..(2 * Len(commands[c])) : RequestSync(<<c, n>>)

\* Mutant: no timeout.
ReturnAnswered(c) ==
  /\ \E n \in 1..MaxCalls : status[<<c, n>>] = "answered" /\ GiveBack(<<c, n>>)
  /\ UNCHANGED bridgeVars

\* The response is there, or 1000 ms have passed.
Return(c) ==
  /\ \E n \in 1..MaxCalls : GiveBack(<<c, n>>)
  /\ UNCHANGED bridgeVars

\* Mutant: one reply for each axis.
ReplyAgain(c) ==
  /\ Through(c) /\ commands[c] # <<>> /\ replied[c] <= Len(commands[c])
  /\ replied' = [replied EXCEPT ![c] = @ + 1]
  /\ UNCHANGED <<callVars, commands, worker, device, payload>>

\* The reply goes out, "RET 0" for P whatever came back.
Reply(c) ==
  /\ Through(c) /\ replied[c] < Len(commands[c])
  /\ replied' = [replied EXCEPT ![c] = Len(commands[c])]
  /\ UNCHANGED <<callVars, commands, worker, device, payload>>

\* Two requests a round, until a round had one without a response.
KeepAliveRequest ==
  \E n \in 1..(2 * MaxRounds) :
    /\ n % 2 = 1 => \A m \in 1..(n - 1) : result[<<KeepAlive, m>>] # None
    /\ RequestSync(<<KeepAlive, n>>)

-------------------------------------------------------------------------------
(* The worker.                                                             *)

\* Mutant: the elevation's command changes the azimuth.
WrongAxis(x) == [device EXCEPT !["azi"] = Target(x)]
Moved(x) == [device EXCEPT ![Axis(x)] = Target(x)]

\* Mutant: the response is filled before the device was asked.
Unasked(x) == Garbage

\* A change leaves the payload of its response uninitialised.
Read(x) == IF IsChange(x) THEN Garbage ELSE device[Axis(x)]

Serve ==
  /\ worker = "up"
  /\ Answer
  /\ LET x == Head(pending) IN
     /\ device' = IF IsChange(x) THEN Moved(x) ELSE device
     /\ payload' = [payload EXCEPT ![x] = Read(x)]
  /\ UNCHANGED <<commands, replied, worker>>

\* A socket error: the callback gets success = false, and no angle.
Fail ==
  /\ worker = "up"
  /\ Answer
  /\ worker' = "error"
  /\ UNCHANGED <<commands, replied, device, payload>>

ExitThread ==
  /\ worker = "error"
  /\ worker' = "exited"
  /\ UNCHANGED <<callVars, commands, replied, device, payload>>

Next ==
  \/ \E c \in Sessions :
       \/ \E k \in {"p", "P"} : ReadCommand(c, k)
       \/ HandleRequest(c) \/ Reply(c)
  \/ \E c \in Callers : Return(c)
  \/ KeepAliveRequest
  \/ Serve \/ Fail \/ ExitThread

Spec == Init /\ [][Next]_vars

(***************************************************************************)
(* The sessions run, and so do their clocks.  The device may be as slow as *)
(* it likes: no fairness on Serve and Fail.                                *)
(***************************************************************************)
Fairness ==
  \A c \in Sessions :
    WF_vars(HandleRequest(c)) /\ WF_vars(Return(c)) /\ WF_vars(Reply(c))

FairSpec == Spec /\ Fairness

-------------------------------------------------------------------------------
(* Properties.                                                             *)

\* The calls of session c about an axis that belong to P commands, up to n.
Changes(c, axis, n) ==
  {m \in 1..n : Axis(<<c, m>>) = axis /\ IsChange(<<c, m>>)}
IsLatest(m, S) == m \in S /\ \A k \in S : k <= m

\* At rest each axis is where the latest P of some session, or the keep-alive
\* thread, took it: timeouts and late answers never bring an older target
\* back, and a sole commander's pair is never torn.
AtRest == worker = "up" /\ pending = <<>> /\ \A c \in Sessions : Through(c)
RestsAtLatest ==
  AtRest => \A a \in Axes :
    device[a] \in Calls =>
      LET c == device[a][1]
      IN  IsLatest(device[a][2], Changes(c, a, 2 * Len(commands[c])))

\* What a session reads of its own writes, as long as the connection lasts: a
\* call may come back late, with the response to a query that the session gave
\* up before.  Whatever query it is, the angle is an angle, and none from before
\* the session's latest P ahead of that query, be that P given up or not.
ReadsOwnWrites ==
  worker = "up" =>
    \A c \in Sessions : \A n \in 1..(2 * Len(commands[c])) :
      LET y == result[<<c, n>>] IN
      y \in Calls /\ ~IsChange(y) =>
        /\ y[1] = c /\ y[2] <= n
        /\ payload[y] # Garbage
        /\ Changes(c, Axis(y), y[2]) # {} =>
             /\ payload[y] # Unset
             /\ payload[y] \in Calls /\ payload[y][1] = c =>
                  IsLatest(payload[y][2], Changes(c, Axis(y), y[2]))

\* Every command is replied to, be the device slow, silent or gone.
CommandsReplied ==
  \A c \in Sessions : \A n \in 1..MaxCommands[c] :
    Len(commands[c]) = n ~> replied[c] >= n

===============================================================================
