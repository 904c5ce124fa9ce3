------------------------------- MODULE Rotctld --------------------------------
(***************************************************************************)
(* The rotctld source: its listener, its sessions, and the process around  *)
(* them, which shares one table of descriptors with the CamPTZ worker.     *)
(*                                                                         *)
(* A client's stream is a sequence of lines, each a sequence of bytes with *)
(* a newline behind them.  Bytes are what connThreadMain tells apart; a    *)
(* run of others is as good as one of them.  The network may deliver any   *)
(* prefix of what was sent.  Lines fit the buffer of 80 bytes.  The        *)
(* request handler only takes time here: nothing a session does depends on *)
(* its response.                                                           *)
(***************************************************************************)
EXTENDS Naturals, Sequences, FiniteSets

CONSTANTS
  Clients,
  Texts,        \* the lines a client may send, without their newlines
  MaxCommands,  \* bound: the lines a client sends
  Descriptors,  \* the descriptors the process may open
  Listener,     \* who opens descriptors: the listener thread,
  Camera,       \* the CamPTZ worker, and one session per client
  Nobody,       \* the owner of a free descriptor
  NoDescriptor  \* -1, or a variable never set

Users   == Clients \cup {Listener, Camera}
Letters == {"p", "P", "S", "other"}

ASSUME RotctldAssumption ==
  /\ \A text \in Texts : text \in Seq(Letters)
  /\ MaxCommands \in Nat
  /\ Descriptors \subseteq Nat /\ IsFiniteSet(Descriptors)
  /\ NoDescriptor \notin Descriptors
  /\ Nobody \notin Users /\ Listener # Camera /\ {Listener, Camera} \cap Clients = {}

VARIABLES
  owner,        \* the descriptor table
  sock,         \* the descriptor each user works with
  listener,     \* control point of threadMain
  camera,       \* of the CamPTZ worker, as far as its descriptor goes
  session,      \* of connThreadMain, for each client
  command,      \* the line a session works on: number and letter
  gpredictBugWalkaround,
  threadClosing,
  terminate,    \* control point of Terminate
  client,       \* the client's end: "absent", "open" or "closed"
  sent,         \* the lines it sent
  inbox,        \* their bytes that were not received yet
  replies,      \* the lines that were replied to
  process       \* "running" or "aborted"

tableVars   == <<owner, sock>>
sessionVars == <<session, command, inbox, replies>>
clientVars  == <<client, sent>>
stopVars    == <<threadClosing, terminate>>
vars == <<tableVars, listener, camera, sessionVars, clientVars, stopVars,
          gpredictBugWalkaround, process>>

-------------------------------------------------------------------------------
Lines  == 1..MaxCommands
Bytes  == [of : Lines, first : BOOLEAN, letter : Letters, end : BOOLEAN]

\* The bytes of line n.
Line(n, text) ==
  [i \in 1..Len(text) + 1 |->
     [of     |-> n,
      first  |-> i = 1,
      letter |-> IF i <= Len(text) THEN text[i] ELSE "other",
      end    |-> i = Len(text) + 1]]

\* Every variable has its type.
TypeOK ==
  /\ owner \in [Descriptors -> Users \cup {Nobody}]
  /\ sock \in [Users -> Descriptors \cup {NoDescriptor}]
  /\ listener \in {"socket", "bind", "listen", "accept", "ended"}
  /\ camera \in {"socket", "connect", "connected", "closed"}
  /\ session \in [Clients -> {"none", "loop", "recv", "handle", "reply", "spin", "ended"}]
  /\ command \in [Clients -> [of : Lines \cup {0}, letter : Letters]]
  /\ gpredictBugWalkaround \in BOOLEAN
  /\ threadClosing \in BOOLEAN
  /\ terminate \in {"idle", "join", "returned"}
  /\ client \in [Clients -> {"absent", "open", "closed"}]
  /\ sent \in [Clients -> Seq(Texts)]
  /\ inbox \in [Clients -> Seq(Bytes)]
  /\ replies \in [Clients -> Seq(Lines)]
  /\ process \in {"running", "aborted"}

\* cliMain has started sink and source; the option decides the walkaround.
Init ==
  /\ owner = [d \in Descriptors |-> Nobody]
  /\ sock = [u \in Users |-> NoDescriptor]
  /\ listener = "socket" /\ camera = "socket"
  /\ session = [c \in Clients |-> "none"]
  /\ command = [c \in Clients |-> [of |-> 0, letter |-> "other"]]
  /\ gpredictBugWalkaround \in BOOLEAN
  /\ threadClosing = FALSE /\ terminate = "idle"
  /\ client = [c \in Clients |-> "absent"]
  /\ sent = [c \in Clients |-> <<>>]
  /\ inbox = [c \in Clients |-> <<>>]
  /\ replies = [c \in Clients |-> <<>>]
  /\ process = "running"

\* The operating system hands out the lowest free descriptor.
Free == {d \in Descriptors : owner[d] = Nobody}
Open(u) ==
  /\ Free # {}
  /\ LET d == CHOOSE d \in Free : \A e \in Free : d <= e IN
       /\ owner' = [owner EXCEPT ![d] = u]
       /\ sock' = [sock EXCEPT ![u] = d]

\* The system call asks for no owner; on a free descriptor it fails.
Close(u) ==
  /\ owner' = [d \in Descriptors |-> IF d = sock[u] THEN Nobody ELSE owner[d]]
  /\ UNCHANGED sock

-------------------------------------------------------------------------------
(* rotctld::threadMain.                                                    *)

ListenerSocket ==
  /\ listener = "socket"
  /\ \/ Open(Listener) /\ listener' = "bind"
     \/ UNCHANGED tableVars /\ listener' = "ended"
  /\ UNCHANGED <<camera, sessionVars, clientVars, stopVars>>

\* sockActive is true in the end, whether bind failed or not.
Bind ==
  /\ listener = "bind"
  /\ listener' = "listen"
  /\ \/ UNCHANGED tableVars
     \/ Close(Listener)
  /\ UNCHANGED <<camera, sessionVars, clientVars, stopVars>>

\* A connected socket or a closed one does not listen.
Listen ==
  /\ listener = "listen"
  /\ \/ /\ owner[sock[Listener]] # Nobody
        /\ ~(owner[sock[Listener]] = Camera /\ camera = "connected")
        /\ listener' = "accept"
        /\ UNCHANGED tableVars
     \/ /\ listener' = "ended"
        /\ Close(Listener)
  /\ UNCHANGED <<camera, sessionVars, clientVars, stopVars>>

\* A client connects, and gets a thread.
Accept(c) ==
  /\ listener = "accept" /\ owner[sock[Listener]] = Listener
  /\ client[c] = "absent"
  /\ client' = [client EXCEPT ![c] = "open"]
  /\ Open(c)
  /\ session' = [session EXCEPT ![c] = "loop"]
  /\ UNCHANGED <<listener, camera, command, inbox, replies, sent, stopVars>>

AcceptFails ==
  /\ listener = "accept"
  /\ listener' = "ended"
  /\ Close(Listener)
  /\ UNCHANGED <<camera, sessionVars, clientVars, stopVars>>

ThreadMain ==
  ListenerSocket \/ Bind \/ Listen

-------------------------------------------------------------------------------
(* The descriptor of the CamPTZ worker.                                    *)

CameraSocket ==
  /\ camera = "socket"
  /\ \/ Open(Camera) /\ camera' = "connect"
     \/ UNCHANGED tableVars /\ camera' = "closed"
  /\ UNCHANGED <<listener, sessionVars, clientVars, stopVars>>

\* Neither a closed socket nor a listening one connects.
CameraConnect ==
  /\ camera = "connect"
  /\ \/ /\ owner[sock[Camera]] = Camera
        /\ ~(listener = "accept" /\ sock[Listener] = sock[Camera])
        /\ camera' = "connected"
        /\ UNCHANGED tableVars
     \/ camera' = "closed" /\ Close(Camera)
  /\ UNCHANGED <<listener, sessionVars, clientVars, stopVars>>

\* connTerminate, when the worker leaves on Terminate of the sink.
CameraTerminates ==
  /\ camera = "connected"
  /\ camera' = "closed" /\ Close(Camera)
  /\ UNCHANGED <<listener, sessionVars, clientVars, stopVars>>

-------------------------------------------------------------------------------
(* rotctld::connThreadMain for the session of client c.                    *)

\* The while test; nobody closes the socket behind it.
Loop(c) ==
  /\ session[c] = "loop"
  /\ session' = [session EXCEPT ![c] = IF threadClosing THEN "ended" ELSE "recv"]
  /\ UNCHANGED <<tableVars, listener, camera, command, inbox, replies, clientVars, stopVars>>

\* Mutant: the rest of what recv_until_newline received is thrown away.
WholeLinesOnly(s, k) == s[k].end

\* recv_until_newline ends with the first newline; recv ends anywhere.
WholeLine(s, k) == s[k].end /\ \A i \in 1..(k - 1) : ~s[i].end

\* What follows a letter; other lines have no reply.
After == [p |-> "handle", P |-> "handle", S |-> "reply", other |-> "loop"]

\* The first byte received decides, wherever in a line it stands.
Received(c, k) ==
  LET byte == Head(inbox[c])
  IN  /\ command' = [command EXCEPT ![c] = [of |-> byte.of, letter |-> byte.letter]]
      /\ session' = [session EXCEPT ![c] = After[byte.letter]]
      /\ inbox' = [inbox EXCEPT ![c] = SubSeq(@, k + 1, Len(@))]

Receive(c) ==
  /\ session[c] = "recv"
  /\ \E k \in 1..Len(inbox[c]) :
       /\ gpredictBugWalkaround \/ WholeLine(inbox[c], k)
       /\ Received(c, k)
  /\ UNCHANGED <<tableVars, listener, camera, replies, clientVars, stopVars>>

EndSession(c) == session' = [session EXCEPT ![c] = "ended"] /\ Close(c)

\* Mutant: the end of the stream is not told from an empty segment.
EofIgnored(c) == IF gpredictBugWalkaround THEN "loop" ELSE "spin"
\* Mutant: the result of the receive call is not looked at.
EofHandled(c) == "reply"
AfterEof(c) == IF gpredictBugWalkaround THEN "ended" ELSE "spin"

\* recv returns 0: the session ends, but recv_fixed does not return.
ReceiveEof(c) ==
  /\ session[c] = "recv"
  /\ client[c] = "closed" /\ inbox[c] = <<>>
  /\ session' = [session EXCEPT ![c] = AfterEof(c)]
  /\ IF AfterEof(c) = "ended" THEN Close(c) ELSE UNCHANGED tableVars
  /\ UNCHANGED <<listener, camera, command, inbox, replies, clientVars, stopVars>>

ReceiveError(c) ==
  /\ session[c] = "recv"
  /\ client[c] = "closed"
  /\ EndSession(c)
  /\ UNCHANGED <<listener, camera, command, inbox, replies, clientVars, stopVars>>

\* The request handler returned, for azimuth and then for elevation.
HandleRequest(c) ==
  /\ session[c] = "handle"
  /\ session' = [session EXCEPT ![c] = "reply"]
  /\ UNCHANGED <<tableVars, listener, camera, command, inbox, replies, clientVars, stopVars>>

\* Mutant: the session of an S goes on.
StopGoesOn(c) == "loop"
AfterReply(c) == IF command[c].letter = "S" THEN "ended" ELSE "loop"

\* Mutant: only queries are replied to.
QueriesOnly(c) == command[c].letter # "P"
Replied(c) == TRUE

Reply(c) ==
  /\ session[c] = "reply"
  /\ replies' = IF Replied(c) THEN [replies EXCEPT ![c] = Append(@, command[c].of)]
                              ELSE replies
  /\ session' = [session EXCEPT ![c] = AfterReply(c)]
  /\ IF command[c].letter = "S" THEN Close(c) ELSE UNCHANGED tableVars
  /\ UNCHANGED <<listener, camera, command, inbox, clientVars, stopVars>>

ReplyFails(c) ==
  /\ session[c] = "reply"
  /\ client[c] = "closed"
  /\ EndSession(c)
  /\ UNCHANGED <<listener, camera, command, inbox, replies, clientVars, stopVars>>

ConnThreadMain(c) ==
  \/ Loop(c) \/ Receive(c) \/ ReceiveEof(c) \/ ReceiveError(c)
  \/ HandleRequest(c) \/ Reply(c) \/ ReplyFails(c)

-------------------------------------------------------------------------------
(* Terminate, the clients, and the end of the process.                     *)

AnnounceClosing ==
  /\ terminate = "idle"
  /\ threadClosing' = TRUE
  /\ terminate' = "join"
  /\ UNCHANGED <<tableVars, listener, camera, sessionVars, clientVars>>

JoinListener ==
  /\ terminate = "join" /\ listener = "ended"
  /\ terminate' = "returned"
  /\ UNCHANGED <<tableVars, listener, camera, sessionVars, clientVars, threadClosing>>

ClientSends(c, text) ==
  /\ client[c] = "open"
  /\ Len(sent[c]) < MaxCommands
  /\ sent' = [sent EXCEPT ![c] = Append(@, text)]
  /\ inbox' = [inbox EXCEPT ![c] = @ \o Line(Len(sent[c]) + 1, text)]
  /\ UNCHANGED <<tableVars, listener, camera, session, command, replies, client, stopVars>>

ClientCloses(c) ==
  /\ client[c] = "open"
  /\ client' = [client EXCEPT ![c] = "closed"]
  /\ UNCHANGED <<tableVars, listener, camera, sessionVars, sent, stopVars>>

\* SIGPIPE; or main returns from WaitForClose, and the destructors find
\* threads that nobody joined.  The system closes what the process left open.
Abort ==
  /\ \/ \E c \in Clients : session[c] = "reply" /\ client[c] = "closed"
     \/ listener = "ended"
  /\ process' = "aborted"
  /\ owner' = [d \in Descriptors |-> Nobody]
  /\ listener' = "ended" /\ session' = [c \in Clients |-> "ended"]
  /\ UNCHANGED <<sock, camera, command, inbox, replies, clientVars, stopVars>>

Step ==
  \/ ThreadMain \/ AcceptFails
  \/ CameraSocket \/ CameraConnect \/ CameraTerminates
  \/ \E c \in Clients :
       \/ ConnThreadMain(c)
       \/ Accept(c) \/ ClientCloses(c)
       \/ \E text \in Texts : ClientSends(c, text)
  \/ AnnounceClosing \/ JoinListener

Next ==
  /\ process = "running"
  /\ \/ Step /\ UNCHANGED process
     \/ Abort
  /\ UNCHANGED gpredictBugWalkaround

Spec == Init /\ [][Next]_vars

(***************************************************************************)
(* The threads run and the request handler returns: RequestSync has a      *)
(* timeout.  No client need do anything and no call need fail.             *)
(***************************************************************************)
Running(A) ==
  process = "running" /\ A /\ UNCHANGED <<process, gpredictBugWalkaround>>

Fairness ==
  /\ WF_vars(Running(ThreadMain))
  /\ \A c \in Clients : WF_vars(Running(ConnThreadMain(c)))

FairSpec == Spec /\ Fairness

-------------------------------------------------------------------------------
(* Properties.                                                             *)

Letter(text) == IF text = <<>> THEN "other" ELSE text[1]

\* The lines that have a reply, and those with a letter inside.
Known(c)    == {n \in 1..Len(sent[c]) : Letter(sent[c][n]) # "other"}
Lettered(c) == {n \in 1..Len(sent[c]) : \E i \in 2..Len(sent[c][n]) : sent[c][n][i] # "other"}

\* What "parsing this way is potentially buggy" amounts to: a segment that
\* begins inside a line may look like a command.
Strays(c) == IF gpredictBugWalkaround THEN Lettered(c) ELSE {}

Answered(c, n) == \E i \in 1..Len(replies[c]) : replies[c][i] = n
Pending(c, n) ==
  \/ \E i \in 1..Len(inbox[c]) : inbox[c][i].of = n
  \/ session[c] \in {"handle", "reply"} /\ command[c].of = n

\* However the stream is cut into segments, a session replies to lines in their
\* order: to lines that have a reply, and to none twice.  A session that does
\* not read by lines may also reply to a line with a letter inside, and more
\* than once to that one; a session that does, as long as it lasts, loses no
\* line that has a reply.
RepliesInOrder ==
  \A c \in Clients :
    /\ \A i \in 1..Len(replies[c]) : replies[c][i] \in Known(c) \cup Strays(c)
    /\ \A i \in 2..Len(replies[c]) :
         \/ replies[c][i - 1] < replies[c][i]
         \/ replies[c][i - 1] = replies[c][i] /\ replies[c][i] \in Strays(c)
    /\ ~gpredictBugWalkaround /\ session[c] # "ended" =>
         \A n \in Known(c) : Answered(c, n) \/ Pending(c, n)

\* The descriptor of a session is its own as long as the session lasts: nobody
\* closes it or is handed it, whatever listener and camera close meanwhile, and
\* a session does not go on after it closed it.
DescriptorsIntact ==
  \A c \in Clients : session[c] \notin {"none", "ended"} => owner[sock[c]] = c

\* A session that reads by lines replies to every line that has a reply, until
\* the session ends or the client leaves.
CommandAnswered ==
  \A c \in Clients, n \in Lines :
    session[c] = "recv" /\ n \in Known(c) /\ ~gpredictBugWalkaround ~>
      Answered(c, n) \/ session[c] = "ended" \/ client[c] = "closed"

\* With the walkaround, a session ends when its client has left.
SessionEnds ==
  \A c \in Clients :
    session[c] # "none" /\ client[c] = "closed" /\ gpredictBugWalkaround ~>
      session[c] = "ended"
===============================================================================
