----------------------------- MODULE RotctldProofs -----------------------------
(***************************************************************************)
(* Proofs about Rotctld, for any number of clients, lines and descriptors. *)
(***************************************************************************)
EXTENDS Rotctld, SequenceTheorems, WellFoundedInduction, TLAPS

-------------------------------------------------------------------------------
(* The descriptor table.                                                   *)

\* The user's descriptor is its own.
Holds(u) == sock[u] \in Descriptors /\ owner[sock[u]] = u

Live(c) == session[c] \notin {"none", "ended"}
NoneLive == \A c \in Clients : ~Live(c)

\* Sessions are accepted by a listener that owns its descriptor, and end after
\* it or not at all.  What the listener closes twice may be the camera's, but
\* then there are no sessions, and there will be none.
TableInv ==
  /\ \A c \in Clients : Live(c) => Holds(c)
  /\ NoneLive \/ listener = "ended" \/ (listener = "accept" /\ Holds(Listener))
  /\ camera \in {"connect", "connected"} =>
       Holds(Camera) \/ (listener = "ended" /\ NoneLive)
  /\ listener = "bind" => Holds(Listener)

\* The listener has opened a descriptor, be it its own or not any more.
SockInv == listener \in {"bind", "listen", "accept"} => sock[Listener] \in Descriptors

-------------------------------------------------------------------------------
(* The streams.                                                            *)

Inside(c)  == 1..Len(inbox[c])
InHand(c) == session[c] \in {"handle", "reply"}

\* Bytes are those of lines that were sent.
ByteInv(c) ==
  /\ \A i \in Inside(c) :
       /\ inbox[c][i].of \in 1..Len(sent[c])
       /\ inbox[c][i].first => inbox[c][i].letter = Letter(sent[c][inbox[c][i].of])
       /\ ~inbox[c][i].first /\ inbox[c][i].letter # "other" => inbox[c][i].of \in Lettered(c)
  /\ client[c] = "absent" => sent[c] = <<>>

\* They come in the order of the lines, and each line ends before the next one.
OrderInv(c) ==
  /\ \A i, k \in Inside(c) : i < k =>
       /\ inbox[c][i].of <= inbox[c][k].of
       /\ inbox[c][k].first => inbox[c][i].of < inbox[c][k].of
       /\ inbox[c][i].of # inbox[c][k].of => \E m \in i..(k - 1) : inbox[c][m].end
  /\ inbox[c] # <<>> => inbox[c][Len(inbox[c])].end

\* Replies and the line in hand come before the bytes that are left.
ReplyInv(c) ==
  /\ \A j \in 1..Len(replies[c]) :
       /\ replies[c][j] \in Known(c) \cup Strays(c)
       /\ \A i \in Inside(c) :
            /\ replies[c][j] <= inbox[c][i].of
            /\ inbox[c][i].first => replies[c][j] < inbox[c][i].of
  /\ \A j \in 2..Len(replies[c]) :
       \/ replies[c][j - 1] < replies[c][j]
       \/ replies[c][j - 1] = replies[c][j] /\ replies[c][j] \in Strays(c)
  /\ InHand(c) =>
       /\ command[c].of \in Known(c) \cup Strays(c)
       /\ \A i \in Inside(c) :
            /\ command[c].of <= inbox[c][i].of
            /\ inbox[c][i].first => command[c].of < inbox[c][i].of
       /\ \A j \in 1..Len(replies[c]) :
            \/ replies[c][j] < command[c].of
            \/ replies[c][j] = command[c].of /\ command[c].of \in Strays(c)

\* Read by lines, the stream is cut between lines only, and a line that was
\* received is answered or in hand.
LineInv(c) ==
  ~gpredictBugWalkaround =>
    /\ inbox[c] # <<>> => inbox[c][1].first
    /\ \A i \in 1..(Len(inbox[c]) - 1) : inbox[c][i].end => inbox[c][i + 1].first
    /\ session[c] # "ended" => \A n \in Known(c) : Answered(c, n) \/ Pending(c, n)

Streams(c) == ByteInv(c) /\ OrderInv(c) /\ ReplyInv(c) /\ LineInv(c)

StreamInv == \A c \in Clients : Streams(c)

IInv == TypeOK /\ SockInv /\ TableInv /\ StreamInv

-------------------------------------------------------------------------------
(* The table's operations.                                                 *)

\* A nonempty set of naturals has a least element.
LEMMA LeastElement ==
  ASSUME NEW S \in SUBSET Nat, S # {}
  PROVE  \E d \in S : \A e \in S : d <= e
<1>1. PICK d \in S : \A e \in S : ~(<<e, d>> \in OpToRel(<, Nat))
  BY NatLessThanWellFounded, WFMin
<1>2. \A i, j \in Nat : i < j => <<i, j>> \in OpToRel(<, Nat)
  BY DEF OpToRel
<1>3. \A e \in S : ~(e < d)
  BY <1>1, <1>2
<1> QED BY <1>3

\* Open takes a free descriptor.
LEMMA OpenFacts ==
  ASSUME TypeOK, NEW u \in Users, Open(u)
  PROVE  \E d \in Descriptors : /\ owner[d] = Nobody
                                /\ owner' = [owner EXCEPT ![d] = u]
                                /\ sock' = [sock EXCEPT ![u] = d]
<1> DEFINE d == CHOOSE d \in Free : \A e \in Free : d <= e
<1>1. Free \in SUBSET Nat /\ Free # {}
  BY RotctldAssumption DEF Free, Open
<1>2. d \in Free
  BY <1>1, LeastElement
<1>3. owner' = [owner EXCEPT ![d] = u] /\ sock' = [sock EXCEPT ![u] = d]
  BY DEF Open
<1> HIDE DEF d
<1> QED BY <1>2, <1>3 DEF Free

\* A descriptor that is closed or handed out is nobody else's.
LEMMA OpenKeeps ==
  ASSUME TypeOK, NEW u \in Users, Open(u)
  PROVE  /\ Holds(u)'
         /\ \A v \in Users : v # u /\ Holds(v) => Holds(v)'
<1>1. PICK d \in Descriptors : /\ owner[d] = Nobody
                               /\ owner' = [owner EXCEPT ![d] = u]
                               /\ sock' = [sock EXCEPT ![u] = d]
  BY OpenFacts
<1>2. ASSUME NEW v \in Users, v # u, Holds(v)
      PROVE  Holds(v)'
  BY <1>1, <1>2, RotctldAssumption DEF TypeOK, Holds
<1>3. Holds(u)'
  BY <1>1 DEF TypeOK, Holds
<1> QED BY <1>2, <1>3

LEMMA CloseKeeps ==
  ASSUME NEW u \in Users, Holds(u), Close(u)
  PROVE  \A v \in Users : v # u /\ Holds(v) => Holds(v)'
  BY DEF Holds, Close

LEMMA CloseType ==
  ASSUME TypeOK, NEW u \in Users, Close(u)
  PROVE  /\ owner' \in [Descriptors -> Users \cup {Nobody}]
         /\ sock' = sock
  BY DEF TypeOK, Close

LEMMA OpenType ==
  ASSUME TypeOK, NEW u \in Users, Open(u)
  PROVE  /\ owner' \in [Descriptors -> Users \cup {Nobody}]
         /\ sock' \in [Users -> Descriptors \cup {NoDescriptor}]
<1>1. PICK d \in Descriptors : /\ owner' = [owner EXCEPT ![d] = u]
                               /\ sock' = [sock EXCEPT ![u] = d]
  BY OpenFacts
<1> QED BY <1>1 DEF TypeOK

-------------------------------------------------------------------------------
(* The table's invariant is preserved.                                     *)

\* A session goes on, or ends and leaves its descriptor open.
LEMMA SessionMoves ==
  ASSUME TypeOK, TableInv, NEW c \in Clients, Live(c), NEW s,
         session' = [session EXCEPT ![c] = s], UNCHANGED <<tableVars, listener, camera>>
  PROVE  TableInv'
<1>1. ~NoneLive
  BY DEF NoneLive
<1>2. \A u : Holds(u)' <=> Holds(u)
  BY DEF Holds, tableVars
<1>3. \A e \in Clients : Live(e)' => Live(e)
  BY DEF Live, TypeOK
<1> QED BY <1>1, <1>2, <1>3 DEF TableInv

\* A session closes its descriptor and ends.
LEMMA SessionCloses ==
  ASSUME TypeOK, TableInv, NEW c \in Clients, Live(c),
         session' = [session EXCEPT ![c] = "ended"], Close(c), UNCHANGED <<listener, camera>>
  PROVE  TableInv'
<1>1. ~NoneLive
  BY DEF NoneLive
<1>2. \A u \in Users : u # c /\ Holds(u) => Holds(u)'
  BY CloseKeeps DEF TableInv, Users
<1>3. \A e \in Clients : Live(e)' => Live(e) /\ e # c
  BY DEF Live, TypeOK
<1>4. c # Listener /\ c # Camera /\ Listener \in Users /\ Camera \in Users /\ Clients \subseteq Users
  BY RotctldAssumption DEF Users
<1> QED BY <1>1, <1>2, <1>3, <1>4 DEF TableInv

LEMMA SockStep ==
  ASSUME TypeOK, SockInv, [Next]_vars
  PROVE  SockInv'
<1> USE DEF tableVars, SockInv
<1>u. Listener \in Users /\ Camera \in Users /\ \A c \in Clients : c \in Users
  BY DEF Users
<1>1. \A u \in Users : Open(u) /\ sock[Listener] \in Descriptors => sock'[Listener] \in Descriptors
  BY <1>u, OpenFacts DEF TypeOK
<1>2. \A u \in Users : Open(u) => sock'[u] \in Descriptors
  BY OpenFacts DEF TypeOK
<1>3. \A u \in Users : Close(u) => sock' = sock
  BY DEF Close
<1>4. CASE ThreadMain \/ AcceptFails
  BY <1>u, <1>2, <1>3, <1>4 DEF ThreadMain, ListenerSocket, Bind, Listen, AcceptFails
<1>5. CASE CameraSocket \/ CameraConnect \/ CameraTerminates
  BY <1>u, <1>1, <1>3, <1>5 DEF CameraSocket, CameraConnect, CameraTerminates
<1>6. CASE \E c \in Clients : ConnThreadMain(c)
  BY <1>u, <1>3, <1>6 DEF ConnThreadMain, Loop, Receive, ReceiveEof, ReceiveError, EndSession,
     HandleRequest, Reply, ReplyFails
<1>7. CASE \E c \in Clients : Accept(c)
  BY <1>u, <1>1, <1>7 DEF Accept
<1>8. CASE \/ \E c \in Clients : \/ ClientCloses(c)
                                 \/ \E text \in Texts : ClientSends(c, text)
           \/ AnnounceClosing \/ JoinListener \/ UNCHANGED vars
  BY <1>8 DEF ClientCloses, ClientSends, AnnounceClosing, JoinListener, vars
<1>9. CASE Abort
  BY <1>9 DEF Abort
<1> QED BY <1>4, <1>5, <1>6, <1>7, <1>8, <1>9 DEF Next, Step

LEMMA TableStep ==
  ASSUME TypeOK, SockInv, TableInv, [Next]_vars
  PROVE  TableInv'
<1> USE DEF tableVars
<1>u. /\ Listener \in Users /\ Camera \in Users /\ Listener # Camera
      /\ \A c \in Clients : c \in Users /\ c # Listener /\ c # Camera
  BY RotctldAssumption DEF Users
<1>same. ASSUME UNCHANGED <<tableVars, listener, camera, session>>
         PROVE  TableInv'
  BY <1>same DEF TableInv, NoneLive, Live, Holds
<1>1. CASE ListenerSocket
  <2>1. NoneLive /\ (NoneLive' <=> NoneLive)
    BY <1>1 DEF ListenerSocket, TableInv, sessionVars, NoneLive, Live
  <2>2. \A c \in Clients : ~Live(c)'
    BY <1>1 DEF ListenerSocket, TableInv, sessionVars, NoneLive, Live
  <2>3. CASE Open(Listener) /\ listener' = "bind"
    BY <1>1, <1>u, <2>1, <2>2, <2>3, OpenKeeps DEF ListenerSocket, TableInv
  <2>4. CASE UNCHANGED tableVars /\ listener' = "ended"
    BY <1>1, <2>1, <2>2, <2>4 DEF ListenerSocket, TableInv
  <2> QED BY <1>1, <2>3, <2>4 DEF ListenerSocket
<1>2. CASE Bind
  <2>1. NoneLive /\ NoneLive' /\ Holds(Listener)
    BY <1>2 DEF Bind, TableInv, sessionVars, NoneLive, Live
  <2>2. camera \in {"connect", "connected"} => Holds(Camera)
    BY <1>2 DEF Bind, TableInv
  <2>3. CASE UNCHANGED tableVars
    BY <1>2, <2>1, <2>2, <2>3 DEF Bind, TableInv, NoneLive, Holds
  <2>4. CASE Close(Listener)
    BY <1>2, <1>u, <2>1, <2>2, <2>4, CloseKeeps DEF Bind, TableInv, NoneLive
  <2> QED BY <1>2, <2>3, <2>4 DEF Bind
<1>3. CASE Listen
  <2>1. NoneLive /\ NoneLive'
    BY <1>3 DEF Listen, TableInv, sessionVars, NoneLive, Live
  <2>2. camera \in {"connect", "connected"} => Holds(Camera)
    BY <1>3 DEF Listen, TableInv
  <2>3. CASE UNCHANGED tableVars /\ listener' = "accept"
    BY <1>3, <2>1, <2>2, <2>3 DEF Listen, TableInv, NoneLive, Holds
  <2>4. CASE listener' = "ended"
    BY <2>1, <2>4 DEF TableInv, NoneLive
  <2> QED BY <1>3, <2>3, <2>4 DEF Listen
<1>4. CASE AcceptFails
  <2>1. listener = "accept" /\ listener' = "ended" /\ Close(Listener) /\ camera' = camera
    BY <1>4 DEF AcceptFails
  <2>2. \A c \in Clients : Live(c)' <=> Live(c)
    BY <1>4 DEF AcceptFails, sessionVars, Live
  <2>3. CASE NoneLive
    BY <2>1, <2>2, <2>3 DEF TableInv, NoneLive
  <2>4. CASE ~NoneLive
    <3>1. Holds(Listener)
      BY <2>1, <2>4 DEF TableInv
    <3> QED BY <1>u, <2>1, <2>2, <2>4, <3>1, CloseKeeps DEF TableInv
  <2> QED BY <2>3, <2>4
<1>5. CASE CameraSocket
  <2>1. \A c \in Clients : Live(c)' <=> Live(c)
    BY <1>5 DEF CameraSocket, sessionVars, Live
  <2>2. CASE Open(Camera) /\ camera' = "connect"
    BY <1>5, <1>u, <2>1, <2>2, OpenKeeps DEF CameraSocket, TableInv, NoneLive
  <2>3. CASE UNCHANGED tableVars /\ camera' = "closed"
    BY <1>5, <2>1, <2>3 DEF CameraSocket, TableInv, NoneLive, Holds
  <2> QED BY <1>5, <2>2, <2>3 DEF CameraSocket
<1>6. CASE CameraConnect \/ CameraTerminates
  <2>1. /\ camera \in {"connect", "connected"} /\ listener' = listener
        /\ \A c \in Clients : Live(c)' <=> Live(c)
    BY <1>6 DEF CameraConnect, CameraTerminates, sessionVars, Live
  <2>2. CASE camera' = "connected" /\ UNCHANGED tableVars
    BY <2>1, <2>2 DEF TableInv, NoneLive, Holds
  <2>3. CASE camera' = "closed" /\ Close(Camera) /\ Holds(Camera)
    BY <1>u, <2>1, <2>3, CloseKeeps DEF TableInv, NoneLive
  <2>4. CASE camera' = "closed" /\ ~Holds(Camera)
    BY <2>1, <2>4 DEF TableInv, NoneLive
  <2> QED BY <1>6, <2>2, <2>3, <2>4 DEF CameraConnect, CameraTerminates
<1>7. CASE \E c \in Clients : ConnThreadMain(c)
  <2> PICK c \in Clients : ConnThreadMain(c)
    BY <1>7
  <2>1. Live(c)
    BY DEF ConnThreadMain, Loop, Receive, ReceiveEof, ReceiveError, HandleRequest,
           Reply, ReplyFails, Live
  <2>2. UNCHANGED <<listener, camera>>
    BY DEF ConnThreadMain, Loop, Receive, ReceiveEof, ReceiveError, HandleRequest,
           Reply, ReplyFails
  <2>3. CASE Loop(c)
    BY <2>1, <2>2, <2>3, SessionMoves DEF Loop
  <2>4. CASE Receive(c)
    BY <2>1, <2>2, <2>4, SessionMoves DEF Receive, Received
  <2>5. CASE ReceiveEof(c)
    BY <2>1, <2>2, <2>5, SessionMoves, SessionCloses DEF ReceiveEof
  <2>6. CASE ReceiveError(c) \/ ReplyFails(c)
    BY <2>1, <2>2, <2>6, SessionCloses DEF ReceiveError, ReplyFails, EndSession
  <2>7. CASE HandleRequest(c)
    BY <2>1, <2>2, <2>7, SessionMoves DEF HandleRequest
  <2>8. CASE Reply(c)
    BY <2>1, <2>2, <2>8, SessionMoves, SessionCloses DEF Reply, AfterReply
  <2> QED BY <2>3, <2>4, <2>5, <2>6, <2>7, <2>8 DEF ConnThreadMain
<1>8. CASE \E c \in Clients : Accept(c)
  <2> PICK c \in Clients : Accept(c)
    BY <1>8
  <2>1. listener = "accept" /\ owner[sock[Listener]] = Listener /\ Open(c)
        /\ UNCHANGED <<listener, camera>>
    BY DEF Accept
  <2>2. \A e \in Clients : e # c => (Live(e)' <=> Live(e))
    BY DEF Accept, TypeOK, Live
  <2>3. \A u \in Users : Holds(u) => Holds(u)'
    BY <1>u, <2>1, OpenKeeps
  <2>4. Holds(c)'
    BY <1>u, <2>1, OpenKeeps
  <2>5. Holds(Listener)
    BY <2>1 DEF Holds, SockInv
  <2> QED BY <1>u, <2>1, <2>2, <2>3, <2>4, <2>5 DEF TableInv
<1>9. CASE \/ \E c \in Clients : \/ ClientCloses(c)
                                 \/ \E text \in Texts : ClientSends(c, text)
           \/ AnnounceClosing \/ JoinListener \/ UNCHANGED vars
  BY <1>9, <1>same DEF ClientCloses, ClientSends, AnnounceClosing, JoinListener, sessionVars, vars
<1>10. CASE Abort
  BY <1>10 DEF Abort, TableInv, NoneLive, Live
<1> QED BY <1>1, <1>2, <1>3, <1>4, <1>5, <1>6, <1>7, <1>8, <1>9, <1>10 DEF Next, Step, ThreadMain

-------------------------------------------------------------------------------
(* The streams' invariant is preserved.                                    *)

LEMMA TextFacts ==
  ASSUME NEW text \in Texts
  PROVE  text \in Seq(Letters) /\ Len(text) \in Nat
<1>1. text \in Seq(Letters)
  BY RotctldAssumption, Zenon
<1> QED BY <1>1

\* What a receive call does: the bytes it took are gone, and the first of them
\* decides what the session does.
LEMMA ReceivedFacts ==
  ASSUME TypeOK, NEW c \in Clients, NEW k \in 1..Len(inbox[c]), Received(c, k)
  PROVE  /\ inbox[c][1] \in Bytes
         /\ \E rest \in Seq(Bytes) :
              /\ command' = [command EXCEPT ![c] = [of |-> inbox[c][1].of,
                                                    letter |-> inbox[c][1].letter]]
              /\ session' = [session EXCEPT ![c] = After[inbox[c][1].letter]]
              /\ inbox' = [inbox EXCEPT ![c] = rest]
              /\ Len(rest) = Len(inbox[c]) - k
              /\ \A i \in 1..Len(rest) : rest[i] = inbox[c][i + k]
<1> DEFINE s    == inbox[c]
           rest == SubSeq(s, k + 1, Len(s))
<1>1. s \in Seq(Bytes)
  BY DEF TypeOK
<1>2. Len(s) \in Nat /\ 1 \in 1..Len(s)
  BY <1>1
<1>3. s[1] \in Bytes
  BY <1>1, <1>2
<1>4. \A i \in k + 1..Len(s) : s[i] \in Bytes
  BY <1>1
<1>5. /\ rest \in Seq(Bytes)
      /\ Len(rest) = IF k + 1 <= Len(s) THEN Len(s) - (k + 1) + 1 ELSE 0
      /\ \A i \in 1..Len(s) - (k + 1) + 1 : rest[i] = s[k + 1 + i - 1]
  <2> HIDE DEF s
  <2>1. k + 1 \in Int /\ Len(s) \in Int
    BY <1>2
  <2> QED BY <1>4, <2>1, SubSeqProperties
<1>6. Len(rest) = Len(s) - k /\ \A i \in 1..Len(rest) : rest[i] = s[i + k]
  BY <1>2, <1>5
<1>7. Head(s) = s[1]
  BY <1>1, <1>2
<1>8. /\ command' = [command EXCEPT ![c] = [of |-> s[1].of, letter |-> s[1].letter]]
      /\ session' = [session EXCEPT ![c] = After[s[1].letter]]
      /\ inbox' = [inbox EXCEPT ![c] = rest]
  BY <1>7 DEF Received
<1> HIDE DEF rest
<1> QED BY <1>3, <1>5, <1>6, <1>8

\* A letter that is known has a request or a reply to come.
LEMMA AfterFacts ==
  ASSUME NEW letter \in Letters
  PROVE  /\ After[letter] \in {"handle", "reply", "loop"}
         /\ After[letter] = "loop" <=> letter = "other"
  BY DEF Letters, After

\* The session goes on with the line in hand, or without one, or has ended.
LEMMA Quiet ==
  ASSUME NEW c \in Clients, Streams(c),
         sent'[c] = sent[c], inbox'[c] = inbox[c], replies'[c] = replies[c],
         client'[c] = "absent" => client[c] = "absent",
         gpredictBugWalkaround' = gpredictBugWalkaround,
         \/ session'[c] = "ended"
         \/ InHand(c) /\ session'[c] \in {"handle", "reply"} /\ command'[c] = command[c]
         \/ ~InHand(c) /\ session[c] # "ended" /\ session'[c] \notin {"handle", "reply"}
  PROVE  Streams(c)'
<1>1. /\ Known(c)' = Known(c) /\ Lettered(c)' = Lettered(c) /\ Strays(c)' = Strays(c)
      /\ Inside(c)' = Inside(c)
  BY DEF Known, Lettered, Strays, Inside
<1>2. \A n : Answered(c, n)' <=> Answered(c, n)
  BY DEF Answered
<1>3. ByteInv(c)'
  BY <1>1 DEF Streams, ByteInv
<1>4. OrderInv(c)'
  BY <1>1 DEF Streams, OrderInv
<1>5. ReplyInv(c)'
  BY <1>1 DEF Streams, ReplyInv, InHand
<1>6. LineInv(c)'
  BY <1>1, <1>2 DEF Streams, LineInv, Pending, InHand
<1> QED BY <1>3, <1>4, <1>5, <1>6 DEF Streams

\* The elements of two sequences, one behind the other.
LEMMA Concatenated ==
  ASSUME NEW S, NEW s \in Seq(S), NEW t \in Seq(S)
  PROVE  /\ s \o t \in Seq(S)
         /\ Len(s) \in Nat /\ Len(t) \in Nat /\ Len(s \o t) = Len(s) + Len(t)
         /\ \A i \in 1..Len(s) : (s \o t)[i] = s[i]
         /\ \A i \in 1..Len(t) : (s \o t)[Len(s) + i] = t[i]
         /\ \A i \in 1..Len(s \o t) : i \in 1..Len(s) \/ i - Len(s) \in 1..Len(t)
<1>n. Len(s) \in Nat /\ Len(t) \in Nat
  OBVIOUS
<1>a. s \o t \in Seq(S) /\ Len(s \o t) = Len(s) + Len(t)
  BY <1>n, ConcatProperties, Zenon
<1>b. \A i \in 1..Len(s) + Len(t) : (s \o t)[i] = IF i <= Len(s) THEN s[i] ELSE t[i - Len(s)]
  BY ConcatProperties, Zenon
<1>1. \A i \in 1..Len(s) : (s \o t)[i] = s[i]
  BY <1>n, <1>b
<1>2. ASSUME NEW i \in 1..Len(t)
      PROVE  (s \o t)[Len(s) + i] = t[i]
  <2>1. Len(s) + i \in 1..Len(s) + Len(t) /\ ~(Len(s) + i <= Len(s)) /\ Len(s) + i - Len(s) = i
    BY <1>n
  <2> QED BY <1>b, <2>1
<1>3. \A i \in 1..Len(s \o t) : i \in 1..Len(s) \/ i - Len(s) \in 1..Len(t)
  BY <1>n, <1>a
<1> QED BY <1>n, <1>a, <1>1, <1>2, <1>3

LEMMA LineFacts ==
  ASSUME NEW n \in Lines, NEW text \in Texts
  PROVE  /\ Line(n, text) \in Seq(Bytes)
         /\ Len(Line(n, text)) = Len(text) + 1
         /\ \A i \in 1..Len(text) + 1 :
              /\ Line(n, text)[i].of = n
              /\ Line(n, text)[i].first <=> i = 1
              /\ Line(n, text)[i].end <=> i = Len(text) + 1
              /\ Line(n, text)[i].letter = IF i <= Len(text) THEN text[i] ELSE "other"
<1>1. text \in Seq(Letters) /\ Len(text) \in Nat /\ Len(text) + 1 \in Nat
  BY TextFacts
<1>2. \A i \in 1..Len(text) : text[i] \in Letters
  BY <1>1
<1> DEFINE m == Len(text) + 1
           b(i) == [of |-> n, first |-> i = 1,
                    letter |-> IF i <= Len(text) THEN text[i] ELSE "other", end |-> i = m]
<1>3. Line(n, text) = [i \in 1..m |-> b(i)]
  BY DEF Line
<1>4. ASSUME NEW i \in 1..m
      PROVE  b(i) \in Bytes
  <2>1. (IF i <= Len(text) THEN text[i] ELSE "other") \in Letters
    BY <1>1, <1>2 DEF Letters
  <2> QED BY <2>1 DEF Bytes
<1>5. \A i \in 1..m : /\ b(i).of = n /\ (b(i).first <=> i = 1) /\ (b(i).end <=> i = m)
                      /\ b(i).letter = IF i <= Len(text) THEN text[i] ELSE "other"
  OBVIOUS
<1> HIDE DEF b, m
<1>6. m \in Nat /\ m = Len(text) + 1
  BY <1>1 DEF m
<1>7. [i \in 1..m |-> b(i)] \in Seq(Bytes) /\ Len([i \in 1..m |-> b(i)]) = m
  BY <1>4, <1>6
<1> QED BY <1>3, <1>5, <1>6, <1>7

LEMMA SendStreams ==
  ASSUME TypeOK, NEW c \in Clients, NEW text \in Texts, Streams(c), ClientSends(c, text),
         gpredictBugWalkaround' = gpredictBugWalkaround
  PROVE  Streams(c)' /\ sent'[c] \in Seq(Texts) /\ inbox'[c] \in Seq(Bytes)
<1> DEFINE L == Len(sent[c])
           n == Len(inbox[c])
           m == Len(text) + 1
           t == Line(L + 1, text)
           s == inbox[c]
           v == inbox'[c]
<1>1. /\ sent[c] \in Seq(Texts) /\ s \in Seq(Bytes) /\ L \in Nat /\ n \in Nat
      /\ m \in Nat /\ m >= 1 /\ text \in Seq(Letters)
  BY TextFacts DEF TypeOK
<1>2. L + 1 \in Lines
  BY <1>1, RotctldAssumption DEF ClientSends, Lines
<1>3. /\ t \in Seq(Bytes) /\ Len(t) = m
      /\ \A i \in 1..m : /\ t[i].of = L + 1 /\ (t[i].first <=> i = 1) /\ (t[i].end <=> i = m)
                         /\ t[i].letter = IF i <= Len(text) THEN text[i] ELSE "other"
  BY <1>2, LineFacts
<1>4. sent'[c] = Append(sent[c], text) /\ v = s \o t
  BY DEF ClientSends, TypeOK
<1>5. /\ sent'[c] \in Seq(Texts) /\ Len(sent'[c]) = L + 1 /\ sent'[c][L + 1] = text
      /\ \A i \in 1..L : sent'[c][i] = sent[c][i]
  BY <1>1, <1>4, AppendProperties
<1> HIDE DEF t
<1>6. /\ v \in Seq(Bytes) /\ Len(v) = n + m
      /\ \A i \in 1..n : v[i] = s[i]
      /\ \A i \in 1..m : v[n + i] = t[i]
      /\ \A i \in 1..n + m : i \in 1..n \/ i - n \in 1..m
  <2> HIDE DEF s, v, m, L
  <2>1. n = Len(s)
    BY DEF s
  <2> HIDE DEF n
  <2>2. /\ s \o t \in Seq(Bytes) /\ Len(s \o t) = Len(s) + Len(t)
        /\ \A i \in 1..Len(s) : (s \o t)[i] = s[i]
        /\ \A i \in 1..Len(t) : (s \o t)[Len(s) + i] = t[i]
        /\ \A i \in 1..Len(s \o t) : i \in 1..Len(s) \/ i - Len(s) \in 1..Len(t)
    <3>1. s \in Seq(Bytes) /\ t \in Seq(Bytes)
      BY <1>1, <1>3
    <3> QED BY <3>1, Concatenated
  <2>3. Len(t) = m
    BY <1>3
  <2> QED BY <1>4, <2>1, <2>2, <2>3, Zenon
<1>7. UNCHANGED <<session, command, replies, client>> /\ client[c] = "open"
  BY DEF ClientSends
<1>8. /\ \A i \in 1..L : /\ i \in Known(c)' <=> i \in Known(c)
                         /\ i \in Lettered(c)' <=> i \in Lettered(c)
                         /\ i \in Strays(c)' <=> i \in Strays(c)
      /\ Known(c) \subseteq 1..L /\ Lettered(c) \subseteq 1..L /\ Strays(c) \subseteq 1..L
      /\ Known(c)' \subseteq 1..L + 1
  <2> HIDE DEF L
  <2>1. Len(sent[c]) = L /\ Len(sent'[c]) = L + 1
    BY <1>5 DEF L
  <2>2. \A i \in 1..L : i \in 1..L + 1 /\ sent'[c][i] = sent[c][i]
    BY <1>1, <1>5
  <2>3. /\ \A i \in 1..L : i \in Known(c)' <=> i \in Known(c)
        /\ Known(c) \subseteq 1..L /\ Known(c)' \subseteq 1..L + 1
    BY <2>1, <2>2 DEF Known
  <2>4. /\ \A i \in 1..L : i \in Lettered(c)' <=> i \in Lettered(c)
        /\ Lettered(c) \subseteq 1..L
    BY <2>1, <2>2 DEF Lettered
  <2> QED BY <2>3, <2>4 DEF Strays
\* A byte that arrives is one of those that were there or of the new line.
<1>9. ASSUME NEW i \in 1..n + m
      PROVE  \/ i \in 1..n /\ v[i] = s[i] /\ s[i].of \in 1..L
             \/ \E j \in 1..m :
                  /\ i = n + j /\ v[i].of = L + 1 /\ (v[i].first <=> j = 1) /\ (v[i].end <=> j = m)
                  /\ v[i].letter = IF j <= Len(text) THEN text[j] ELSE "other"
  <2>1. CASE i \in 1..n
    BY <1>6, <2>1 DEF Streams, ByteInv, Inside
  <2>2. CASE i - n \in 1..m
    <3> DEFINE j == i - n
    <3>1. i = n + j /\ j \in 1..m
      BY <1>1, <2>2
    <3> HIDE DEF j
    <3>2. v[i] = t[j]
      BY <1>6, <3>1
    <3> HIDE DEF v, m, L
    <3> QED BY <1>3, <3>1, <3>2
  <2> QED BY <1>6, <2>1, <2>2
<1>i. Inside(c)' = 1..n + m /\ Inside(c) = 1..n
  BY <1>6 DEF Inside
<1>10. ByteInv(c)'
  <2>1. ASSUME NEW i \in 1..n + m
        PROVE  /\ v[i].of \in 1..L + 1
               /\ v[i].first => v[i].letter = Letter(sent'[c][v[i].of])
               /\ ~v[i].first /\ v[i].letter # "other" => v[i].of \in Lettered(c)'
    <3>1. CASE i \in 1..n /\ v[i] = s[i] /\ s[i].of \in 1..L
      <4>1. /\ s[i].first => s[i].letter = Letter(sent[c][s[i].of])
            /\ ~s[i].first /\ s[i].letter # "other" => s[i].of \in Lettered(c)
        BY <3>1 DEF Streams, ByteInv, Inside
      <4>2. s[i].of \in 1..L + 1
        BY <1>1, <3>1
      <4> QED BY <1>5, <1>8, <3>1, <4>1, <4>2
    <3>2. ASSUME NEW j \in 1..m,
                 i = n + j, v[i].of = L + 1, v[i].first <=> j = 1,
                 v[i].letter = IF j <= Len(text) THEN text[j] ELSE "other"
          PROVE  /\ v[i].of \in 1..L + 1
                 /\ v[i].first => v[i].letter = Letter(sent'[c][v[i].of])
                 /\ ~v[i].first /\ v[i].letter # "other" => v[i].of \in Lettered(c)'
      <4>1. L + 1 \in 1..L + 1
        BY <1>1
      <4>2. ASSUME v[i].first
            PROVE  v[i].letter = Letter(text)
        <5>1. v[i].letter = IF 1 <= Len(text) THEN text[1] ELSE "other"
          BY <3>2, <4>2
        <5>2. text = <<>> <=> ~(1 <= Len(text))
          BY <1>1
        <5> QED BY <5>1, <5>2 DEF Letter
      <4>3. ASSUME ~v[i].first, v[i].letter # "other"
            PROVE  L + 1 \in Lettered(c)'
        <5>1. j \in 2..Len(text) /\ text[j] # "other"
          BY <1>1, <3>2, <4>3
        <5> QED BY <1>5, <4>1, <5>1 DEF Lettered
      <4> QED BY <1>5, <3>2, <4>1, <4>2, <4>3
    <3> QED BY <1>9, <3>1, <3>2
  <2>2. client'[c] # "absent"
    BY <1>7
  <2> QED BY <1>5, <1>i, <2>1, <2>2 DEF ByteInv
\* The old bytes are followed by those of the new line.
<1>o. \A i \in 1..n : i \in 1..n + m /\ v[i] = s[i] /\ s[i].of \in 1..L
  <2>1. \A i \in 1..n : s[i].of \in 1..L
    BY DEF Streams, ByteInv, Inside
  <2> HIDE DEF v, s, n, m, L
  <2>2. \A i \in 1..n : i \in 1..n + m
    BY <1>1
  <2> QED BY <1>6, <2>1, <2>2
<1>t. ASSUME NEW i \in 1..n + m, i \notin 1..n
      PROVE  v[i].of = L + 1 /\ (v[i].first <=> i = n + 1) /\ (v[i].end <=> i = n + m)
  <2>1. PICK j \in 1..m : /\ i = n + j /\ v[i].of = L + 1
                          /\ (v[i].first <=> j = 1) /\ (v[i].end <=> j = m)
    BY <1>9, <1>t
  <2> HIDE DEF v, s, n, m, L
  <2>2. (j = 1 <=> i = n + 1) /\ (j = m <=> i = n + m)
    BY <1>1, <2>1
  <2> QED BY <2>1, <2>2
<1>e. /\ s # <<>> <=> n # 0
      /\ n \in Nat /\ m \in Nat /\ L \in Nat /\ m >= 1
  <2> HIDE DEF m
  <2>1. s = <<>> <=> Len(s) = 0
    BY <1>1
  <2> QED BY <1>1, <2>1
<1>11. OrderInv(c)'
  <2>0. /\ \A i, k \in 1..n : i < k =>
             /\ s[i].of <= s[k].of
             /\ s[k].first => s[i].of < s[k].of
             /\ s[i].of # s[k].of => \E e \in i..(k - 1) : s[e].end
        /\ n # 0 => s[n].end
    BY <1>e DEF Streams, OrderInv, Inside
  <2> HIDE DEF v, s, n, m, L
  <2>1. ASSUME NEW i \in 1..n + m, NEW k \in 1..n + m, i < k
        PROVE  /\ v[i].of <= v[k].of
               /\ v[k].first => v[i].of < v[k].of
               /\ v[i].of # v[k].of => \E e \in i..(k - 1) : v[e].end
    <3>1. CASE k \in 1..n
      <4>1. i \in 1..n /\ \A e \in i..(k - 1) : e \in 1..n
        BY <1>e, <2>1, <3>1
      <4>2. v[i] = s[i] /\ v[k] = s[k] /\ \A e \in i..(k - 1) : v[e] = s[e]
        BY <1>o, <3>1, <4>1
      <4>3. /\ s[i].of <= s[k].of
            /\ s[k].first => s[i].of < s[k].of
            /\ s[i].of # s[k].of => \E e \in i..(k - 1) : s[e].end
        BY <2>0, <2>1, <3>1, <4>1
      <4> QED BY <4>2, <4>3
    <3>2. CASE i \in 1..n /\ k \notin 1..n
      <4>1. v[i].of \in 1..L /\ v[k].of = L + 1
        BY <1>o, <1>t, <3>2
      <4>2. n \in i..(k - 1) /\ n # 0 /\ n \in 1..n
        BY <1>e, <3>2
      <4>3. v[n].end
        BY <1>o, <2>0, <4>2
      <4>4. v[i].of < v[k].of
        BY <1>e, <4>1
      <4> QED BY <1>e, <4>1, <4>2, <4>3, <4>4
    <3>3. CASE i \notin 1..n /\ k \notin 1..n
      <4>1. v[i].of = L + 1 /\ v[k].of = L + 1 /\ (v[k].first <=> k = n + 1)
        BY <1>t, <3>3
      <4>2. k # n + 1
        BY <1>e, <2>1, <3>3
      <4> QED BY <1>e, <4>1, <4>2
    <3> QED BY <1>e, <2>1, <3>1, <3>2, <3>3
  <2>2. v[n + m].end
    <3>1. n + m \in 1..n + m /\ n + m \notin 1..n
      BY <1>e
    <3> QED BY <1>t, <3>1
  <2> QED BY <1>6, <1>i, <2>1, <2>2 DEF OrderInv, v
<1>12. ReplyInv(c)'
  <2>1. ASSUME NEW x \in Known(c) \cup Strays(c), NEW i \in 1..n + m,
               \A k \in 1..n : x <= s[k].of /\ (s[k].first => x < s[k].of)
        PROVE  x <= v[i].of /\ (v[i].first => x < v[i].of)
    <3>1. x \in 1..L
      BY <1>8
    <3>2. CASE i \in 1..n
      BY <1>6, <2>1, <3>2
    <3>3. CASE i \notin 1..n
      <4>1. v[i].of = L + 1
        BY <1>9, <3>3
      <4> HIDE DEF v, s, n, m
      <4> QED BY <1>1, <3>1, <4>1
    <3> QED BY <3>2, <3>3
  <2>2. \A x \in Known(c) \cup Strays(c) : x \in Known(c)' \cup Strays(c)'
    BY <1>8
  <2>3. \A x \in Strays(c) : x \in Strays(c)'
    BY <1>8
  <2>4. ReplyInv(c)
    BY DEF Streams
  <2>5. \A j \in 1..Len(replies[c]) :
          /\ replies[c][j] \in Known(c)' \cup Strays(c)'
          /\ \A i \in 1..n + m :
               replies[c][j] <= v[i].of /\ (v[i].first => replies[c][j] < v[i].of)
    BY <2>1, <2>2, <2>4, <1>i DEF ReplyInv
  <2>6. ASSUME InHand(c)
        PROVE  /\ command[c].of \in Known(c)' \cup Strays(c)'
               /\ \A i \in 1..n + m :
                    command[c].of <= v[i].of /\ (v[i].first => command[c].of < v[i].of)
    BY <2>1, <2>2, <2>4, <2>6, <1>i DEF ReplyInv
  <2>7. /\ \A j \in 2..Len(replies[c]) :
             \/ replies[c][j - 1] < replies[c][j]
             \/ replies[c][j - 1] = replies[c][j] /\ replies[c][j] \in Strays(c)'
        /\ InHand(c) => \A j \in 1..Len(replies[c]) :
             \/ replies[c][j] < command[c].of
             \/ replies[c][j] = command[c].of /\ command[c].of \in Strays(c)'
    BY <2>3, <2>4 DEF ReplyInv
  <2>8. InHand(c)' <=> InHand(c)
    BY <1>7 DEF InHand
  <2> HIDE DEF n, m, L, s
  <2> QED BY <1>7, <1>i, <2>5, <2>6, <2>7, <2>8 DEF ReplyInv
<1>13. LineInv(c)'
  <2>0. ASSUME ~gpredictBugWalkaround
        PROVE  /\ n # 0 => s[1].first
               /\ \A i \in 1..(n - 1) : s[i].end => s[i + 1].first
               /\ session[c] # "ended" => \A x \in Known(c) : Answered(c, x) \/ Pending(c, x)
    BY <1>e, <2>0 DEF Streams, LineInv
  <2>1. \A x : Answered(c, x)' <=> Answered(c, x)
    BY <1>7 DEF Answered
  <2>2. \A x : \/ \E i \in 1..n + m : v[i].of = x
               \/ session[c] \in {"handle", "reply"} /\ command[c].of = x
               => Pending(c, x)'
    BY <1>6, <1>7 DEF Pending
  <2>3. \A x : Pending(c, x) => \/ \E i \in 1..n : s[i].of = x
                                \/ session[c] \in {"handle", "reply"} /\ command[c].of = x
    BY DEF Pending
  <2>4. Len(inbox'[c]) = n + m
    BY <1>6
  <2> HIDE DEF v, s, n, m, L
  <2>5. ASSUME ~gpredictBugWalkaround
        PROVE  v[1].first
    <3>1. CASE n = 0
      <4>1. 1 \in 1..n + m /\ 1 \notin 1..n /\ 1 = n + 1
        BY <1>e, <3>1
      <4> QED BY <1>t, <4>1
    <3>2. CASE n # 0
      <4>1. 1 \in 1..n
        BY <1>e, <3>2
      <4> QED BY <1>o, <2>0, <2>5, <3>2, <4>1
    <3> QED BY <3>1, <3>2
  <2>6. ASSUME ~gpredictBugWalkaround, NEW i \in 1..(n + m - 1), v[i].end
        PROVE  v[i + 1].first
    <3>0. i \in 1..n + m /\ i + 1 \in 1..n + m /\ i # n + m
      BY <1>e
    <3>1. CASE i + 1 \in 1..n
      <4>1. i \in 1..(n - 1) /\ i \in 1..n
        BY <1>e, <3>1
      <4>2. v[i] = s[i] /\ v[i + 1] = s[i + 1]
        BY <1>o, <3>1, <4>1
      <4> QED BY <2>0, <2>6, <4>1, <4>2
    <3>2. CASE i + 1 \notin 1..n
      <4>1. i \in 1..n
        BY <1>t, <2>6, <3>0
      <4>2. i + 1 = n + 1
        BY <1>e, <3>2, <4>1
      <4> QED BY <1>t, <3>0, <3>2, <4>2
    <3> QED BY <3>1, <3>2
  <2>7. ASSUME ~gpredictBugWalkaround, session[c] # "ended", NEW x \in Known(c)'
        PROVE  Answered(c, x)' \/ Pending(c, x)'
    <3>1. CASE x \in Known(c)
      <4>1. \A i \in 1..n : i \in 1..n + m /\ v[i].of = s[i].of
        BY <1>o
      <4> QED BY <2>0, <2>1, <2>2, <2>3, <2>7, <3>1, <4>1
    <3>2. CASE x \notin Known(c)
      <4>1. x = L + 1
        <5>1. x \in 1..L + 1 /\ x \notin 1..L
          BY <1>8, <3>2
        <5> QED BY <1>e, <5>1
      <4>2. n + 1 \in 1..n + m /\ n + 1 \notin 1..n
        BY <1>e
      <4>3. v[n + 1].of = x
        BY <1>t, <4>1, <4>2
      <4> QED BY <2>2, <4>2, <4>3
    <3> QED BY <3>1, <3>2
  <2>8. ASSUME ~gpredictBugWalkaround
        PROVE  inbox'[c][1].first
    BY <2>5, <2>8 DEF v
  <2>9. ASSUME ~gpredictBugWalkaround, NEW i \in 1..(Len(inbox'[c]) - 1), inbox'[c][i].end
        PROVE  inbox'[c][i + 1].first
    <3>1. i \in 1..(n + m - 1)
      BY <1>e, <2>4
    <3>2. inbox'[c] = v
      BY DEF v
    <3> QED BY <2>6, <2>9, <3>1, <3>2
  <2> QED BY <1>7, <2>7, <2>8, <2>9 DEF LineInv
<1> QED BY <1>5, <1>6, <1>10, <1>11, <1>12, <1>13 DEF Streams

LEMMA ReceiveStreams ==
  ASSUME TypeOK, NEW c \in Clients, Streams(c), Receive(c),
         gpredictBugWalkaround' = gpredictBugWalkaround
  PROVE  Streams(c)'
<1>1. PICK k \in 1..Len(inbox[c]) :
        (gpredictBugWalkaround \/ WholeLine(inbox[c], k)) /\ Received(c, k)
  BY DEF Receive
<1> DEFINE s == inbox[c]
           n == Len(s)
           byte == s[1]
<1>2. PICK rest \in Seq(Bytes) :
        /\ command' = [command EXCEPT ![c] = [of |-> byte.of, letter |-> byte.letter]]
        /\ session' = [session EXCEPT ![c] = After[byte.letter]]
        /\ inbox' = [inbox EXCEPT ![c] = rest]
        /\ Len(rest) = n - k
        /\ \A i \in 1..Len(rest) : rest[i] = s[i + k]
  BY <1>1, ReceivedFacts
<1>b. byte \in Bytes
  BY <1>1, ReceivedFacts
<1>3. /\ command'[c].of = byte.of
      /\ session'[c] = After[byte.letter]
      /\ inbox'[c] = rest
  BY <1>2 DEF TypeOK
<1>4. UNCHANGED <<replies, client, sent>> /\ session[c] = "recv"
  BY DEF Receive, clientVars
<1>5. s \in Seq(Bytes) /\ n \in Nat /\ 1 \in 1..n /\ k \in 1..n /\ n \in 1..n
  <2>1. s \in Seq(Bytes)
    BY DEF TypeOK
  <2> QED BY <2>1
<1>6. /\ Known(c)' = Known(c) /\ Lettered(c)' = Lettered(c) /\ Strays(c)' = Strays(c)
      /\ \A x : Answered(c, x)' <=> Answered(c, x)
  BY <1>4 DEF Known, Lettered, Strays, Answered
<1>7. /\ Inside(c) = 1..n /\ Inside(c)' = 1..Len(rest)
      /\ \A i \in 1..Len(rest) : i + k \in 1..n /\ 1 < i + k /\ rest[i] = s[i + k]
  BY <1>2, <1>3, <1>5 DEF Inside
<1>8. ByteInv(c) /\ OrderInv(c) /\ ReplyInv(c) /\ LineInv(c)
  BY DEF Streams
<1> HIDE DEF s
<1>9. ByteInv(c)'
  <2>1. \A i \in 1..n :
          /\ s[i].of \in 1..Len(sent[c])
          /\ s[i].first => s[i].letter = Letter(sent[c][s[i].of])
          /\ ~s[i].first /\ s[i].letter # "other" => s[i].of \in Lettered(c)
    BY <1>7, <1>8 DEF ByteInv, s
  <2>2. \A i \in 1..Len(rest) :
          /\ rest[i].of \in 1..Len(sent[c])
          /\ rest[i].first => rest[i].letter = Letter(sent[c][rest[i].of])
          /\ ~rest[i].first /\ rest[i].letter # "other" => rest[i].of \in Lettered(c)
    BY <1>7, <2>1
  <2>3. client[c] = "absent" => sent[c] = <<>>
    BY <1>8 DEF ByteInv
  <2> QED BY <1>3, <1>4, <1>6, <1>7, <2>2, <2>3 DEF ByteInv
<1>10. OrderInv(c)'
  <2>0. \A i, j \in 1..n : i < j =>
          /\ s[i].of <= s[j].of
          /\ s[j].first => s[i].of < s[j].of
          /\ s[i].of # s[j].of => \E e \in i..(j - 1) : s[e].end
    BY <1>7, <1>8 DEF OrderInv, s
  <2>1. ASSUME NEW i \in 1..Len(rest), NEW j \in 1..Len(rest), i < j
        PROVE  /\ rest[i].of <= rest[j].of
               /\ rest[j].first => rest[i].of < rest[j].of
               /\ rest[i].of # rest[j].of => \E e \in i..(j - 1) : rest[e].end
    <3>1. /\ i + k \in 1..n /\ j + k \in 1..n /\ i + k < j + k
          /\ rest[i] = s[i + k] /\ rest[j] = s[j + k]
      BY <1>5, <1>7, <2>1
    <3>2. /\ s[i + k].of <= s[j + k].of
          /\ s[j + k].first => s[i + k].of < s[j + k].of
          /\ s[i + k].of # s[j + k].of => \E e \in i + k..(j + k - 1) : s[e].end
      BY <2>0, <3>1
    <3>3. ASSUME NEW e \in i + k..(j + k - 1), s[e].end
          PROVE  \E x \in i..(j - 1) : rest[x].end
      <4>1. e - k \in i..(j - 1) /\ e - k \in 1..Len(rest) /\ e - k + k = e
        BY <1>2, <1>5
      <4> QED BY <1>7, <3>3, <4>1
    <3> QED BY <3>1, <3>2, <3>3
  <2>2. ASSUME rest # <<>>
        PROVE  rest[Len(rest)].end
    <3>1. Len(rest) \in 1..Len(rest) /\ Len(rest) + k = n
      BY <1>2, <1>5, <2>2
    <3>2. s # <<>>
      BY <1>5
    <3> QED BY <1>7, <1>8, <3>1, <3>2 DEF OrderInv, s
  <2> QED BY <1>3, <1>7, <2>1, <2>2 DEF OrderInv
\* The line in hand is that of the first byte.
<1>11. ASSUME session'[c] \in {"handle", "reply"}
       PROVE  /\ byte.of \in Known(c) \cup Strays(c)
              /\ byte.first \/ byte.of \in Strays(c)
              /\ byte.of \in Int
  <2>1. byte.letter \in Letters /\ byte.letter # "other"
    BY <1>b, <1>3, <1>11, AfterFacts DEF Bytes
  <2>2. byte.of \in 1..Len(sent[c])
    BY <1>5, <1>7, <1>8 DEF ByteInv, s
  <2>3. CASE byte.first
    <3>1. byte.letter = Letter(sent[c][byte.of])
      BY <1>5, <1>7, <1>8, <2>3 DEF ByteInv, s
    <3> QED BY <2>1, <2>2, <2>3, <3>1 DEF Known
  <2>4. CASE ~byte.first
    <3>1. byte.of \in Lettered(c)
      BY <1>5, <1>7, <1>8, <2>1, <2>4 DEF ByteInv, s
    <3>2. gpredictBugWalkaround
      BY <1>5, <1>8, <2>4 DEF LineInv, s
    <3> QED BY <2>2, <3>1, <3>2 DEF Strays
  <2> QED BY <2>3, <2>4
<1>12. ReplyInv(c)'
  <2>1. ASSUME NEW j \in 1..Len(replies[c])
        PROVE  /\ replies[c][j] \in Known(c) \cup Strays(c)
               /\ replies[c][j] <= byte.of /\ (byte.first => replies[c][j] < byte.of)
               /\ \A i \in 1..Len(rest) :
                    /\ replies[c][j] <= rest[i].of
                    /\ rest[i].first => replies[c][j] < rest[i].of
    <3>1. /\ replies[c][j] \in Known(c) \cup Strays(c)
          /\ \A i \in 1..n : /\ replies[c][j] <= s[i].of
                             /\ s[i].first => replies[c][j] < s[i].of
      BY <1>7, <1>8 DEF ReplyInv, s
    <3> HIDE DEF n
    <3> QED BY <1>5, <1>7, <3>1
  <2>2. ASSUME NEW i \in 1..Len(rest)
        PROVE  byte.of <= rest[i].of /\ (rest[i].first => byte.of < rest[i].of)
    BY <1>5, <1>7, <1>8 DEF OrderInv, s
  <2>3. \A j \in 2..Len(replies[c]) :
          \/ replies[c][j - 1] < replies[c][j]
          \/ replies[c][j - 1] = replies[c][j] /\ replies[c][j] \in Strays(c)
    BY <1>8 DEF ReplyInv
  <2>4. ASSUME session'[c] \in {"handle", "reply"}, NEW j \in 1..Len(replies[c])
        PROVE  \/ replies[c][j] < byte.of
               \/ replies[c][j] = byte.of /\ byte.of \in Strays(c)
    <3>1. replies[c][j] \in Int
      BY <2>1 DEF Known, Strays, Lettered
    <3> HIDE DEF byte
    <3> QED BY <1>11, <2>1, <2>4, <3>1
  <2> HIDE DEF byte
  <2> QED BY <1>3, <1>4, <1>6, <1>7, <1>11, <2>1, <2>2, <2>3, <2>4 DEF ReplyInv, InHand
<1>13. LineInv(c)'
  <2> SUFFICES ASSUME ~gpredictBugWalkaround
               PROVE  /\ rest # <<>> => rest[1].first
                      /\ \A i \in 1..(Len(rest) - 1) : rest[i].end => rest[i + 1].first
                      /\ \A x \in Known(c) : Answered(c, x) \/ Pending(c, x)'
    BY <1>3, <1>6 DEF LineInv
  <2>1. /\ byte.first
        /\ \A i \in 1..(n - 1) : s[i].end => s[i + 1].first
        /\ \A x \in Known(c) : Answered(c, x) \/ Pending(c, x)
    <3>1. LineInv(c) /\ ~gpredictBugWalkaround /\ session[c] # "ended"
      BY <1>4, <1>8
    <3>2. s # <<>>
      BY <1>5
    <3> QED BY <3>1, <3>2 DEF LineInv, s
  <2>2. s[k].end /\ \A i \in 1..(k - 1) : ~s[i].end
    BY <1>1 DEF WholeLine, s
  <2>3. ASSUME rest # <<>>
        PROVE  rest[1].first
    <3>1. 1 \in 1..Len(rest) /\ k \in 1..(n - 1) /\ 1 + k = k + 1
      BY <1>2, <1>5, <2>3
    <3> QED BY <1>7, <2>1, <2>2, <3>1
  <2>4. ASSUME NEW i \in 1..(Len(rest) - 1), rest[i].end
        PROVE  rest[i + 1].first
    <3>1. /\ i \in 1..Len(rest) /\ i + 1 \in 1..Len(rest) /\ i + k \in 1..(n - 1)
          /\ i + 1 + k = i + k + 1
      BY <1>2, <1>5
    <3> HIDE DEF n
    <3>2. \A x \in 1..Len(rest) : rest[x] = s[x + k]
      BY <1>7
    <3>3. rest[i] = s[i + k] /\ rest[i + 1] = s[i + 1 + k]
      BY <3>1, <3>2, Zenon
    <3> QED BY <2>1, <2>4, <3>1, <3>3
\* What was taken belongs to one line.
  <2>5. ASSUME NEW i \in 1..k
        PROVE  s[i].of = byte.of
    <3>1. CASE i = 1
      BY <3>1
    <3>2. CASE i # 1
      <4>1. i \in 1..n /\ 1 < i /\ \A e \in 1..(i - 1) : e \in 1..(k - 1)
        BY <1>5, <3>2
      <4> QED BY <1>5, <1>7, <1>8, <2>2, <4>1 DEF OrderInv, s
    <3> QED BY <3>1, <3>2
  <2>6. ASSUME NEW x \in Known(c), ~Answered(c, x)
        PROVE  Pending(c, x)'
    <3>1. PICK i \in 1..n : s[i].of = x
      BY <1>4, <2>1, <2>6 DEF Pending, s
    <3>2. CASE i \in 1..k
      <4>1. byte.of = x
        BY <2>5, <3>1, <3>2
      <4>2. byte.letter # "other"
        BY <1>5, <1>7, <1>8, <2>1, <2>6, <4>1 DEF ByteInv, Known, s
      <4>3. session'[c] \in {"handle", "reply"}
        BY <1>b, <1>3, <4>2, AfterFacts DEF Bytes
      <4> QED BY <1>3, <4>1, <4>3 DEF Pending
    <3>3. CASE i \notin 1..k
      <4>1. i - k \in 1..Len(rest) /\ i - k + k = i
        BY <1>2, <1>5, <3>3
      <4>2. rest[i - k].of = x
        BY <1>7, <3>1, <4>1
      <4> QED BY <1>3, <4>1, <4>2 DEF Pending
    <3> QED BY <3>2, <3>3
  <2> QED BY <2>3, <2>4, <2>6
<1> QED BY <1>9, <1>10, <1>12, <1>13 DEF Streams

LEMMA ReplyStreams ==
  ASSUME TypeOK, NEW c \in Clients, Streams(c), Reply(c),
         gpredictBugWalkaround' = gpredictBugWalkaround
  PROVE  Streams(c)' /\ replies'[c] \in Seq(Lines)
<1> DEFINE r == replies[c]
           n == command[c].of
<1>1. /\ session[c] = "reply" /\ session'[c] \in {"loop", "ended"}
      /\ UNCHANGED <<command, inbox, client, sent>>
      /\ replies'[c] = Append(r, n)
  BY DEF Reply, Replied, AfterReply, TypeOK, clientVars
<1>2. ByteInv(c) /\ OrderInv(c) /\ ReplyInv(c) /\ LineInv(c) /\ InHand(c)
  BY <1>1 DEF Streams, InHand
<1>3. n \in Lines /\ r \in Seq(Lines)
  <2>1. command[c] \in [of : Lines \cup {0}, letter : Letters]
    BY DEF TypeOK
  <2>2. n \in Known(c) \cup Strays(c)
    BY <1>2 DEF ReplyInv
  <2> QED BY <2>1, <2>2 DEF TypeOK, Known, Strays, Lettered
<1>4. /\ Append(r, n) \in Seq(Lines) /\ Len(Append(r, n)) = Len(r) + 1 /\ Len(r) \in Nat
      /\ \A i \in 1..Len(r) : Append(r, n)[i] = r[i]
      /\ Append(r, n)[Len(r) + 1] = n
  <2> HIDE DEF r, n
  <2>1. Len(r) \in Nat
    BY <1>3
  <2> QED BY <1>3, <2>1, AppendProperties
<1>5. /\ Known(c)' = Known(c) /\ Lettered(c)' = Lettered(c) /\ Strays(c)' = Strays(c)
      /\ Inside(c)' = Inside(c)
  BY <1>1 DEF Known, Lettered, Strays, Inside
<1>6. ByteInv(c)' /\ OrderInv(c)'
  BY <1>1, <1>2, <1>5 DEF ByteInv, OrderInv
<1>7. \A i \in 1..Len(r) + 1 : i \in 1..Len(r) \/ i = Len(r) + 1
  BY <1>4
<1>8. ReplyInv(c)'
  <2>1. \A i \in 1..Len(r) + 1 :
          /\ Append(r, n)[i] \in Known(c) \cup Strays(c)
          /\ \A k \in Inside(c) :
               /\ Append(r, n)[i] <= inbox[c][k].of
               /\ inbox[c][k].first => Append(r, n)[i] < inbox[c][k].of
    BY <1>2, <1>4, <1>7 DEF ReplyInv
  <2>2. ASSUME NEW i \in 2..Len(r) + 1
        PROVE  \/ Append(r, n)[i - 1] < Append(r, n)[i]
               \/ Append(r, n)[i - 1] = Append(r, n)[i] /\ Append(r, n)[i] \in Strays(c)
    <3>1. i - 1 \in 1..Len(r) /\ (i \in 2..Len(r) \/ i = Len(r) + 1)
      BY <1>4
    <3>2. CASE i \in 2..Len(r)
      <4>1. i \in 1..Len(r)
        BY <3>1, <3>2
      <4> QED BY <1>2, <1>4, <3>1, <3>2, <4>1 DEF ReplyInv
    <3>3. CASE i = Len(r) + 1
      BY <1>2, <1>4, <3>1, <3>3 DEF ReplyInv
    <3> QED BY <3>1, <3>2, <3>3
  <2>3. ~InHand(c)'
    BY <1>1 DEF InHand
  <2> HIDE DEF r, n
  <2> QED BY <1>1, <1>4, <1>5, <2>1, <2>2, <2>3 DEF ReplyInv
<1>9. LineInv(c)'
  <2>1. \A m : Answered(c, m) \/ m = n => Answered(c, m)'
    BY <1>1, <1>4 DEF Answered, r
  <2>2. \A m : Pending(c, m) => m = n \/ Pending(c, m)'
    BY <1>1 DEF Pending
  <2> QED BY <1>1, <1>2, <1>5, <2>1, <2>2 DEF LineInv
<1> QED BY <1>1, <1>4, <1>6, <1>8, <1>9 DEF Streams

\* Only its own session and its own client touch a client's stream.
LEMMA StreamStep ==
  ASSUME TypeOK, StreamInv, [Next]_vars
  PROVE  StreamInv'
<1> SUFFICES ASSUME NEW c \in Clients, Streams(c)
             PROVE  Streams(c)'
  BY DEF StreamInv
<1> USE DEF sessionVars, clientVars
<1>g. gpredictBugWalkaround' = gpredictBugWalkaround
  BY DEF Next, vars
<1>idle. ASSUME UNCHANGED <<session, command, inbox, replies, sent, client>>
         PROVE  Streams(c)'
  BY <1>idle, <1>g, Quiet DEF InHand
<1>other. ASSUME NEW e \in Clients, e # c,
                 ConnThreadMain(e) \/ Accept(e) \/ ClientCloses(e)
                 \/ \E text \in Texts : ClientSends(e, text)
          PROVE  Streams(c)'
  <2>1. /\ session'[c] = session[c] /\ command'[c] = command[c] /\ inbox'[c] = inbox[c]
        /\ replies'[c] = replies[c] /\ sent'[c] = sent[c] /\ client'[c] = client[c]
    BY <1>other DEF TypeOK, ConnThreadMain, Loop, Receive, Received, ReceiveEof, ReceiveError,
       EndSession, HandleRequest, Reply, ReplyFails, Accept, ClientCloses, ClientSends
  <2> QED BY <1>g, <2>1, Quiet DEF InHand
<1>1. CASE ThreadMain \/ AcceptFails
  BY <1>1, <1>idle DEF ThreadMain, ListenerSocket, Bind, Listen, AcceptFails
<1>2. CASE CameraSocket \/ CameraConnect \/ CameraTerminates
  BY <1>2, <1>idle DEF CameraSocket, CameraConnect, CameraTerminates
<1>3. CASE Loop(c) \/ ReceiveEof(c) \/ ReceiveError(c) \/ HandleRequest(c) \/ ReplyFails(c)
  <2>1. UNCHANGED <<command, inbox, replies, sent, client>>
    BY <1>3 DEF Loop, ReceiveEof, ReceiveError, HandleRequest, ReplyFails
  <2>2. \/ session'[c] = "ended"
        \/ session[c] = "handle" /\ session'[c] = "reply"
        \/ session[c] \in {"loop", "recv"} /\ session'[c] \in {"recv", "spin"}
    BY <1>3 DEF TypeOK, Loop, ReceiveEof, AfterEof, ReceiveError, HandleRequest, ReplyFails,
       EndSession
  <2> QED BY <1>g, <2>1, <2>2, Quiet DEF InHand
<1>4. CASE Receive(c)
  BY <1>4, <1>g, ReceiveStreams
<1>5. CASE Reply(c)
  BY <1>5, <1>g, ReplyStreams
<1>6. CASE Accept(c)
  <2>1. UNCHANGED <<command, inbox, replies, sent>> /\ client'[c] = "open"
    BY <1>6 DEF Accept, TypeOK
  <2>2. session'[c] = "loop" /\ client[c] = "absent"
    BY <1>6 DEF Accept, TypeOK
  <2>3. /\ Known(c)' = Known(c) /\ Lettered(c)' = Lettered(c) /\ Strays(c)' = Strays(c)
        /\ Inside(c)' = Inside(c)
    BY <1>g, <2>1 DEF Known, Lettered, Strays, Inside
  <2>4. Known(c) = {}
    BY <2>2 DEF Streams, ByteInv, Known
  <2>5. ByteInv(c)' /\ OrderInv(c)'
    BY <2>1, <2>3 DEF Streams, ByteInv, OrderInv
  <2>6. ReplyInv(c)'
    BY <2>1, <2>2, <2>3 DEF Streams, ReplyInv, InHand
  <2>7. LineInv(c)'
    BY <1>g, <2>1, <2>3, <2>4 DEF Streams, LineInv
  <2> QED BY <2>5, <2>6, <2>7 DEF Streams
<1>7. CASE ClientCloses(c)
  <2>1. UNCHANGED <<session, command, inbox, replies, sent>> /\ client'[c] = "closed"
    BY <1>7 DEF ClientCloses, TypeOK
  <2> QED BY <1>g, <2>1, Quiet DEF InHand
<1>8. CASE \E text \in Texts : ClientSends(c, text)
  BY <1>8, <1>g, SendStreams
<1>9. CASE AnnounceClosing \/ JoinListener \/ UNCHANGED vars
  BY <1>9, <1>idle DEF AnnounceClosing, JoinListener, vars
<1>10. CASE Abort
  <2>1. UNCHANGED <<command, inbox, replies, sent, client>> /\ session'[c] = "ended"
    BY <1>10 DEF Abort
  <2> QED BY <1>g, <2>1, Quiet DEF InHand
<1> QED BY <1>1, <1>2, <1>3, <1>4, <1>5, <1>6, <1>7, <1>8, <1>9, <1>10, <1>other
        DEF Next, Step, ConnThreadMain

-------------------------------------------------------------------------------
(* Types.                                                                  *)

LEMMA TypeStep ==
  ASSUME TypeOK, StreamInv, [Next]_vars
  PROVE  TypeOK'
<1> USE DEF sessionVars, clientVars, tableVars, stopVars
<1>u. Listener \in Users /\ Camera \in Users /\ \A c \in Clients : c \in Users
  BY DEF Users
<1>t. /\ owner' \in [Descriptors -> Users \cup {Nobody}]
      /\ sock' \in [Users -> Descriptors \cup {NoDescriptor}]
  <2>1. CASE ThreadMain \/ AcceptFails \/ CameraSocket \/ CameraConnect \/ CameraTerminates
    BY <1>u, <2>1, OpenType, CloseType DEF TypeOK, ThreadMain, ListenerSocket, Bind, Listen,
       AcceptFails, CameraSocket, CameraConnect, CameraTerminates
  <2>2. CASE \E c \in Clients : ConnThreadMain(c)
    BY <1>u, <2>2, CloseType DEF TypeOK, ConnThreadMain, Loop, Receive, ReceiveEof,
       ReceiveError, EndSession, HandleRequest, Reply, ReplyFails
  <2>3. CASE \E c \in Clients : Accept(c)
    BY <1>u, <2>3, OpenType DEF Accept
  <2>4. CASE \/ \E c \in Clients : \/ ClientCloses(c)
                                   \/ \E text \in Texts : ClientSends(c, text)
             \/ AnnounceClosing \/ JoinListener \/ UNCHANGED vars
    BY <2>4 DEF TypeOK, ClientCloses, ClientSends, AnnounceClosing, JoinListener, vars
  <2>5. CASE Abort
    BY <2>5 DEF TypeOK, Abort
  <2> QED BY <2>1, <2>2, <2>3, <2>4, <2>5 DEF Next, Step
<1>p. /\ listener' \in {"socket", "bind", "listen", "accept", "ended"}
      /\ camera' \in {"socket", "connect", "connected", "closed"}
      /\ gpredictBugWalkaround' \in BOOLEAN
      /\ threadClosing' \in BOOLEAN /\ terminate' \in {"idle", "join", "returned"}
      /\ process' \in {"running", "aborted"}
  <2>1. CASE ThreadMain \/ AcceptFails \/ CameraSocket \/ CameraConnect \/ CameraTerminates
    BY <2>1 DEF TypeOK, Next, Step, Abort, vars, ThreadMain, ListenerSocket, Bind, Listen,
       AcceptFails, CameraSocket, CameraConnect, CameraTerminates
  <2>2. CASE \E c \in Clients : ConnThreadMain(c)
    BY <2>2 DEF TypeOK, Next, Step, Abort, vars, ConnThreadMain, Loop, Receive, ReceiveEof,
       ReceiveError, EndSession, HandleRequest, Reply, ReplyFails
  <2>3. CASE \E c \in Clients : \/ Accept(c) \/ ClientCloses(c)
                                \/ \E text \in Texts : ClientSends(c, text)
    <3>1. UNCHANGED <<listener, camera, stopVars, gpredictBugWalkaround>>
      BY <2>3 DEF Next, vars, Accept, ClientCloses, ClientSends
    <3>2. process' \in {"running", "aborted"}
      BY DEF TypeOK, Next, Abort, vars
    <3> QED BY <3>1, <3>2 DEF TypeOK
  <2>6. CASE UNCHANGED vars
    BY <2>6 DEF TypeOK, vars
  <2>4. CASE AnnounceClosing \/ JoinListener
    BY <2>4 DEF TypeOK, Next, Step, Abort, vars, AnnounceClosing, JoinListener
  <2>5. CASE Abort
    BY <2>5 DEF TypeOK, Next, Abort, vars
  <2> QED BY <2>1, <2>2, <2>3, <2>4, <2>5, <2>6 DEF Next, Step
<1>s. /\ session' \in [Clients -> {"none", "loop", "recv", "handle", "reply", "spin", "ended"}]
      /\ command' \in [Clients -> [of : Lines \cup {0}, letter : Letters]]
      /\ client' \in [Clients -> {"absent", "open", "closed"}]
  <2>1. CASE UNCHANGED <<session, command, client>>
    BY <2>1 DEF TypeOK
  <2>2. CASE \E c \in Clients : \/ Loop(c) \/ ReceiveEof(c) \/ ReceiveError(c)
                                \/ HandleRequest(c) \/ Reply(c) \/ ReplyFails(c)
    BY <2>2 DEF TypeOK, Loop, ReceiveEof, AfterEof, ReceiveError, HandleRequest, Reply,
       AfterReply, ReplyFails, EndSession
  <2>3. CASE \E c \in Clients : Receive(c)
    <3> PICK c \in Clients : Receive(c)
      BY <2>3
    <3>0. PICK k \in 1..Len(inbox[c]) : Received(c, k)
      BY DEF Receive
    <3>1. /\ inbox[c][1] \in Bytes
          /\ command' = [command EXCEPT ![c] = [of |-> inbox[c][1].of, letter |-> inbox[c][1].letter]]
          /\ session' = [session EXCEPT ![c] = After[inbox[c][1].letter]]
      BY <3>0, ReceivedFacts
    <3>2. inbox[c][1].of \in Lines /\ inbox[c][1].letter \in Letters
      BY <3>1 DEF Bytes
    <3>3. UNCHANGED client
      BY DEF Receive
    <3> QED BY <3>1, <3>2, <3>3, AfterFacts DEF TypeOK
  <2>4. CASE \E c \in Clients : Accept(c) \/ ClientCloses(c)
    BY <2>4 DEF TypeOK, Accept, ClientCloses
  <2>5. CASE Abort
    BY <2>5 DEF TypeOK, Abort
  <2>6. CASE ThreadMain \/ AcceptFails \/ CameraSocket \/ CameraConnect \/ CameraTerminates
    BY <2>1, <2>6 DEF ThreadMain, ListenerSocket, Bind, Listen,
       AcceptFails, CameraSocket, CameraConnect, CameraTerminates
  <2>7. CASE \/ \E c \in Clients, text \in Texts : ClientSends(c, text)
             \/ AnnounceClosing \/ JoinListener \/ UNCHANGED vars
    BY <2>1, <2>7 DEF ClientSends, AnnounceClosing, JoinListener, vars
  <2> QED BY <2>2, <2>3, <2>4, <2>5, <2>6, <2>7 DEF Next, Step, ConnThreadMain
<1>q. /\ sent' \in [Clients -> Seq(Texts)]
      /\ inbox' \in [Clients -> Seq(Bytes)]
      /\ replies' \in [Clients -> Seq(Lines)]
  <2>1. CASE UNCHANGED <<sent, inbox, replies>>
    BY <2>1 DEF TypeOK
  <2>2. CASE \E c \in Clients : Receive(c)
    <3> PICK c \in Clients : Receive(c)
      BY <2>2
    <3>1. PICK rest \in Seq(Bytes) : inbox' = [inbox EXCEPT ![c] = rest]
      BY ReceivedFacts DEF Receive
    <3> QED BY <3>1 DEF Receive, TypeOK
  <2>3. CASE \E c \in Clients : Reply(c)
    <3> PICK c \in Clients : Reply(c)
      BY <2>3
    <3>1. replies'[c] \in Seq(Lines)
      BY ReplyStreams DEF Next, vars, StreamInv, TypeOK
    <3> QED BY <3>1 DEF Reply, Replied, TypeOK
  <2>4. CASE \E c \in Clients, text \in Texts : ClientSends(c, text)
    <3> PICK c \in Clients, text \in Texts : ClientSends(c, text)
      BY <2>4
    <3>1. sent'[c] \in Seq(Texts) /\ inbox'[c] \in Seq(Bytes)
      BY SendStreams DEF Next, vars, StreamInv
    <3> QED BY <3>1 DEF ClientSends, TypeOK
  <2>5. CASE \E c \in Clients : \/ Loop(c) \/ ReceiveEof(c) \/ ReceiveError(c) \/ HandleRequest(c)
                                \/ ReplyFails(c) \/ Accept(c) \/ ClientCloses(c)
    BY <2>1, <2>5 DEF Loop, ReceiveEof, ReceiveError, HandleRequest, ReplyFails, Accept, ClientCloses
  <2>6. CASE ThreadMain \/ AcceptFails \/ CameraSocket \/ CameraConnect \/ CameraTerminates
    BY <2>1, <2>6 DEF ThreadMain, ListenerSocket, Bind, Listen,
       AcceptFails, CameraSocket, CameraConnect, CameraTerminates
  <2>7. CASE AnnounceClosing \/ JoinListener \/ Abort \/ UNCHANGED vars
    BY <2>1, <2>7 DEF AnnounceClosing, JoinListener, Abort, vars
  <2> QED BY <2>2, <2>3, <2>4, <2>5, <2>6, <2>7 DEF Next, Step, ConnThreadMain
<1> QED BY <1>t, <1>p, <1>s, <1>q DEF TypeOK

-------------------------------------------------------------------------------
(* The theorems.                                                           *)

LEMMA InvariantHolds == Spec => []IInv
<1>1. Init => IInv
  <2> SUFFICES ASSUME Init PROVE IInv
    OBVIOUS
  <2>1. TypeOK
    <3>1. <<>> \in Seq(Texts) /\ <<>> \in Seq(Bytes) /\ <<>> \in Seq(Lines)
      OBVIOUS
    <3>2. [of |-> 0, letter |-> "other"] \in [of : Lines \cup {0}, letter : Letters]
      BY DEF Letters
    <3> QED BY <3>1, <3>2 DEF Init, TypeOK
  <2>2. SockInv /\ TableInv
    BY DEF Init, SockInv, TableInv, NoneLive, Live
  <2>3. ASSUME NEW c \in Clients
        PROVE  Streams(c)
    <3>1. /\ sent[c] = <<>> /\ inbox[c] = <<>> /\ replies[c] = <<>>
          /\ session[c] = "none"
      BY DEF Init
    <3>2. /\ Known(c) = {} /\ Inside(c) = {} /\ Len(inbox[c]) = 0 /\ Len(replies[c]) = 0
          /\ ~InHand(c)
      BY <3>1 DEF Known, Inside, InHand
    <3>3. ByteInv(c) /\ OrderInv(c) /\ ReplyInv(c)
      BY <3>1, <3>2 DEF ByteInv, OrderInv, ReplyInv
    <3>4. LineInv(c)
      BY <3>1, <3>2 DEF LineInv
    <3> QED BY <3>3, <3>4 DEF Streams
  <2> QED BY <2>1, <2>2, <2>3 DEF IInv, StreamInv
<1>2. IInv /\ [Next]_vars => IInv'
  BY TypeStep, SockStep, TableStep, StreamStep DEF IInv
<1> QED BY <1>1, <1>2, PTL DEF Spec

\* Every variable of the listener, of the sessions and of the clients has its
\* type in every reachable state, for any number of clients, lines and
\* descriptors: a session takes the letter of a line from what was sent.
THEOREM SourceTypeCorrect == Spec => []TypeOK
<1>1. IInv => TypeOK
  BY DEF IInv
<1> QED BY <1>1, InvariantHolds, PTL

\* Whatever the listener closes twice and the camera opens meanwhile, a session
\* of connThreadMain owns its descriptor as long as it lasts.
THEOREM SessionDescriptorsIntact == Spec => []DescriptorsIntact
<1>1. IInv => DescriptorsIntact
  BY DEF IInv, TableInv, DescriptorsIntact, Live, Holds
<1> QED BY <1>1, InvariantHolds, PTL

\* Wherever in their bytes the network cuts the lines, connThreadMain replies to
\* them in their order: to those that have a reply, and to none twice.  Reading
\* by lines it replies to no other and, as long as it lasts, loses none; with
\* the walkaround it may also reply, even twice, to a line that has one of the
\* letters inside.
THEOREM SessionRepliesInOrder == Spec => []RepliesInOrder
<1>1. IInv => RepliesInOrder
  BY DEF IInv, StreamInv, Streams, ReplyInv, LineInv, RepliesInOrder
<1> QED BY <1>1, InvariantHolds, PTL
===============================================================================
