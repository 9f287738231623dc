-------------------------- MODULE WebsocketsProofs ---------------------------
(***************************************************************************)
(* Proofs about Websockets, for any set of pages, any settings and any     *)
(* buffer capacity: the type invariant, what a server reads from a page,   *)
(* who may miss a broadcast, and the refinement of MessageFeed.            *)
(***************************************************************************)
EXTENDS Websockets, TLAPS

\* The steps of Next that leave the server alone, by action.
LEMMA ClientCases ==
  ASSUME NEW p \in Pages, ClientNext(p) \/ RefuseStopping(p)
  PROVE  \/ Load(p) \/ ClickClose(p) \/ ClickSend(p) \/ BeforeUnload(p) \/ onopen(p)
         \/ onmessage(p) \/ onclose(p) \/ DropMessage(p) \/ HandleCloseFrame(p) \/ Cut(p)
BY DEF ClientNext, PageEvent, Break, Refuse, RefuseStopping

\* Every step, by action.
LEMMA NextCases ==
  ASSUME Next
  PROVE  \/ \E p \in Pages :
              /\ UNCHANGED serverVars
              /\ \/ Load(p) \/ ClickClose(p) \/ ClickSend(p) \/ BeforeUnload(p) \/ onopen(p)
                 \/ onmessage(p) \/ onclose(p) \/ DropMessage(p) \/ HandleCloseFrame(p) \/ Cut(p)
         \/ \E p \in Pages : \/ Accept(p) \/ IgnoreText(p) \/ AnswerText(p) \/ ReceiveClose(p)
                             \/ CloseDone(p) \/ ConnectionLost(p)
         \/ \E s \in Sources, p \in Pages : SendStr(s, p) \/ SendNothing(s, p) \/ SendFails(s, p)
         \/ push \/ TakeFromQueue \/ SendTime \/ OnShutdown
BY ClientCases DEF Next, HandlerStep, BroadcastStep

-----------------------------------------------------------------------------
(***************************************************************************)
(* Types.                                                                  *)
(***************************************************************************)
LEMMA FrameTypes ==
  /\ ServerClose \in Frames
  /\ ServerClose.type = "close"
  /\ \A f \in Frames : f.type = "text" => f.source \in Sources /\ f.n \in Nat
  /\ \A s \in Sources, n \in Nat : /\ Text(s, n) \in Frames
                                   /\ Text(s, n).type = "text"
                                   /\ Text(s, n).source = s
                                   /\ Text(s, n).n = n
BY DEF Frames, ServerClose, Text

\* The parts of the type invariant that a page's steps change.
PageTypes ==
  /\ socket \in [Pages -> SocketStates]
  /\ sent \in [Pages -> Seq(Texts)]
  /\ received \in [Pages -> [Sources -> Seq(Nat)]]
  /\ openAt \in [Pages -> Nat \cup {-1}]
  /\ link \in [Pages -> {"none", "up", "fin", "cut"}]
  /\ up \in [Pages -> Seq(Texts \cup {CloseFrame})]
  /\ down \in [Pages -> Seq(Frames)]

LEMMA TransmitTypes ==
  ASSUME PageTypes, NEW p \in Pages, NEW frame \in Texts \cup {CloseFrame}, Transmit(p, frame)
  PROVE  /\ link' \in [Pages -> {"none", "up", "fin", "cut"}]
         /\ up' \in [Pages -> Seq(Texts \cup {CloseFrame})]
         /\ down' \in [Pages -> Seq(Frames)]
BY DEF PageTypes, Transmit

LEMMA CutTypes ==
  ASSUME PageTypes, NEW p \in Pages, CutLink(p)
  PROVE  /\ link' \in [Pages -> {"none", "up", "fin", "cut"}]
         /\ up' \in [Pages -> Seq(Texts \cup {CloseFrame})]
         /\ down' \in [Pages -> Seq(Frames)]
<1>1. <<>> \in Seq(Frames) /\ <<>> \in Seq(Texts \cup {CloseFrame})
  OBVIOUS
<1> QED
  BY <1>1 DEF PageTypes, CutLink

LEMMA CloseTypes ==
  ASSUME PageTypes, NEW p \in Pages, close(p)
  PROVE  /\ link' \in [Pages -> {"none", "up", "fin", "cut"}]
         /\ up' \in [Pages -> Seq(Texts \cup {CloseFrame})]
         /\ down' \in [Pages -> Seq(Frames)]
BY TransmitTypes, CutTypes DEF close, PageTypes, network

LEMMA SendTypes ==
  ASSUME PageTypes, NEW p \in Pages, NEW msg \in Texts, NEW readyState, send(p, msg, readyState)
  PROVE  /\ sent' \in [Pages -> Seq(Texts)]
         /\ link' \in [Pages -> {"none", "up", "fin", "cut"}]
         /\ up' \in [Pages -> Seq(Texts \cup {CloseFrame})]
         /\ down' \in [Pages -> Seq(Frames)]
<1>1. Append(sent[p], msg) \in Seq(Texts)
  BY DEF PageTypes
<1>2. sent' \in [Pages -> Seq(Texts)]
  BY <1>1 DEF send, Log, PageTypes
<1>3. CASE readyState = "OPEN"
  BY <1>2, <1>3, TransmitTypes DEF send
<1>4. CASE readyState # "OPEN"
  BY <1>2, <1>4 DEF send, PageTypes, network
<1> QED
  BY <1>3, <1>4

LEMMA ClosingTypes ==
  ASSUME PageTypes, NEW p \in Pages
  PROVE  [socket EXCEPT ![p] = ClosingState(p)] \in [Pages -> SocketStates]
BY DEF PageTypes, ClosingState, SocketStates

\* A step of a page keeps the types.
LEMMA ClientTypes ==
  ASSUME PageTypes, NEW p \in Pages,
         \/ Load(p) \/ ClickClose(p) \/ ClickSend(p) \/ BeforeUnload(p) \/ onopen(p)
         \/ onmessage(p) \/ onclose(p) \/ DropMessage(p) \/ HandleCloseFrame(p) \/ Cut(p)
  PROVE  PageTypes' /\ setting' = setting
<1>1. CASE Load(p)
  BY <1>1 DEF Load, PageTypes, SocketStates, network
<1>2. CASE ClickClose(p)
  BY <1>2, CloseTypes, ClosingTypes DEF ClickClose, PageTypes, page
<1>3. CASE ClickSend(p)
  <2>1. PICK msg \in Typed : send(p, msg, socket[p])
    BY <1>3 DEF ClickSend
  <2>2. msg \in Texts
    BY DEF Texts
  <2> QED
    BY <1>3, <2>1, <2>2, SendTypes DEF ClickSend, PageTypes
<1>4. CASE BeforeUnload(p)
  BY <1>4, CloseTypes, ClosingTypes DEF BeforeUnload, PageTypes, page
<1>5. CASE onopen(p)
  <2>1. Hello \in Texts
    BY DEF Texts
  <2>2. Len(sent[p]) \in Nat
    BY DEF PageTypes
  <2> QED
    BY <1>5, <2>1, <2>2, SendTypes DEF onopen, PageTypes, SocketStates
<1>6. CASE onmessage(p)
  <2> DEFINE f == Head(down[p])
  <2>1. f \in Frames /\ Tail(down[p]) \in Seq(Frames)
    BY <1>6 DEF onmessage, PageTypes
  <2>2. f.source \in Sources /\ f.n \in Nat
    BY <1>6, <2>1, FrameTypes DEF onmessage
  <2>3. Log(received[p], f.source, f.n) \in [Sources -> Seq(Nat)]
    BY <2>2 DEF Log, PageTypes
  <2>4. received' = [received EXCEPT ![p] = Log(received[p], f.source, f.n)]
    BY <1>6 DEF onmessage
  <2> HIDE DEF f
  <2>5. received' \in [Pages -> [Sources -> Seq(Nat)]]
    BY <2>3, <2>4 DEF PageTypes
  <2> QED
    BY <1>6, <2>1, <2>5 DEF onmessage, PageTypes
<1>7. CASE onclose(p)
  BY <1>7 DEF onclose, PageTypes, SocketStates, page, network
<1>8. CASE DropMessage(p)
  BY <1>8 DEF DropMessage, PageTypes, page
<1>9. CASE HandleCloseFrame(p)
  <2>1. up' \in [Pages -> Seq(Texts \cup {CloseFrame})]
    BY <1>9 DEF HandleCloseFrame, PageTypes
  <2>2. down' \in [Pages -> Seq(Frames)]
    BY <1>9 DEF HandleCloseFrame, PageTypes
  <2> QED
    BY <1>9, <2>1, <2>2 DEF HandleCloseFrame, PageTypes, SocketStates, page
<1>10. CASE Cut(p)
  BY <1>10, CutTypes DEF Cut, PageTypes, page
<1> QED
  BY <1>1, <1>2, <1>3, <1>4, <1>5, <1>6, <1>7, <1>8, <1>9, <1>10

\* The parts of the type invariant that a server's steps change.
ServerTypes ==
  /\ handler \in [Pages -> {"none", "run", "closing", "done"}]
  /\ clients \in SUBSET Pages
  /\ todo \in [Sources -> SUBSET Pages]
  /\ count \in [Sources -> Nat]
  /\ got \in [Pages -> Seq(Texts)]
  /\ queue \in Nat
  /\ bg \in {"run", "done"}
  /\ stopping \in BOOLEAN

LEMMA TypeParts == TypeOK <=> setting \in Settings /\ PageTypes /\ ServerTypes
BY DEF TypeOK, PageTypes, ServerTypes

LEMMA SourceTypes == Pages \subseteq Sources /\ Background \in Sources
BY WebsocketsAssumption

LEMMA PublishTypes ==
  ASSUME ServerTypes, NEW s \in Sources, Publish(s)
  PROVE  todo' \in [Sources -> SUBSET Pages] /\ count' \in [Sources -> Nat]
BY DEF ServerTypes, Publish

LEMMA AbandonTypes ==
  ASSUME ServerTypes, NEW s \in Sources, Abandon(s)
  PROVE  todo' \in [Sources -> SUBSET Pages] /\ count' \in [Sources -> Nat]
BY DEF ServerTypes, Abandon

LEMMA VisitedTypes ==
  ASSUME ServerTypes, NEW s \in Sources, NEW p \in Pages, Visited(s, p)
  PROVE  todo' \in [Sources -> SUBSET Pages] /\ count' \in [Sources -> Nat]
BY DEF ServerTypes, Visited

LEMMA CloseWebsocketTypes ==
  ASSUME PageTypes, ServerTypes, NEW p \in Pages, CloseWebsocket(p)
  PROVE  /\ handler' \in [Pages -> {"none", "run", "closing", "done"}]
         /\ down' \in [Pages -> Seq(Frames)]
BY FrameTypes DEF CloseWebsocket, PageTypes, ServerTypes

LEMMA LeaveTypes ==
  ASSUME ServerTypes, NEW p \in Pages, Leave(p)
  PROVE  handler' \in [Pages -> {"none", "run", "closing", "done"}] /\ clients' \in SUBSET Pages
BY DEF ServerTypes, Leave

\* What the message loop takes from a connection.
LEMMA ReadTypes ==
  ASSUME PageTypes, NEW p \in Pages, up[p] # <<>>
  PROVE  /\ Head(up[p]) \in Texts \cup {CloseFrame}
         /\ [up EXCEPT ![p] = Tail(@)] \in [Pages -> Seq(Texts \cup {CloseFrame})]
BY DEF PageTypes

\* A step of the coroutine of a websocket keeps the types.
LEMMA HandlerTypes ==
  ASSUME PageTypes, ServerTypes, NEW p \in Pages,
         Accept(p) \/ IgnoreText(p) \/ AnswerText(p) \/ ReceiveClose(p) \/ CloseDone(p) \/ ConnectionLost(p)
  PROVE  PageTypes' /\ ServerTypes' /\ setting' = setting
<1> USE SourceTypes
<1>1. CASE Accept(p)
  BY <1>1 DEF Accept, PageTypes, ServerTypes, page, broadcast, bgVars
<1>2. CASE IgnoreText(p)
  <2>1. up[p] # <<>> /\ Head(up[p]) \in Texts
    BY <1>2, ReadTypes DEF IgnoreText, Receiving
  <2>2. got' \in [Pages -> Seq(Texts)]
    BY <1>2, <2>1 DEF IgnoreText, ServerTypes
  <2> QED
    BY <1>2, <2>1, <2>2, ReadTypes DEF IgnoreText, PageTypes, ServerTypes, page, broadcast, bgVars
<1>3. CASE AnswerText(p)
  <2>1. up[p] # <<>> /\ Head(up[p]) \in Texts
    BY <1>3, ReadTypes DEF AnswerText, Receiving
  <2>2. got' \in [Pages -> Seq(Texts)]
    BY <1>3, <2>1 DEF AnswerText, ServerTypes
  <2>3. CASE Head(up[p]) = "close"
    <3>1. CloseWebsocket(p) /\ UNCHANGED broadcast
      BY <1>3, <2>3 DEF AnswerText
    <3> QED
      BY <1>3, <2>1, <2>2, <3>1, ReadTypes, CloseWebsocketTypes
         DEF AnswerText, PageTypes, ServerTypes, page, broadcast, bgVars
  <2>4. CASE Head(up[p]) # "close"
    <3>1. Publish(p) /\ UNCHANGED <<handler, down>>
      BY <1>3, <2>4 DEF AnswerText
    <3> QED
      BY <1>3, <2>1, <2>2, <3>1, ReadTypes, PublishTypes
         DEF AnswerText, PageTypes, ServerTypes, page, bgVars
  <2> QED
    BY <2>3, <2>4
<1>4. CASE ReceiveClose(p)
  BY <1>4, ReadTypes, CloseWebsocketTypes
     DEF ReceiveClose, Receiving, PageTypes, ServerTypes, page, broadcast, bgVars
<1>5. CASE CloseDone(p)
  BY <1>5, LeaveTypes DEF CloseDone, PageTypes, ServerTypes, page, broadcast, bgVars
<1>6. CASE ConnectionLost(p)
  BY <1>6, LeaveTypes, AbandonTypes
     DEF ConnectionLost, PageTypes, ServerTypes, clientVars, page, network, bgVars
<1> QED
  BY <1>1, <1>2, <1>3, <1>4, <1>5, <1>6

\* A step of a broadcast keeps the types.
LEMMA BroadcastTypes ==
  ASSUME PageTypes, ServerTypes, NEW s \in Sources, NEW p \in Pages,
         SendStr(s, p) \/ SendNothing(s, p) \/ SendFails(s, p)
  PROVE  PageTypes' /\ ServerTypes' /\ setting' = setting
<1>1. CASE SendStr(s, p)
  <2>1. Text(s, count[s]) \in Frames
    BY FrameTypes DEF ServerTypes
  <2>2. down' \in [Pages -> Seq(Frames)]
    BY <1>1, <2>1 DEF SendStr, PageTypes
  <2> QED
    BY <1>1, <2>2, VisitedTypes DEF SendStr, PageTypes, ServerTypes, page, bgVars
<1>2. CASE SendNothing(s, p)
  BY <1>2, VisitedTypes DEF SendNothing, PageTypes, ServerTypes, clientVars, page, network, bgVars
<1>3. CASE SendFails(s, p)
  BY <1>3, AbandonTypes DEF SendFails, PageTypes, ServerTypes, clientVars, page, network, bgVars
<1> QED
  BY <1>1, <1>2, <1>3

\* A step of a background task, or one that feeds or stops it, keeps the types.
LEMMA BackgroundTypes ==
  ASSUME PageTypes, ServerTypes, push \/ TakeFromQueue \/ SendTime \/ OnShutdown
  PROVE  PageTypes' /\ ServerTypes' /\ setting' = setting
<1> USE SourceTypes
<1>1. CASE push
  BY <1>1 DEF push, PageTypes, ServerTypes, clientVars, page, network, broadcast
<1>2. CASE TakeFromQueue
  BY <1>2, PublishTypes DEF TakeFromQueue, PageTypes, ServerTypes, clientVars, page, network
<1>3. CASE SendTime
  BY <1>3, PublishTypes DEF SendTime, PageTypes, ServerTypes, clientVars, page, network
<1>4. CASE OnShutdown
  BY <1>4, AbandonTypes DEF OnShutdown, PageTypes, ServerTypes, clientVars, page, network
<1> QED
  BY <1>1, <1>2, <1>3, <1>4

\* The type invariant of the pages, their connections and the servers.
THEOREM TypeCorrect == Spec => []TypeOK
<1>1. Init => TypeOK
  <2>1. ASSUME Init
        PROVE  setting \in Settings /\ PageTypes /\ ServerTypes
    <3>1. \A S : <<>> \in Seq(S)
      OBVIOUS
    <3>2. ServerTypes
      BY <2>1, <3>1 DEF Init, ServerTypes
    <3>3. received \in [Pages -> [Sources -> Seq(Nat)]]
      BY <2>1, <3>1 DEF Init, ClientInit
    <3>4. openAt \in [Pages -> Nat \cup {-1}]
      BY <2>1 DEF Init, ClientInit
    <3>5. /\ sent \in [Pages -> Seq(Texts)]
          /\ up \in [Pages -> Seq(Texts \cup {CloseFrame})]
          /\ down \in [Pages -> Seq(Frames)]
      BY <2>1, <3>1 DEF Init, ClientInit
    <3>6. /\ socket \in [Pages -> SocketStates]
          /\ link \in [Pages -> {"none", "up", "fin", "cut"}]
      BY <2>1 DEF Init, ClientInit, SocketStates
    <3> QED
      BY <2>1, <3>2, <3>3, <3>4, <3>5, <3>6 DEF Init, ClientInit, PageTypes
  <2> QED
    BY <2>1, TypeParts
<1>2. TypeOK /\ [Next]_vars => TypeOK'
  <2> SUFFICES ASSUME TypeOK, [Next]_vars
               PROVE  TypeOK'
    OBVIOUS
  <2>1. setting \in Settings /\ PageTypes /\ ServerTypes
    BY TypeParts
  <2>2. SUFFICES setting' = setting /\ PageTypes' /\ ServerTypes'
    BY <2>1 DEF TypeOK, PageTypes, ServerTypes
  <2>3. CASE UNCHANGED vars
    BY <2>1, <2>3 DEF vars, clientVars, page, network, serverVars, broadcast, bgVars, PageTypes, ServerTypes
  <2>4. CASE Next
    <3>1. ASSUME NEW p \in Pages, UNCHANGED serverVars,
                 \/ Load(p) \/ ClickClose(p) \/ ClickSend(p) \/ BeforeUnload(p) \/ onopen(p)
                 \/ onmessage(p) \/ onclose(p) \/ DropMessage(p) \/ HandleCloseFrame(p) \/ Cut(p)
          PROVE  setting' = setting /\ PageTypes' /\ ServerTypes'
      <4>1. ServerTypes'
        BY <2>1, <3>1 DEF ServerTypes, serverVars, broadcast, bgVars
      <4> QED
        BY <2>1, <3>1, <4>1, ClientTypes
    <3> QED
      BY <2>1, <2>4, <3>1, NextCases, HandlerTypes, BroadcastTypes, BackgroundTypes
  <2> QED
    BY <2>3, <2>4
<1> QED
  BY <1>1, <1>2, PTL DEF Spec

-----------------------------------------------------------------------------
(***************************************************************************)
(* Who may miss a broadcast.                                               *)
(***************************************************************************)
\* A websocket whose message loop runs is registered, and has not been closed by the
\* server.
Registered ==
  \A p \in Pages : handler[p] = "run" => p \in clients /\ link[p] \in {"up", "cut"}

\* A step of a page leaves the connections as they are, or cuts its own.
LEMMA ClientLink ==
  ASSUME NEW p \in Pages,
         \/ Load(p) \/ ClickClose(p) \/ ClickSend(p) \/ BeforeUnload(p) \/ onopen(p)
         \/ onmessage(p) \/ onclose(p) \/ DropMessage(p) \/ HandleCloseFrame(p) \/ Cut(p)
  PROVE  link' = link \/ link' = [link EXCEPT ![p] = "cut"]
<1>1. ASSUME close(p)
      PROVE  link' = link \/ link' = [link EXCEPT ![p] = "cut"]
  BY <1>1 DEF close, CutLink, Transmit, network
<1>2. ASSUME NEW msg, NEW readyState, send(p, msg, readyState)
      PROVE  link' = link
  BY <1>2 DEF send, Transmit, network
<1> QED
  BY <1>1, <1>2 DEF Load, ClickClose, ClickSend, BeforeUnload, onopen, onmessage, onclose,
                    DropMessage, HandleCloseFrame, Cut, CutLink, network

LEMMA RegisteredStep ==
  ASSUME TypeOK, Registered, [Next]_vars
  PROVE  Registered'
<1> USE DEF Registered
<1>1. ASSUME NEW p \in Pages, UNCHANGED serverVars,
             \/ Load(p) \/ ClickClose(p) \/ ClickSend(p) \/ BeforeUnload(p) \/ onopen(p)
             \/ onmessage(p) \/ onclose(p) \/ DropMessage(p) \/ HandleCloseFrame(p) \/ Cut(p)
      PROVE  Registered'
  BY <1>1, ClientLink DEF serverVars, TypeOK
<1>2. ASSUME NEW p \in Pages,
             Accept(p) \/ IgnoreText(p) \/ AnswerText(p) \/ ReceiveClose(p) \/ CloseDone(p) \/ ConnectionLost(p)
      PROVE  Registered'
  <2>1. CASE Accept(p)
    BY <2>1 DEF Accept, TypeOK
  <2>2. CASE IgnoreText(p)
    BY <2>2 DEF IgnoreText
  <2>3. CASE AnswerText(p)
    BY <2>3 DEF AnswerText, CloseWebsocket, TypeOK
  <2>4. CASE ReceiveClose(p)
    BY <2>4 DEF ReceiveClose, CloseWebsocket, TypeOK
  <2>5. CASE CloseDone(p)
    BY <2>5 DEF CloseDone, Leave, TypeOK
  <2>6. CASE ConnectionLost(p)
    BY <2>6 DEF ConnectionLost, Leave, TypeOK, clientVars, network
  <2> QED
    BY <1>2, <2>1, <2>2, <2>3, <2>4, <2>5, <2>6
<1>3. ASSUME NEW s \in Sources, NEW p \in Pages, SendStr(s, p) \/ SendNothing(s, p) \/ SendFails(s, p)
      PROVE  Registered'
  BY <1>3 DEF SendStr, SendNothing, SendFails, clientVars, network
<1>4. ASSUME push \/ TakeFromQueue \/ SendTime \/ OnShutdown
      PROVE  Registered'
  BY <1>4 DEF push, TakeFromQueue, SendTime, OnShutdown, clientVars, network
<1>5. CASE UNCHANGED vars
  BY <1>5 DEF vars, clientVars, network, serverVars
<1> QED
  BY <1>1, <1>2, <1>3, <1>4, <1>5, NextCases

\* Every websocket whose coroutine is in its message loop is in the set of clients, so a
\* broadcast begins with it (process_websocket, ws_handler).
THEOREM AllRegistered == Spec => []Registered
<1>1. Init => Registered
  BY DEF Init, Registered
<1> QED
  BY <1>1, TypeCorrect, RegisteredStep, PTL DEF Spec

\* What MissedOnlyWhenAnotherLeft says of a step, for one sender and one page.
MissedOnly(s, p) ==
  Connected(p) /\ Connected(p)' =>
    /\ count'[s] # count[s] => p \in todo'[s]
    /\ p \in todo[s] \ todo'[s] =>
         Has(p, s, count[s])' \/ \E q \in (todo[s] \cup {s}) \ {p} : Gone(q)'

\* A sender starts a broadcast when its last one is over.
LEMMA PublishMissesNone ==
  ASSUME TypeOK, Registered, NEW t \in Sources, Publish(t), todo[t] = {},
         NEW s \in Sources, NEW p \in Pages
  PROVE  MissedOnly(s, p)
<1>1. Connected(p) => p \in clients
  BY DEF Registered, Connected, Writable
<1>2. CASE s = t
  BY <1>1, <1>2 DEF MissedOnly, Publish, TypeOK
<1>3. CASE s # t
  BY <1>3 DEF MissedOnly, Publish, TypeOK
<1> QED
  BY <1>2, <1>3

\* An abandoned broadcast is one whose sender has gone, or that met a client that has.
LEMMA AbandonMisses ==
  ASSUME TypeOK, NEW t \in Sources, Abandon(t),
         NEW q, q \in todo[t] \cup {t}, Gone(q)',
         NEW s \in Sources, NEW p \in Pages, Connected(p)' => q # p
  PROVE  MissedOnly(s, p)
<1>1. CASE s = t
  BY <1>1 DEF MissedOnly, Abandon, TypeOK
<1>2. CASE s # t
  BY <1>2 DEF MissedOnly, Abandon, TypeOK
<1> QED
  BY <1>1, <1>2

LEMMA MissedStep ==
  ASSUME TypeOK, Registered, [Next]_vars, NEW s \in Sources, NEW p \in Pages
  PROVE  MissedOnly(s, p)
<1> USE SourceTypes
<1>0. ASSUME UNCHANGED broadcast
      PROVE  MissedOnly(s, p)
  BY <1>0 DEF MissedOnly, broadcast
<1>1. ASSUME NEW q \in Pages,
             Accept(q) \/ IgnoreText(q) \/ AnswerText(q) \/ ReceiveClose(q) \/ CloseDone(q) \/ ConnectionLost(q)
      PROVE  MissedOnly(s, p)
  <2>1. CASE Accept(q) \/ IgnoreText(q) \/ ReceiveClose(q) \/ CloseDone(q)
    BY <2>1, <1>0 DEF Accept, IgnoreText, ReceiveClose, CloseDone
  <2>2. CASE AnswerText(q)
    BY <2>2, <1>0, PublishMissesNone DEF AnswerText, Receiving
  <2>3. CASE ConnectionLost(q)
    <3>1. Abandon(q) /\ handler'[q] = "done"
      BY <2>3 DEF ConnectionLost, Leave, TypeOK
    <3>2. Gone(q)' /\ ~Connected(q)'
      BY <3>1, WebsocketsAssumption DEF Gone, Connected, Writable
    <3> QED
      BY <3>1, <3>2, AbandonMisses
  <2> QED
    BY <1>1, <2>1, <2>2, <2>3
<1>2. ASSUME NEW t \in Sources, NEW q \in Pages, SendStr(t, q) \/ SendNothing(t, q) \/ SendFails(t, q)
      PROVE  MissedOnly(s, p)
  <2>1. CASE SendStr(t, q)
    <3>1. CASE s = t /\ q = p
      <4>1. down'[p] = Append(down[p], Text(s, count[s])) /\ count' = count
        BY <2>1, <3>1 DEF SendStr, Visited, TypeOK
      <4>2. down[p] \in Seq(Frames) /\ Text(s, count[s]) \in Frames
        BY FrameTypes DEF TypeOK
      <4>3. /\ Len(down[p]) + 1 \in DOMAIN Append(down[p], Text(s, count[s]))
            /\ Append(down[p], Text(s, count[s]))[Len(down[p]) + 1] = Text(s, count[s])
        BY <4>2
      <4>4. Has(p, s, count[s])'
        BY <4>1, <4>3 DEF Has
      <4> QED
        BY <4>1, <4>4 DEF MissedOnly
    <3>2. CASE ~(s = t /\ q = p)
      BY <2>1, <3>2 DEF SendStr, Visited, MissedOnly, TypeOK
    <3> QED
      BY <3>1, <3>2
  <2>2. CASE SendNothing(t, q)
    <3>1. q = p => ~Connected(p)
      BY <2>2 DEF SendNothing, Connected, Writable
    <3> QED
      BY <2>2, <3>1 DEF SendNothing, Visited, MissedOnly, TypeOK
  <2>3. CASE SendFails(t, q)
    <3>1. q \in todo[t] /\ ~Writable(q) /\ Abandon(t) /\ link' = link /\ handler' = handler
      BY <2>3 DEF SendFails, clientVars, network
    <3>2. Gone(q)' /\ ~Connected(q)'
      BY <3>1, WebsocketsAssumption DEF Gone, Connected, Writable, Registered
    <3> QED
      BY <3>1, <3>2, AbandonMisses
  <2> QED
    BY <1>2, <2>1, <2>2, <2>3
<1>3. CASE push \/ TakeFromQueue \/ SendTime
  BY <1>3, <1>0, PublishMissesNone DEF push, TakeFromQueue, SendTime
<1>4. CASE OnShutdown
  <2>1. Abandon(Background) /\ Gone(Background)' /\ Background # p
    BY <1>4, WebsocketsAssumption DEF OnShutdown, Gone
  <2> QED
    BY <2>1, AbandonMisses
<1>5. ASSUME UNCHANGED serverVars \/ UNCHANGED vars
      PROVE  MissedOnly(s, p)
  BY <1>5, <1>0 DEF vars, serverVars
<1> QED
  BY <1>1, <1>2, <1>3, <1>4, <1>5, NextCases

\* A message is broadcast to every connected client, and a client that stays connected
\* misses it only when another one, or the sender, has gone (_websock_broadcast).
THEOREM MissedOnlyWhenGone == Spec => MissedOnlyWhenAnotherLeft
<1>1. ASSUME TypeOK, Registered, [Next]_vars
      PROVE  [\A s \in Sources, p \in Pages : MissedOnly(s, p)]_vars
  BY <1>1, MissedStep
<1>2. Spec => [][\A s \in Sources, p \in Pages : MissedOnly(s, p)]_vars
  BY <1>1, TypeCorrect, AllRegistered, PTL DEF Spec
<1> QED
  BY <1>2 DEF MissedOnlyWhenAnotherLeft, MissedOnly

-----------------------------------------------------------------------------
(***************************************************************************)
(* The refinement of MessageFeed.                                          *)
(***************************************************************************)
\* The messages of source s on their way to a page (d) and in its log (r), when s has
\* published c messages and may be about to send the last one to the page (busy).
OrderedFor(d, r, s, c, busy) ==
  /\ \A i \in DOMAIN d : d[i].type = "text" /\ d[i].source = s =>
       /\ d[i].n \in 1..c
       /\ busy => d[i].n < c
       /\ \A j \in 1..(i - 1) : d[j].type = "text" /\ d[j].source = s => d[j].n < d[i].n
       /\ \A k \in DOMAIN r : r[k] < d[i].n
  /\ \A k \in DOMAIN r : r[k] <= c /\ (busy => r[k] < c)
  /\ busy => c > 0

Ordered ==
  \A p \in Pages, s \in Sources : OrderedFor(down[p], received[p][s], s, count[s], p \in todo[s])

\* A page consumes a frame without logging it.
LEMMA OrderedTail ==
  ASSUME NEW d \in Seq(Frames), d # <<>>, NEW r \in Seq(Nat), NEW s, NEW c \in Nat,
         NEW busy, OrderedFor(d, r, s, c, busy)
  PROVE  OrderedFor(Tail(d), r, s, c, busy)
<1>1. /\ Len(Tail(d)) = Len(d) - 1 /\ Len(d) \in Nat
      /\ DOMAIN Tail(d) = 1..(Len(d) - 1) /\ DOMAIN d = 1..Len(d)
      /\ \A i \in 1..(Len(d) - 1) : Tail(d)[i] = d[i + 1]
  OBVIOUS
<1>2. ASSUME NEW i \in DOMAIN Tail(d), Tail(d)[i].type = "text", Tail(d)[i].source = s
      PROVE  /\ Tail(d)[i].n \in 1..c
             /\ busy => Tail(d)[i].n < c
             /\ \A j \in 1..(i - 1) : Tail(d)[j].type = "text" /\ Tail(d)[j].source = s
                                    => Tail(d)[j].n < Tail(d)[i].n
             /\ \A k \in DOMAIN r : r[k] < Tail(d)[i].n
  <2>1. i \in Nat /\ i + 1 \in DOMAIN d /\ Tail(d)[i] = d[i + 1]
    BY <1>1
  <2>2. \A j \in 1..(i - 1) : Tail(d)[j] = d[j + 1] /\ j + 1 \in 1..((i + 1) - 1)
    BY <1>1, <2>1
  <2> QED
    BY <1>2, <2>1, <2>2 DEF OrderedFor
<1> QED
  BY <1>2 DEF OrderedFor

\* A page logs the frame it consumes.
LEMMA OrderedReceive ==
  ASSUME NEW d \in Seq(Frames), d # <<>>, NEW r \in Seq(Nat), NEW s \in Sources, NEW c \in Nat,
         NEW busy, OrderedFor(d, r, s, c, busy),
         Head(d).type = "text", Head(d).source = s
  PROVE  /\ OrderedFor(Tail(d), Append(r, Head(d).n), s, c, busy)
         /\ Head(d).n \in 1..c
         /\ \A k \in DOMAIN r : r[k] < Head(d).n
<1>1. 1 \in DOMAIN d /\ d[1] = Head(d) /\ d[1] \in Frames
  OBVIOUS
<1>2. /\ Head(d).n \in 1..c
      /\ busy => Head(d).n < c
      /\ \A k \in DOMAIN r : r[k] < Head(d).n
  BY <1>1 DEF OrderedFor
<1>3. OrderedFor(Tail(d), r, s, c, busy)
  BY OrderedTail
<1> DEFINE m == Head(d).n
           r1 == Append(r, m)
<1>4. /\ m \in Nat /\ DOMAIN r1 = 1..(Len(r) + 1) /\ Len(r) \in Nat
      /\ \A k \in 1..Len(r) : r1[k] = r[k] /\ k \in DOMAIN r
      /\ r1[Len(r) + 1] = m
  BY <1>2
<1>5. ASSUME NEW i \in DOMAIN Tail(d), Tail(d)[i].type = "text", Tail(d)[i].source = s
      PROVE  \A k \in DOMAIN r1 : r1[k] < Tail(d)[i].n
  <2>1. i \in Nat /\ i + 1 \in DOMAIN d /\ Tail(d)[i] = d[i + 1] /\ 1 \in 1..((i + 1) - 1)
    BY <1>1
  <2>2. m < Tail(d)[i].n
    BY <1>1, <1>5, <2>1 DEF OrderedFor
  <2>3. \A k \in DOMAIN r : r[k] < Tail(d)[i].n
    BY <1>3, <1>5 DEF OrderedFor
  <2> DEFINE x == Tail(d)[i].n
  <2> HIDE DEF m, r1, x
  <2>4. m < x /\ \A k \in DOMAIN r : r[k] < x
    BY <2>2, <2>3 DEF x
  <2>5. ASSUME NEW k \in DOMAIN r1
        PROVE  r1[k] < x
    <3>1. CASE k \in 1..Len(r)
      BY <1>4, <2>4, <3>1
    <3>2. CASE k = Len(r) + 1
      BY <1>4, <2>4, <3>2
    <3>3. k \in 1..Len(r) \/ k = Len(r) + 1
      BY <1>4
    <3> QED
      BY <3>1, <3>2, <3>3
  <2> QED
    BY <2>5 DEF x
<1>6. \A k \in DOMAIN r1 : r1[k] <= c /\ (busy => r1[k] < c)
  <2>1. \A k \in DOMAIN r : r[k] <= c /\ (busy => r[k] < c)
    BY DEF OrderedFor
  <2>2. m <= c /\ (busy => m < c)
    BY <1>2
  <2> HIDE DEF m, r1
  <2> QED
    BY <1>4, <2>1, <2>2
<1>7. OrderedFor(Tail(d), r1, s, c, busy)
  <2> HIDE DEF m, r1
  <2> QED
    BY <1>3, <1>5, <1>6 DEF OrderedFor
<1> QED
  BY <1>2, <1>7

\* The server appends a frame that is not a message of s.
LEMMA OrderedOther ==
  ASSUME NEW d \in Seq(Frames), NEW f \in Frames, NEW r \in Seq(Nat), NEW s, NEW c \in Nat,
         NEW busy, OrderedFor(d, r, s, c, busy),
         ~(f.type = "text" /\ f.source = s)
  PROVE  OrderedFor(Append(d, f), r, s, c, busy)
<1> DEFINE e == Append(d, f)
<1>1. /\ DOMAIN e = 1..(Len(d) + 1) /\ Len(d) \in Nat /\ DOMAIN d = 1..Len(d)
      /\ \A i \in 1..Len(d) : e[i] = d[i]
      /\ e[Len(d) + 1] = f
  OBVIOUS
<1> HIDE DEF e
<1>2. ASSUME NEW i \in DOMAIN e, e[i].type = "text", e[i].source = s
      PROVE  /\ e[i].n \in 1..c
             /\ busy => e[i].n < c
             /\ \A j \in 1..(i - 1) : e[j].type = "text" /\ e[j].source = s => e[j].n < e[i].n
             /\ \A k \in DOMAIN r : r[k] < e[i].n
  <2>1. i \in DOMAIN d /\ e[i] = d[i] /\ \A j \in 1..(i - 1) : e[j] = d[j]
    BY <1>1, <1>2
  <2> QED
    BY <1>2, <2>1 DEF OrderedFor
<1>3. OrderedFor(e, r, s, c, busy)
  BY <1>2 DEF OrderedFor
<1> QED
  BY <1>3 DEF e

\* The server appends the message of s it is busy with.
LEMMA OrderedText ==
  ASSUME NEW d \in Seq(Frames), NEW r \in Seq(Nat), NEW s \in Sources, NEW c \in Nat,
         OrderedFor(d, r, s, c, TRUE)
  PROVE  OrderedFor(Append(d, Text(s, c)), r, s, c, FALSE)
<1> DEFINE f == Text(s, c)
           e == Append(d, f)
<1>1. f \in Frames /\ f.n = c
  BY FrameTypes
<1>2. /\ DOMAIN e = 1..(Len(d) + 1) /\ Len(d) \in Nat /\ DOMAIN d = 1..Len(d)
      /\ \A i \in 1..Len(d) : e[i] = d[i]
      /\ e[Len(d) + 1] = f
  BY <1>1
<1> HIDE DEF e, f
<1>3. ASSUME NEW i \in DOMAIN e, e[i].type = "text", e[i].source = s
      PROVE  /\ e[i].n \in 1..c
             /\ \A j \in 1..(i - 1) : e[j].type = "text" /\ e[j].source = s => e[j].n < e[i].n
             /\ \A k \in DOMAIN r : r[k] < e[i].n
  <2>1. CASE i \in 1..Len(d)
    <3>1. e[i] = d[i] /\ i \in DOMAIN d /\ \A j \in 1..(i - 1) : e[j] = d[j]
      BY <1>2, <2>1
    <3> QED
      BY <1>3, <3>1 DEF OrderedFor
  <2>2. CASE i = Len(d) + 1
    <3>1. e[i].n = c /\ \A j \in 1..(i - 1) : e[j] = d[j] /\ j \in DOMAIN d
      BY <1>1, <1>2, <2>2
    <3>2. c > 0 /\ \A k \in DOMAIN r : r[k] < c
      BY DEF OrderedFor
    <3>3. \A j \in DOMAIN d : d[j].type = "text" /\ d[j].source = s => d[j].n < c
      BY DEF OrderedFor
    <3>4. \A j \in 1..(i - 1) : e[j].type = "text" /\ e[j].source = s => e[j].n < c
      BY <3>1, <3>3
    <3> QED
      BY <3>1, <3>2, <3>4
  <2> QED
    BY <1>2, <2>1, <2>2
<1>4. OrderedFor(e, r, s, c, FALSE)
  BY <1>3 DEF OrderedFor
<1> QED
  BY <1>4 DEF e, f

\* The source publishes, and may then be busy with the page.
LEMMA OrderedPublish ==
  ASSUME NEW d \in Seq(Frames), NEW r \in Seq(Nat), NEW s, NEW c \in Nat,
         NEW busy, NEW after, OrderedFor(d, r, s, c, busy)
  PROVE  OrderedFor(d, r, s, c + 1, after)
<1>1. \A i \in DOMAIN d : d[i].type = "text" /\ d[i].source = s =>
                            d[i].n \in 1..(c + 1) /\ d[i].n < c + 1
  BY DEF OrderedFor
<1>2. \A k \in DOMAIN r : r[k] <= c + 1 /\ r[k] < c + 1
  BY DEF OrderedFor
<1> QED
  BY <1>1, <1>2 DEF OrderedFor

\* The source is done with the page.
LEMMA OrderedRelax ==
  ASSUME NEW d, NEW r, NEW s, NEW c, NEW busy, NEW after, after => busy, OrderedFor(d, r, s, c, busy)
  PROVE  OrderedFor(d, r, s, c, after)
BY DEF OrderedFor

\* The connection is cut.
LEMMA OrderedEmpty ==
  ASSUME NEW d, NEW r, NEW s, NEW c, NEW busy, OrderedFor(d, r, s, c, busy)
  PROVE  OrderedFor(<<>>, r, s, c, busy)
BY DEF OrderedFor

\* What a step of a page does to the frames and the log.
LEMMA ClientFrames ==
  ASSUME NEW p \in Pages,
         \/ Load(p) \/ ClickClose(p) \/ ClickSend(p) \/ BeforeUnload(p) \/ onopen(p)
         \/ onmessage(p) \/ onclose(p) \/ DropMessage(p) \/ HandleCloseFrame(p) \/ Cut(p)
  PROVE  \/ onmessage(p)
         \/ /\ received' = received
            /\ \/ down' = down
               \/ down' = [down EXCEPT ![p] = <<>>]
               \/ down[p] # <<>> /\ down' = [down EXCEPT ![p] = Tail(@)]
<1>1. ASSUME close(p)
      PROVE  down' = down \/ down' = [down EXCEPT ![p] = <<>>]
  BY <1>1 DEF close, CutLink, Transmit, network
<1>2. ASSUME NEW msg, NEW readyState, send(p, msg, readyState)
      PROVE  down' = down
  BY <1>2 DEF send, Transmit, network
<1>3. CASE ClickClose(p) \/ BeforeUnload(p)
  BY <1>3, <1>1 DEF ClickClose, BeforeUnload, page
<1>4. CASE ClickSend(p) \/ onopen(p)
  BY <1>4, <1>2 DEF ClickSend, onopen
<1>5. CASE Load(p) \/ onclose(p)
  BY <1>5 DEF Load, onclose, page, network
<1>6. CASE DropMessage(p) \/ HandleCloseFrame(p) \/ Cut(p)
  BY <1>6 DEF DropMessage, HandleCloseFrame, Cut, CutLink, page
<1> QED
  BY <1>3, <1>4, <1>5, <1>6

LEMMA OrderedClient ==
  ASSUME TypeOK, Ordered, NEW p \in Pages, UNCHANGED serverVars,
         \/ Load(p) \/ ClickClose(p) \/ ClickSend(p) \/ BeforeUnload(p) \/ onopen(p)
         \/ onmessage(p) \/ onclose(p) \/ DropMessage(p) \/ HandleCloseFrame(p) \/ Cut(p)
  PROVE  Ordered'
<1> SUFFICES ASSUME NEW q \in Pages, NEW s \in Sources
             PROVE  OrderedFor(down[q], received[q][s], s, count[s], q \in todo[s])'
  BY DEF Ordered
<1>1. count' = count /\ todo' = todo
  BY DEF serverVars, broadcast
<1>2. OrderedFor(down[q], received[q][s], s, count[s], q \in todo[s])
  BY DEF Ordered
<1>3. down[q] \in Seq(Frames) /\ received[q][s] \in Seq(Nat) /\ count[s] \in Nat
  BY DEF TypeOK
<1>4. ASSUME down'[q] = down[q], received'[q][s] = received[q][s]
      PROVE  OrderedFor(down[q], received[q][s], s, count[s], q \in todo[s])'
  BY <1>1, <1>2, <1>4
<1>5. CASE onmessage(p)
  <2> DEFINE t == Head(down[p]).source
             m == Head(down[p]).n
  <2>1. /\ down[p] # <<>> /\ Head(down[p]).type = "text"
        /\ down' = [down EXCEPT ![p] = Tail(@)]
        /\ received' = [received EXCEPT ![p] = [received[p] EXCEPT ![t] = Append(received[p][t], m)]]
    BY <1>5 DEF onmessage, Log
  <2>2. CASE q # p
    BY <2>1, <2>2, <1>4 DEF TypeOK
  <2>3. CASE q = p /\ t # s
    <3>1. down'[q] = Tail(down[q]) /\ received'[q][s] = received[q][s]
      BY <2>1, <2>3 DEF TypeOK
    <3>2. OrderedFor(Tail(down[q]), received[q][s], s, count[s], q \in todo[s])
      BY <1>2, <1>3, <2>1, <2>3, OrderedTail
    <3> QED
      BY <3>1, <3>2, <1>1
  <2>4. CASE q = p /\ t = s
    <3>1. down'[q] = Tail(down[q]) /\ received'[q][s] = Append(received[q][s], m)
      BY <2>1, <2>4 DEF TypeOK
    <3>2. OrderedFor(Tail(down[q]), Append(received[q][s], m), s, count[s], q \in todo[s])
      BY <1>2, <1>3, <2>1, <2>4, OrderedReceive
    <3> QED
      BY <3>1, <3>2, <1>1
  <2> QED
    BY <2>2, <2>3, <2>4
<1>6. CASE received' = received /\ down' = down
  BY <1>4, <1>6
<1>7. CASE received' = received /\ down' = [down EXCEPT ![p] = <<>>]
  <2>1. down'[q] = down[q] \/ down'[q] = <<>>
    BY <1>7 DEF TypeOK
  <2> QED
    BY <1>1, <1>2, <1>4, <1>7, <2>1, OrderedEmpty
<1>8. CASE received' = received /\ down[p] # <<>> /\ down' = [down EXCEPT ![p] = Tail(@)]
  <2>1. CASE q # p
    BY <1>8, <2>1, <1>4 DEF TypeOK
  <2>2. CASE q = p
    <3>1. down'[q] = Tail(down[q])
      BY <1>8, <2>2 DEF TypeOK
    <3>2. OrderedFor(Tail(down[q]), received[q][s], s, count[s], q \in todo[s])
      BY <1>2, <1>3, <1>8, <2>2, OrderedTail
    <3> QED
      BY <3>1, <3>2, <1>1, <1>8
  <2> QED
    BY <2>1, <2>2
<1> QED
  BY <1>5, <1>6, <1>7, <1>8, ClientFrames

\* A step that publishes and touches no frame.
LEMMA OrderedAfterPublish ==
  ASSUME TypeOK, Ordered, NEW t \in Sources, Publish(t), down' = down, received' = received
  PROVE  Ordered'
<1> SUFFICES ASSUME NEW q \in Pages, NEW s \in Sources
             PROVE  OrderedFor(down[q], received[q][s], s, count[s], q \in todo[s])'
  BY DEF Ordered
<1>2. OrderedFor(down[q], received[q][s], s, count[s], q \in todo[s])
  BY DEF Ordered
<1>3. down[q] \in Seq(Frames) /\ received[q][s] \in Seq(Nat) /\ count[s] \in Nat
  BY DEF TypeOK
<1>4. CASE s = t
  <2>1. count'[s] = count[s] + 1
    BY <1>4 DEF Publish, TypeOK
  <2>2. OrderedFor(down[q], received[q][s], s, count[s] + 1, q \in todo'[s])
    BY <1>2, <1>3, OrderedPublish
  <2> QED
    BY <2>1, <2>2
<1>5. CASE s # t
  <2>1. count'[s] = count[s] /\ todo'[s] = todo[s]
    BY <1>5 DEF Publish, TypeOK
  <2> QED
    BY <1>2, <2>1
<1> QED
  BY <1>4, <1>5

\* A step that only shortens the lists of clients to visit.
LEMMA OrderedAfterSkip ==
  ASSUME TypeOK, Ordered, \A s \in Sources : todo'[s] \subseteq todo[s], count' = count,
         down' = down, received' = received
  PROVE  Ordered'
<1> SUFFICES ASSUME NEW q \in Pages, NEW s \in Sources
             PROVE  OrderedFor(down[q], received[q][s], s, count[s], q \in todo[s])'
  BY DEF Ordered
<1>1. OrderedFor(down[q], received[q][s], s, count[s], q \in todo[s])
  BY DEF Ordered
<1>2. OrderedFor(down[q], received[q][s], s, count[s], q \in todo'[s])
  BY <1>1, OrderedRelax
<1> QED
  BY <1>2

\* A step that writes the close frame of a websocket.
LEMMA OrderedAfterClose ==
  ASSUME TypeOK, Ordered, NEW p \in Pages, CloseWebsocket(p), UNCHANGED broadcast, received' = received
  PROVE  Ordered'
<1> SUFFICES ASSUME NEW q \in Pages, NEW s \in Sources
             PROVE  OrderedFor(down[q], received[q][s], s, count[s], q \in todo[s])'
  BY DEF Ordered
<1>1. OrderedFor(down[q], received[q][s], s, count[s], q \in todo[s])
  BY DEF Ordered
<1>2. down[q] \in Seq(Frames) /\ received[q][s] \in Seq(Nat) /\ count[s] \in Nat
  BY DEF TypeOK
<1>3. down'[q] = down[q] \/ down'[q] = Append(down[q], ServerClose)
  BY DEF CloseWebsocket, TypeOK
<1>4. OrderedFor(Append(down[q], ServerClose), received[q][s], s, count[s], q \in todo[s])
  BY <1>1, <1>2, OrderedOther, FrameTypes
<1> QED
  BY <1>1, <1>3, <1>4 DEF broadcast

LEMMA OrderedSendStr ==
  ASSUME TypeOK, Ordered, NEW t \in Sources, NEW p \in Pages, SendStr(t, p)
  PROVE  Ordered'
<1> SUFFICES ASSUME NEW q \in Pages, NEW s \in Sources
             PROVE  OrderedFor(down[q], received[q][s], s, count[s], q \in todo[s])'
  BY DEF Ordered
<1>1. OrderedFor(down[q], received[q][s], s, count[s], q \in todo[s])
  BY DEF Ordered
<1>2. down[q] \in Seq(Frames) /\ received[q][s] \in Seq(Nat) /\ count[t] \in Nat /\ count[s] \in Nat
  BY DEF TypeOK
<1>3. /\ p \in todo[t] /\ received' = received /\ count' = count
      /\ down' = [down EXCEPT ![p] = Append(@, Text(t, count[t]))]
      /\ todo' = [todo EXCEPT ![t] = @ \ {p}]
  BY DEF SendStr, Visited, page
<1>4. CASE q = p /\ s = t
  <2>1. down'[q] = Append(down[q], Text(s, count[s])) /\ q \in todo[s] /\ q \notin todo'[s]
    BY <1>3, <1>4 DEF TypeOK
  <2>2. OrderedFor(down[q], received[q][s], s, count[s], TRUE)
    BY <1>1, <2>1 DEF OrderedFor
  <2>3. OrderedFor(Append(down[q], Text(s, count[s])), received[q][s], s, count[s], FALSE)
    BY <1>2, <2>2, OrderedText
  <2>4. OrderedFor(Append(down[q], Text(s, count[s])), received[q][s], s, count[s], q \in todo'[s])
    BY <2>1, <2>3, OrderedRelax
  <2> QED
    BY <1>3, <2>1, <2>4
<1>5. CASE q = p /\ s # t
  <2>1. down'[q] = Append(down[q], Text(t, count[t])) /\ todo'[s] = todo[s]
    BY <1>3, <1>5 DEF TypeOK
  <2>2. OrderedFor(Append(down[q], Text(t, count[t])), received[q][s], s, count[s], q \in todo[s])
    BY <1>1, <1>2, <1>5, OrderedOther, FrameTypes
  <2> QED
    BY <1>3, <2>1, <2>2
<1>6. CASE q # p
  <2>1. down'[q] = down[q] /\ (q \in todo'[s] <=> q \in todo[s])
    BY <1>3, <1>6 DEF TypeOK
  <2> QED
    BY <1>1, <1>3, <2>1, OrderedRelax
<1> QED
  BY <1>4, <1>5, <1>6

LEMMA OrderedStep ==
  ASSUME TypeOK, Ordered, [Next]_vars
  PROVE  Ordered'
<1> USE SourceTypes
<1>0. ASSUME UNCHANGED broadcast, down' = down, received' = received
      PROVE  Ordered'
  BY <1>0, OrderedAfterSkip DEF broadcast
<1>1. ASSUME NEW s \in Sources, Abandon(s), UNCHANGED clientVars
      PROVE  Ordered'
  <2>1. \A t \in Sources : todo'[t] \subseteq todo[t]
    BY <1>1 DEF Abandon, TypeOK
  <2> QED
    BY <1>1, <2>1, OrderedAfterSkip DEF Abandon, clientVars, page, network
<1>2. ASSUME NEW p \in Pages,
             Accept(p) \/ IgnoreText(p) \/ AnswerText(p) \/ ReceiveClose(p) \/ CloseDone(p) \/ ConnectionLost(p)
      PROVE  Ordered'
  <2>1. CASE Accept(p) \/ IgnoreText(p) \/ CloseDone(p)
    BY <2>1, <1>0 DEF Accept, IgnoreText, CloseDone, page
  <2>2. CASE AnswerText(p)
    BY <2>2, OrderedAfterClose, OrderedAfterPublish DEF AnswerText, page
  <2>3. CASE ReceiveClose(p)
    BY <2>3, OrderedAfterClose DEF ReceiveClose, page
  <2>4. CASE ConnectionLost(p)
    BY <2>4, <1>1 DEF ConnectionLost
  <2> QED
    BY <1>2, <2>1, <2>2, <2>3, <2>4
<1>3. ASSUME NEW s \in Sources, NEW p \in Pages, SendStr(s, p) \/ SendNothing(s, p) \/ SendFails(s, p)
      PROVE  Ordered'
  <2>1. CASE SendStr(s, p)
    BY <2>1, OrderedSendStr
  <2>2. CASE SendNothing(s, p)
    <3>1. \A t \in Sources : todo'[t] \subseteq todo[t]
      BY <2>2 DEF SendNothing, Visited, TypeOK
    <3> QED
      BY <2>2, <3>1, OrderedAfterSkip DEF SendNothing, Visited, clientVars, page, network
  <2>3. CASE SendFails(s, p)
    BY <2>3, <1>1 DEF SendFails
  <2> QED
    BY <1>3, <2>1, <2>2, <2>3
<1>4. CASE push
  BY <1>4, <1>0 DEF push, clientVars, page, network
<1>5. CASE TakeFromQueue \/ SendTime
  BY <1>5, OrderedAfterPublish DEF TakeFromQueue, SendTime, clientVars, page, network
<1>6. CASE OnShutdown
  BY <1>6, <1>1 DEF OnShutdown
<1>7. CASE UNCHANGED vars
  BY <1>7, <1>0 DEF vars, serverVars, clientVars, page, network
<1> QED
  BY <1>2, <1>3, <1>4, <1>5, <1>6, <1>7, OrderedClient, NextCases

\* What is logged by a page and on its way to it rises in the numbers of each sender and
\* stays below the broadcast the page is still to be sent (ws_broadcast).
THEOREM FramesInOrder == Spec => []Ordered
<1>1. Init => Ordered
  <2> SUFFICES ASSUME Init, NEW p \in Pages, NEW s \in Sources
               PROVE  OrderedFor(down[p], received[p][s], s, count[s], p \in todo[s])
    BY DEF Ordered
  <2>1. down[p] = <<>> /\ received[p][s] = <<>> /\ todo[s] = {}
    BY DEF Init, ClientInit
  <2> QED
    BY <2>1 DEF OrderedFor
<1> QED
  BY <1>1, TypeCorrect, OrderedStep, PTL DEF Spec

\* A step that logs a message delivers it from the feed.
LEMMA ReceiveDelivers ==
  ASSUME TypeOK, Ordered, NEW p \in Pages, onmessage(p), count' = count
  PROVE  Feed!Next
<1> DEFINE t == Head(down[p]).source
           m == Head(down[p]).n
<1>1. /\ down[p] # <<>> /\ Head(down[p]).type = "text"
      /\ received' = [received EXCEPT ![p] = [received[p] EXCEPT ![t] = Append(received[p][t], m)]]
  BY DEF onmessage, Log
<1>2. down[p] \in Seq(Frames) /\ Head(down[p]) \in Frames
  BY <1>1 DEF TypeOK
<1>3. t \in Sources
  BY <1>1, <1>2, FrameTypes
<1>4. /\ OrderedFor(down[p], received[p][t], t, count[t], p \in todo[t])
      /\ received[p][t] \in Seq(Nat) /\ count[t] \in Nat
  BY <1>3 DEF Ordered, TypeOK
<1>5. m \in 1..count[t] /\ \A k \in DOMAIN received[p][t] : received[p][t][k] < m
  BY <1>1, <1>2, <1>3, <1>4, OrderedReceive
<1>6. received' = [received EXCEPT ![p][t] = Append(@, m)]
  BY <1>1
<1> HIDE DEF t, m
<1>7. Feed!Deliver(p, t, m)
  BY <1>5, <1>6 DEF Feed!Deliver
<1> QED
  BY <1>3, <1>5, <1>7 DEF Feed!Next

\* Every other step publishes a message or leaves the feed as it is.
LEMMA FeedStep ==
  ASSUME TypeOK, Ordered, [Next]_vars
  PROVE  Feed!Next \/ UNCHANGED <<count, received>>
<1> USE SourceTypes
<1>1. ASSUME NEW s \in Sources, Publish(s), received' = received
      PROVE  Feed!Next
  BY <1>1 DEF Publish, Feed!Publish, Feed!Next
<1>2. ASSUME NEW p \in Pages, UNCHANGED serverVars,
             \/ Load(p) \/ ClickClose(p) \/ ClickSend(p) \/ BeforeUnload(p) \/ onopen(p)
             \/ onmessage(p) \/ onclose(p) \/ DropMessage(p) \/ HandleCloseFrame(p) \/ Cut(p)
      PROVE  Feed!Next \/ UNCHANGED <<count, received>>
  <2>1. count' = count
    BY <1>2 DEF serverVars, broadcast
  <2> QED
    BY <1>2, <2>1, ClientFrames, ReceiveDelivers
<1>3. ASSUME NEW p \in Pages,
             Accept(p) \/ IgnoreText(p) \/ AnswerText(p) \/ ReceiveClose(p) \/ CloseDone(p) \/ ConnectionLost(p)
      PROVE  Feed!Next \/ UNCHANGED <<count, received>>
  <2>1. CASE AnswerText(p)
    BY <2>1, <1>1 DEF AnswerText, page, broadcast
  <2> QED
    BY <1>3, <2>1 DEF Accept, IgnoreText, ReceiveClose, CloseDone, ConnectionLost, Abandon,
                      clientVars, page, broadcast
<1>4. ASSUME NEW s \in Sources, NEW p \in Pages, SendStr(s, p) \/ SendNothing(s, p) \/ SendFails(s, p)
      PROVE  UNCHANGED <<count, received>>
  BY <1>4 DEF SendStr, SendNothing, SendFails, Visited, Abandon, clientVars, page
<1>5. CASE push \/ OnShutdown
  BY <1>5 DEF push, OnShutdown, Abandon, clientVars, page, broadcast
<1>6. CASE TakeFromQueue \/ SendTime
  BY <1>6, <1>1 DEF TakeFromQueue, SendTime, clientVars, page
<1>7. CASE UNCHANGED vars
  BY <1>7 DEF vars, serverVars, broadcast, clientVars, page
<1> QED
  BY <1>2, <1>3, <1>4, <1>5, <1>6, <1>7, NextCases

\* The pages and either server implement MessageFeed: whatever is interleaved, cut or
\* abandoned, no page logs a message twice, or two of one sender out of order.
THEOREM RefinesFeed == Spec => FeedSpec
<1>1. Init => Feed!Init
  BY DEF Init, ClientInit, Feed!Init
<1>2. TypeOK /\ Ordered /\ [Next]_vars => [Feed!Next]_<<count, received>>
  BY FeedStep
<1> QED
  BY <1>1, <1>2, TypeCorrect, FramesInOrder, PTL DEF Spec, FeedSpec, Feed!Spec

-----------------------------------------------------------------------------
(***************************************************************************)
(* What the server reads.                                                  *)
(***************************************************************************)
\* The texts of a page: its log (st, the connection opened after o lines), those its
\* websocket has read (g) and, behind them, those on their way (u); the socket is in
\* state so and the connection in state l.
Piped(so, o, st, l, u, g) ==
  /\ so \in {"unloaded", "CONNECTING"} => o = -1
  /\ so = "OPEN" => o >= 0
  /\ o = -1 => u = <<>> /\ g = <<>>
  /\ o >= 0 => o < Len(st) /\ st[o + 1] = Hello
  /\ \A i \in 1..Len(g) : o + i <= Len(st) /\ g[i] = st[o + i]
  /\ \A i \in 1..Len(u) :
       IF u[i] = CloseFrame THEN i = Len(u)
       ELSE o + Len(g) + i <= Len(st) /\ u[i] = st[o + Len(g) + i]
  /\ so = "OPEN" /\ l = "up" =>
       o + Len(g) + Len(u) = Len(st) /\ \A i \in 1..Len(u) : u[i] # CloseFrame

PipedAt(p) == Piped(socket[p], openAt[p], sent[p], link[p], up[p], got[p])
AllPiped == \A p \in Pages : PipedAt(p)

\* The socket or the connection moves on, and texts on their way may be lost with it.
LEMMA PipedMoves ==
  ASSUME NEW so, NEW o \in Nat \cup {-1}, NEW st \in Seq(Texts), NEW l, NEW g \in Seq(Texts),
         NEW u \in Seq(Texts \cup {CloseFrame}), Piped(so, o, st, l, u, g),
         NEW so2, NEW l2, NEW u2, u2 = u \/ u2 = <<>>,
         so2 \in {"unloaded", "CONNECTING"} => so \in {"unloaded", "CONNECTING"},
         so2 = "OPEN" => so = "OPEN" /\ (l2 = "up" => l = "up" /\ u2 = u)
  PROVE  Piped(so2, o, st, l2, u2, g)
BY DEF Piped

\* A text is logged, and not transmitted.
LEMMA PipedLogs ==
  ASSUME NEW so, NEW o \in Nat \cup {-1}, NEW st \in Seq(Texts), NEW l, NEW g \in Seq(Texts),
         NEW u \in Seq(Texts \cup {CloseFrame}), Piped(so, o, st, l, u, g),
         NEW msg \in Texts, ~(so = "OPEN" /\ l = "up")
  PROVE  Piped(so, o, Append(st, msg), l, u, g)
<1> DEFINE st2 == Append(st, msg)
<1>1. /\ Len(st2) = Len(st) + 1 /\ Len(st) \in Nat /\ Len(g) \in Nat /\ Len(u) \in Nat
      /\ \A i \in 1..Len(st) : st2[i] = st[i]
  OBVIOUS
<1> HIDE DEF st2
<1>2. ASSUME o >= 0
      PROVE  o < Len(st2) /\ st2[o + 1] = Hello
  <2>1. o < Len(st) /\ st[o + 1] = Hello
    BY <1>2 DEF Piped
  <2>2. o + 1 \in 1..Len(st)
    BY <1>1, <1>2, <2>1
  <2> QED
    BY <1>1, <2>1, <2>2
<1>3. ASSUME NEW i \in 1..Len(g)
      PROVE  o + i <= Len(st2) /\ g[i] = st2[o + i]
  <2>1. o >= 0 /\ o + i <= Len(st) /\ g[i] = st[o + i]
    BY DEF Piped
  <2> QED
    BY <1>1, <2>1
<1>4. ASSUME NEW i \in 1..Len(u)
      PROVE  IF u[i] = CloseFrame THEN i = Len(u)
             ELSE o + Len(g) + i <= Len(st2) /\ u[i] = st2[o + Len(g) + i]
  <2>1. /\ o >= 0
        /\ IF u[i] = CloseFrame THEN i = Len(u)
           ELSE o + Len(g) + i <= Len(st) /\ u[i] = st[o + Len(g) + i]
    BY DEF Piped
  <2> QED
    BY <1>1, <2>1
<1>5. Piped(so, o, st2, l, u, g)
  BY <1>2, <1>3, <1>4 DEF Piped
<1> QED
  BY <1>5 DEF st2

\* A text is logged and transmitted.
LEMMA PipedSends ==
  ASSUME NEW o \in Nat \cup {-1}, NEW st \in Seq(Texts), NEW g \in Seq(Texts),
         NEW u \in Seq(Texts \cup {CloseFrame}), Piped("OPEN", o, st, "up", u, g),
         NEW msg \in Texts
  PROVE  Piped("OPEN", o, Append(st, msg), "up", Append(u, msg), g)
<1> DEFINE st2 == Append(st, msg)
           u2 == Append(u, msg)
<1>1. /\ Len(st2) = Len(st) + 1 /\ Len(st) \in Nat /\ Len(g) \in Nat /\ Len(u) \in Nat
      /\ \A i \in 1..Len(st) : st2[i] = st[i]
      /\ st2[Len(st) + 1] = msg
  OBVIOUS
<1>2. /\ Len(u2) = Len(u) + 1
      /\ \A i \in 1..Len(u) : u2[i] = u[i]
      /\ u2[Len(u) + 1] = msg
  OBVIOUS
<1> HIDE DEF st2, u2
<1>3. msg # CloseFrame
  BY WebsocketClientAssumption
<1>4. /\ o >= 0 /\ o \in Nat /\ o < Len(st) /\ st[o + 1] = Hello
      /\ o + Len(g) + Len(u) = Len(st)
      /\ \A i \in 1..Len(u) : u[i] # CloseFrame
  BY DEF Piped
<1>5. o < Len(st2) /\ st2[o + 1] = Hello
  <2>1. o < Len(st2) /\ o + 1 \in 1..Len(st)
    BY <1>1, <1>4
  <2>2. st2[o + 1] = st[o + 1]
    BY <1>1, <2>1
  <2> QED
    BY <1>4, <2>1, <2>2
<1>6. ASSUME NEW i \in 1..Len(g)
      PROVE  o + i <= Len(st2) /\ g[i] = st2[o + i]
  <2>1. o + i <= Len(st) /\ g[i] = st[o + i]
    BY DEF Piped
  <2> QED
    BY <1>1, <1>4, <2>1
<1>7. ASSUME NEW i \in 1..Len(u2)
      PROVE  u2[i] # CloseFrame /\ o + Len(g) + i <= Len(st2) /\ u2[i] = st2[o + Len(g) + i]
  <2>1. CASE i = Len(u) + 1
    BY <1>1, <1>2, <1>3, <1>4, <2>1
  <2>2. CASE i \in 1..Len(u)
    <3>1. o + Len(g) + i <= Len(st) /\ u[i] = st[o + Len(g) + i]
      BY <1>4, <2>2 DEF Piped
    <3> QED
      BY <1>1, <1>2, <1>4, <2>2, <3>1
  <2> QED
    BY <1>1, <1>2, <2>1, <2>2
<1>8. o + Len(g) + Len(u2) = Len(st2)
  BY <1>1, <1>2, <1>4
<1>9. Piped("OPEN", o, st2, "up", u2, g)
  BY <1>4, <1>5, <1>6, <1>7, <1>8 DEF Piped
<1> QED
  BY <1>9 DEF st2, u2

\* The close frame goes behind the texts.
LEMMA PipedCloses ==
  ASSUME NEW o \in Nat \cup {-1}, NEW st \in Seq(Texts), NEW g \in Seq(Texts),
         NEW u \in Seq(Texts \cup {CloseFrame}), Piped("OPEN", o, st, "up", u, g)
  PROVE  Piped("CLOSING", o, st, "up", Append(u, CloseFrame), g)
<1> DEFINE u2 == Append(u, CloseFrame)
<1>1. /\ Len(u2) = Len(u) + 1 /\ Len(u) \in Nat
      /\ \A i \in 1..Len(u) : u2[i] = u[i]
      /\ u2[Len(u) + 1] = CloseFrame
  OBVIOUS
<1> HIDE DEF u2
<1>2. ASSUME NEW i \in 1..Len(u2)
      PROVE  IF u2[i] = CloseFrame THEN i = Len(u2)
             ELSE o + Len(g) + i <= Len(st) /\ u2[i] = st[o + Len(g) + i]
  <2>1. CASE i = Len(u) + 1
    BY <1>1, <2>1
  <2>2. CASE i \in 1..Len(u)
    <3>1. u[i] # CloseFrame /\ o + Len(g) + i <= Len(st) /\ u[i] = st[o + Len(g) + i]
      BY <2>2 DEF Piped
    <3> QED
      BY <1>1, <2>2, <3>1
  <2>3. i \in 1..Len(u) \/ i = Len(u) + 1
    BY <1>1
  <2> QED
    BY <2>1, <2>2, <2>3
<1>3. Piped("CLOSING", o, st, "up", u2, g)
  BY <1>2 DEF Piped
<1> QED
  BY <1>3 DEF u2

\* The connection is open: HELLO is the first text of it.
LEMMA PipedOpens ==
  ASSUME NEW o \in Nat \cup {-1}, NEW st \in Seq(Texts), NEW l, NEW g \in Seq(Texts),
         NEW u \in Seq(Texts \cup {CloseFrame}), Piped("CONNECTING", o, st, l, u, g)
  PROVE  Piped("OPEN", Len(st), Append(st, Hello), l, IF l = "up" THEN Append(u, Hello) ELSE u, g)
<1> DEFINE st2 == Append(st, Hello)
           u2 == IF l = "up" THEN Append(u, Hello) ELSE u
<1>1. u = <<>> /\ g = <<>>
  BY DEF Piped
<1>2. Hello \in Texts /\ Hello # CloseFrame
  BY WebsocketClientAssumption DEF Texts
<1>3. Len(st) \in Nat /\ Len(st2) = Len(st) + 1 /\ st2[Len(st) + 1] = Hello
  BY <1>2
<1>4. u2 = <<>> \/ u2 = <<Hello>>
  BY <1>1
<1>5. l = "up" => u2 = <<Hello>>
  BY <1>1
<1> SUFFICES Piped("OPEN", Len(st), st2, l, u2, g)
  OBVIOUS
<1> HIDE DEF st2, u2
<1>6. CASE u2 = <<>>
  BY <1>1, <1>3, <1>5, <1>6 DEF Piped
<1>7. CASE u2 = <<Hello>>
  <2>1. Len(u2) = 1 /\ u2[1] = Hello
    BY <1>7
  <2>2. Len(g) = 0
    BY <1>1
  <2> QED
    BY <1>1, <1>2, <1>3, <1>7, <2>1, <2>2 DEF Piped
<1> QED
  BY <1>4, <1>6, <1>7

\* The message loop reads a text.
LEMMA PipedReads ==
  ASSUME NEW so, NEW o \in Nat \cup {-1}, NEW st \in Seq(Texts), NEW l, NEW g \in Seq(Texts),
         NEW u \in Seq(Texts \cup {CloseFrame}), Piped(so, o, st, l, u, g),
         u # <<>>, Head(u) # CloseFrame
  PROVE  Piped(so, o, st, l, Tail(u), Append(g, Head(u)))
<1> DEFINE g2 == Append(g, Head(u))
           u2 == Tail(u)
<1>1. /\ Len(u) \in Nat /\ Len(u) > 0 /\ Len(u2) = Len(u) - 1 /\ Head(u) = u[1]
      /\ \A i \in 1..Len(u2) : u2[i] = u[i + 1]
  OBVIOUS
<1>2. /\ Len(g) \in Nat /\ Len(g2) = Len(g) + 1
      /\ \A i \in 1..Len(g) : g2[i] = g[i]
      /\ g2[Len(g) + 1] = u[1]
  BY <1>1
<1>3. o >= 0 /\ o \in Nat
  BY DEF Piped
<1>4. u[1] # CloseFrame
  BY <1>1
<1> HIDE DEF g2, u2
<1>5. o + Len(g) + 1 <= Len(st) /\ u[1] = st[o + Len(g) + 1]
  BY <1>1, <1>4 DEF Piped
<1>6. ASSUME NEW i \in 1..Len(g2)
      PROVE  o + i <= Len(st) /\ g2[i] = st[o + i]
  <2>1. CASE i = Len(g) + 1
    BY <1>2, <1>3, <1>5, <2>1
  <2>2. CASE i \in 1..Len(g)
    BY <1>2, <2>2 DEF Piped
  <2> QED
    BY <1>2, <2>1, <2>2
<1>7. ASSUME NEW i \in 1..Len(u2)
      PROVE  IF u2[i] = CloseFrame THEN i = Len(u2)
             ELSE o + Len(g2) + i <= Len(st) /\ u2[i] = st[o + Len(g2) + i]
  <2>1. i + 1 \in 1..Len(u) /\ u2[i] = u[i + 1] /\ i \in Nat
    BY <1>1
  <2>2. IF u[i + 1] = CloseFrame THEN i + 1 = Len(u)
        ELSE o + Len(g) + (i + 1) <= Len(st) /\ u[i + 1] = st[o + Len(g) + (i + 1)]
    BY <2>1 DEF Piped
  <2>3. o + Len(g) + (i + 1) = o + Len(g2) + i
    BY <1>2, <1>3, <2>1
  <2> QED
    BY <1>1, <2>1, <2>2, <2>3
<1>8. ASSUME so = "OPEN", l = "up"
      PROVE  o + Len(g2) + Len(u2) = Len(st) /\ \A i \in 1..Len(u2) : u2[i] # CloseFrame
  <2>1. o + Len(g) + Len(u) = Len(st) /\ \A i \in 1..Len(u) : u[i] # CloseFrame
    BY <1>8 DEF Piped
  <2>2. \A i \in 1..Len(u2) : i + 1 \in 1..Len(u)
    BY <1>1
  <2>3. ASSUME NEW i \in 1..Len(u2)
        PROVE  u2[i] # CloseFrame
    <3>1. u2[i] = u[i + 1]
      BY <1>1
    <3> QED
      BY <2>1, <2>2, <3>1
  <2>4. o + Len(g2) + Len(u2) = Len(st)
    <3>1. /\ Len(g2) = Len(g) + 1 /\ Len(u2) = Len(u) - 1
          /\ Len(g) \in Nat /\ Len(u) \in Nat /\ o \in Nat
      BY <1>1, <1>2, <1>3
    <3>2. o + Len(g2) + Len(u2) = o + Len(g) + Len(u)
      BY <3>1
    <3> QED
      BY <2>1, <3>2
  <2> QED
    BY <2>3, <2>4
<1>9. Piped(so, o, st, l, u2, g2)
  BY <1>3, <1>6, <1>7, <1>8 DEF Piped
<1> QED
  BY <1>9 DEF u2, g2

\* The message loop reads the close frame, behind which there is nothing.
LEMMA PipedReadsClose ==
  ASSUME NEW so, NEW o \in Nat \cup {-1}, NEW st \in Seq(Texts), NEW l, NEW g \in Seq(Texts),
         NEW u \in Seq(Texts \cup {CloseFrame}), Piped(so, o, st, l, u, g),
         u # <<>>, Head(u) = CloseFrame
  PROVE  Piped(so, o, st, l, Tail(u), g)
<1>1. Len(u) \in Nat /\ 1 \in 1..Len(u) /\ u[1] = CloseFrame
  OBVIOUS
<1>2. Len(u) = 1 /\ ~(so = "OPEN" /\ l = "up")
  BY <1>1 DEF Piped
<1>3. Len(Tail(u)) = 0
  BY <1>2
<1>4. o \in Nat
  BY DEF Piped
<1> DEFINE u2 == Tail(u)
<1> HIDE DEF u2
<1>5. Len(u2) = 0
  BY <1>3 DEF u2
<1>6. Piped(so, o, st, l, u2, g)
  <2>1. /\ so \in {"unloaded", "CONNECTING"} => o = -1
        /\ so = "OPEN" => o >= 0
        /\ o >= 0 => o < Len(st) /\ st[o + 1] = Hello
        /\ \A i \in 1..Len(g) : o + i <= Len(st) /\ g[i] = st[o + i]
    BY DEF Piped
  <2>2. o # -1
    BY <1>4
  <2>3. \A i \in 1..Len(u2) : FALSE
    BY <1>5
  <2> QED
    BY <1>2, <2>1, <2>2, <2>3 DEF Piped
<1> QED
  BY <1>6 DEF u2

\* Types of the arguments of Piped.
LEMMA PipedTypes ==
  ASSUME TypeOK, NEW p \in Pages
  PROVE  /\ openAt[p] \in Nat \cup {-1} /\ sent[p] \in Seq(Texts) /\ got[p] \in Seq(Texts)
         /\ up[p] \in Seq(Texts \cup {CloseFrame})
BY DEF TypeOK

\* A page none of whose texts a step concerns.
LEMMA PipedElsewhere ==
  ASSUME NEW q \in Pages, PipedAt(q), socket'[q] = socket[q], openAt'[q] = openAt[q],
         sent'[q] = sent[q], link'[q] = link[q], up'[q] = up[q], got'[q] = got[q]
  PROVE  PipedAt(q)'
BY DEF PipedAt

\* What close() does to the page itself.
LEMMA PipedClose ==
  ASSUME TypeOK, NEW p \in Pages, PipedAt(p), close(p), UNCHANGED <<openAt, sent, got>>,
         socket' = [socket EXCEPT ![p] = ClosingState(p)]
  PROVE  PipedAt(p)'
<1>1. socket'[p] = ClosingState(p) /\ openAt' = openAt /\ sent' = sent /\ got' = got
  BY DEF TypeOK
<1>2. CASE socket[p] = "CONNECTING" /\ CutLink(p)
  <2>1. up'[p] = <<>> /\ link'[p] = "cut" /\ socket'[p] = "CLOSING"
    BY <1>1, <1>2 DEF CutLink, ClosingState, TypeOK
  <2>2. Piped("CLOSING", openAt[p], sent[p], "cut", <<>>, got[p])
    BY PipedTypes, PipedMoves DEF PipedAt
  <2> QED
    BY <1>1, <2>1, <2>2 DEF PipedAt
<1>3. CASE socket[p] = "OPEN" /\ Transmit(p, CloseFrame)
  <2>1. socket'[p] = "CLOSING" /\ link'[p] = link[p]
    BY <1>1, <1>3 DEF Transmit, ClosingState
  <2>2. CASE link[p] = "up"
    <3>1. up'[p] = Append(up[p], CloseFrame)
      BY <1>3, <2>2 DEF Transmit, TypeOK
    <3>2. Piped("OPEN", openAt[p], sent[p], "up", up[p], got[p])
      BY <1>3, <2>2 DEF PipedAt
    <3>3. Piped("CLOSING", openAt[p], sent[p], "up", Append(up[p], CloseFrame), got[p])
      BY <3>2, PipedTypes, PipedCloses
    <3> QED
      BY <1>1, <2>1, <2>2, <3>1, <3>3 DEF PipedAt
  <2>3. CASE link[p] # "up"
    <3>1. up'[p] = up[p]
      BY <1>3, <2>3 DEF Transmit
    <3>2. Piped("CLOSING", openAt[p], sent[p], link[p], up[p], got[p])
      BY PipedTypes, PipedMoves DEF PipedAt
    <3> QED
      BY <1>1, <2>1, <3>1, <3>2 DEF PipedAt
  <2> QED
    BY <2>2, <2>3
<1>4. CASE socket[p] \in {"CLOSING", "CLOSED"} /\ UNCHANGED network
  BY <1>1, <1>4, PipedElsewhere DEF ClosingState, network
<1> QED
  BY <1>2, <1>3, <1>4 DEF close

\* What a click on "send" does to the page itself.
LEMMA PipedClickSend ==
  ASSUME TypeOK, NEW p \in Pages, PipedAt(p), ClickSend(p), got' = got
  PROVE  PipedAt(p)'
<1>1. PICK msg \in Typed : send(p, msg, socket[p])
  BY DEF ClickSend
<1>2. msg \in Texts
  BY DEF Texts
<1>3. /\ sent'[p] = Append(sent[p], msg)
      /\ socket' = socket /\ openAt' = openAt /\ link' = link
  BY <1>1 DEF send, Log, Transmit, network, ClickSend, TypeOK
<1>4. CASE socket[p] = "OPEN" /\ link[p] = "up"
  <2>1. up'[p] = Append(up[p], msg)
    BY <1>1, <1>4 DEF send, Transmit, TypeOK
  <2>2. Piped("OPEN", openAt[p], sent[p], "up", up[p], got[p])
    BY <1>4 DEF PipedAt
  <2>3. Piped("OPEN", openAt[p], Append(sent[p], msg), "up", Append(up[p], msg), got[p])
    BY <1>2, <2>2, PipedTypes, PipedSends
  <2> QED
    BY <1>3, <1>4, <2>1, <2>3 DEF PipedAt
<1>5. CASE ~(socket[p] = "OPEN" /\ link[p] = "up")
  <2>1. up'[p] = up[p]
    BY <1>1, <1>5 DEF send, Transmit, network
  <2>2. Piped(socket[p], openAt[p], Append(sent[p], msg), link[p], up[p], got[p])
    BY <1>2, <1>5, PipedTypes, PipedLogs DEF PipedAt
  <2> QED
    BY <1>3, <2>1, <2>2 DEF PipedAt
<1> QED
  BY <1>4, <1>5

\* A step of a page, for the page itself.
LEMMA PipedOwnStep ==
  ASSUME TypeOK, NEW p \in Pages, PipedAt(p), got' = got,
         \/ Load(p) \/ ClickClose(p) \/ ClickSend(p) \/ BeforeUnload(p) \/ onopen(p)
         \/ onmessage(p) \/ onclose(p) \/ DropMessage(p) \/ HandleCloseFrame(p) \/ Cut(p)
  PROVE  PipedAt(p)'
<1>1. CASE Load(p)
  <2>1. /\ socket[p] = "unloaded" /\ socket'[p] = "CONNECTING"
        /\ UNCHANGED <<openAt, sent, link, up>>
    BY <1>1 DEF Load, network, TypeOK
  <2>2. Piped("CONNECTING", openAt[p], sent[p], link[p], up[p], got[p])
    BY <2>1, PipedTypes, PipedMoves DEF PipedAt
  <2> QED
    BY <2>1, <2>2 DEF PipedAt
<1>2. CASE ClickClose(p) \/ BeforeUnload(p)
  BY <1>2, PipedClose DEF ClickClose, BeforeUnload, page
<1>3. CASE ClickSend(p)
  BY <1>3, PipedClickSend
<1>4. CASE onopen(p)
  <2>1. /\ socket[p] = "CONNECTING" /\ socket'[p] = "OPEN"
        /\ openAt'[p] = Len(sent[p]) /\ sent'[p] = Append(sent[p], Hello)
        /\ link'[p] = link[p]
        /\ up'[p] = IF link[p] = "up" THEN Append(up[p], Hello) ELSE up[p]
    BY <1>4 DEF onopen, send, Log, Transmit, TypeOK
  <2>2. Piped("CONNECTING", openAt[p], sent[p], link[p], up[p], got[p])
    BY <2>1 DEF PipedAt
  <2>3. Piped("OPEN", Len(sent[p]), Append(sent[p], Hello), link[p],
              IF link[p] = "up" THEN Append(up[p], Hello) ELSE up[p], got[p])
    BY <2>2, PipedTypes, PipedOpens
  <2> QED
    BY <2>1, <2>3 DEF PipedAt
<1>5. CASE onmessage(p) \/ DropMessage(p)
  BY <1>5, PipedElsewhere DEF onmessage, DropMessage, page
<1>6. CASE onclose(p)
  <2>1. socket'[p] = "CLOSED" /\ UNCHANGED <<openAt, sent, link, up>>
    BY <1>6 DEF onclose, page, network, TypeOK
  <2>2. Piped("CLOSED", openAt[p], sent[p], link[p], up[p], got[p])
    BY PipedTypes, PipedMoves DEF PipedAt
  <2> QED
    BY <2>1, <2>2 DEF PipedAt
<1>7. CASE HandleCloseFrame(p)
  <2>1. socket'[p] = "CLOSING" /\ UNCHANGED <<openAt, sent, link>>
    BY <1>7 DEF HandleCloseFrame, page, TypeOK
  <2>2. CASE socket[p] = "OPEN" /\ link[p] = "up"
    <3>1. up'[p] = Append(up[p], CloseFrame)
      BY <1>7, <2>2 DEF HandleCloseFrame, TypeOK
    <3>2. Piped("OPEN", openAt[p], sent[p], "up", up[p], got[p])
      BY <2>2 DEF PipedAt
    <3>3. Piped("CLOSING", openAt[p], sent[p], "up", Append(up[p], CloseFrame), got[p])
      BY <3>2, PipedTypes, PipedCloses
    <3> QED
      BY <2>1, <2>2, <3>1, <3>3 DEF PipedAt
  <2>3. CASE ~(socket[p] = "OPEN" /\ link[p] = "up")
    <3>1. up' = up
      BY <1>7, <2>3 DEF HandleCloseFrame
    <3>2. Piped("CLOSING", openAt[p], sent[p], link[p], up[p], got[p])
      BY PipedTypes, PipedMoves DEF PipedAt
    <3> QED
      BY <2>1, <3>1, <3>2 DEF PipedAt
  <2> QED
    BY <2>2, <2>3
<1>8. CASE Cut(p)
  <2>1. up'[p] = <<>> /\ link'[p] = "cut" /\ UNCHANGED <<socket, openAt, sent>>
    BY <1>8 DEF Cut, CutLink, page, TypeOK
  <2>2. Piped(socket[p], openAt[p], sent[p], "cut", <<>>, got[p])
    BY PipedTypes, PipedMoves DEF PipedAt
  <2> QED
    BY <2>1, <2>2 DEF PipedAt
<1> QED
  BY <1>1, <1>2, <1>3, <1>4, <1>5, <1>6, <1>7, <1>8

\* A step of a page, for the other pages.
LEMMA OtherPages ==
  ASSUME TypeOK, NEW p \in Pages, NEW q \in Pages, q # p,
         \/ Load(p) \/ ClickClose(p) \/ ClickSend(p) \/ BeforeUnload(p) \/ onopen(p)
         \/ onmessage(p) \/ onclose(p) \/ DropMessage(p) \/ HandleCloseFrame(p) \/ Cut(p)
  PROVE  /\ socket'[q] = socket[q] /\ openAt'[q] = openAt[q] /\ sent'[q] = sent[q]
         /\ link'[q] = link[q] /\ up'[q] = up[q]
<1>1. ASSUME close(p)
      PROVE  link'[q] = link[q] /\ up'[q] = up[q]
  BY <1>1 DEF close, CutLink, Transmit, network, TypeOK
<1>2. ASSUME NEW msg, NEW readyState, send(p, msg, readyState)
      PROVE  link'[q] = link[q] /\ up'[q] = up[q] /\ sent'[q] = sent[q]
  BY <1>2 DEF send, Log, Transmit, network, TypeOK
<1>3. CASE ClickClose(p) \/ BeforeUnload(p)
  BY <1>3, <1>1 DEF ClickClose, BeforeUnload, page, TypeOK
<1>4. CASE ClickSend(p) \/ onopen(p)
  BY <1>4, <1>2 DEF ClickSend, onopen, TypeOK
<1>5. CASE Load(p) \/ onclose(p)
  BY <1>5 DEF Load, onclose, page, network, TypeOK
<1>6. CASE onmessage(p) \/ DropMessage(p) \/ Cut(p)
  BY <1>6 DEF onmessage, DropMessage, Cut, CutLink, page, TypeOK
<1>7. CASE HandleCloseFrame(p)
  BY <1>7 DEF HandleCloseFrame, page, TypeOK
<1> QED
  BY <1>3, <1>4, <1>5, <1>6, <1>7

\* A step of the coroutine of a websocket, for its page.
LEMMA PipedHandler ==
  ASSUME TypeOK, NEW p \in Pages, PipedAt(p),
         Accept(p) \/ IgnoreText(p) \/ AnswerText(p) \/ ReceiveClose(p) \/ CloseDone(p) \/ ConnectionLost(p)
  PROVE  PipedAt(p)'
<1>1. CASE Accept(p)
  <2>1. /\ socket[p] = "CONNECTING" /\ link'[p] = "up"
        /\ UNCHANGED <<socket, openAt, sent, up, got>>
    BY <1>1 DEF Accept, Connecting, page, TypeOK
  <2>2. Piped(socket[p], openAt[p], sent[p], "up", up[p], got[p])
    BY <2>1, PipedTypes, PipedMoves DEF PipedAt
  <2> QED
    BY <2>1, <2>2 DEF PipedAt
<1>2. CASE IgnoreText(p) \/ AnswerText(p)
  <2>1. /\ up[p] # <<>> /\ Head(up[p]) # CloseFrame
        /\ up'[p] = Tail(up[p]) /\ got'[p] = Append(got[p], Head(up[p]))
        /\ UNCHANGED <<socket, openAt, sent, link>>
    BY <1>2 DEF IgnoreText, AnswerText, Receiving, page, TypeOK
  <2>2. Piped(socket[p], openAt[p], sent[p], link[p], Tail(up[p]), Append(got[p], Head(up[p])))
    BY <2>1, PipedTypes, PipedReads DEF PipedAt
  <2> QED
    BY <2>1, <2>2 DEF PipedAt
<1>3. CASE ReceiveClose(p)
  <2>1. /\ up[p] # <<>> /\ Head(up[p]) = CloseFrame /\ up'[p] = Tail(up[p])
        /\ UNCHANGED <<socket, openAt, sent, link, got>>
    BY <1>3 DEF ReceiveClose, Receiving, page, TypeOK
  <2>2. Piped(socket[p], openAt[p], sent[p], link[p], Tail(up[p]), got[p])
    BY <2>1, PipedTypes, PipedReadsClose DEF PipedAt
  <2> QED
    BY <2>1, <2>2 DEF PipedAt
<1>4. CASE CloseDone(p)
  <2>1. up'[p] = <<>> /\ link'[p] = "fin" /\ UNCHANGED <<socket, openAt, sent, got>>
    BY <1>4 DEF CloseDone, page, TypeOK
  <2>2. Piped(socket[p], openAt[p], sent[p], "fin", <<>>, got[p])
    BY PipedTypes, PipedMoves DEF PipedAt
  <2> QED
    BY <2>1, <2>2 DEF PipedAt
<1>5. CASE ConnectionLost(p)
  BY <1>5, PipedElsewhere DEF ConnectionLost, clientVars, page, network
<1> QED
  BY <1>1, <1>2, <1>3, <1>4, <1>5

LEMMA PipedStep ==
  ASSUME TypeOK, AllPiped, [Next]_vars
  PROVE  AllPiped'
<1> SUFFICES ASSUME NEW q \in Pages
             PROVE  PipedAt(q)'
  BY DEF AllPiped
<1>0. PipedAt(q)
  BY DEF AllPiped
<1>1. ASSUME UNCHANGED <<socket, openAt, sent, link, up, got>>
      PROVE  PipedAt(q)'
  BY <1>0, <1>1, PipedElsewhere
<1>2. ASSUME NEW p \in Pages, UNCHANGED serverVars,
             \/ Load(p) \/ ClickClose(p) \/ ClickSend(p) \/ BeforeUnload(p) \/ onopen(p)
             \/ onmessage(p) \/ onclose(p) \/ DropMessage(p) \/ HandleCloseFrame(p) \/ Cut(p)
      PROVE  PipedAt(q)'
  <2>1. got' = got
    BY <1>2 DEF serverVars
  <2>2. CASE q = p
    BY <1>0, <1>2, <2>1, <2>2, PipedOwnStep
  <2>3. CASE q # p
    BY <1>0, <1>2, <2>1, <2>3, OtherPages, PipedElsewhere
  <2> QED
    BY <2>2, <2>3
<1>3. ASSUME NEW p \in Pages,
             Accept(p) \/ IgnoreText(p) \/ AnswerText(p) \/ ReceiveClose(p) \/ CloseDone(p) \/ ConnectionLost(p)
      PROVE  PipedAt(q)'
  <2>1. CASE q = p
    BY <1>0, <1>3, <2>1, PipedHandler
  <2>2. CASE q # p
    <3>1. /\ socket'[q] = socket[q] /\ openAt'[q] = openAt[q] /\ sent'[q] = sent[q]
          /\ link'[q] = link[q] /\ up'[q] = up[q] /\ got'[q] = got[q]
      BY <1>3, <2>2 DEF Accept, IgnoreText, AnswerText, ReceiveClose, CloseDone, ConnectionLost,
                        clientVars, page, network, TypeOK
    <3> QED
      BY <1>0, <3>1, PipedElsewhere
  <2> QED
    BY <2>1, <2>2
<1>4. ASSUME NEW s \in Sources, NEW p \in Pages, SendStr(s, p) \/ SendNothing(s, p) \/ SendFails(s, p)
      PROVE  PipedAt(q)'
  BY <1>4, <1>1 DEF SendStr, SendNothing, SendFails, clientVars, page, network
<1>5. CASE push \/ TakeFromQueue \/ SendTime \/ OnShutdown
  BY <1>5, <1>1 DEF push, TakeFromQueue, SendTime, OnShutdown, clientVars, page, network
<1>6. CASE UNCHANGED vars
  BY <1>6, <1>1 DEF vars, serverVars, clientVars, page, network
<1> QED
  BY <1>2, <1>3, <1>4, <1>5, <1>6, NextCases

\* What a server reads of a page is what the page logged from the opening of its
\* connection on, HELLO first, without a gap (send, onopen; process_websocket, ws_handler).
THEOREM ServerReads == Spec => []ServerReadsWhatWasSent
<1>1. Init => AllPiped
  <2> SUFFICES ASSUME Init, NEW p \in Pages
               PROVE  PipedAt(p)
    BY DEF AllPiped
  <2>1. /\ socket[p] = "unloaded" /\ openAt[p] = -1 /\ sent[p] = <<>>
        /\ up[p] = <<>> /\ got[p] = <<>>
    BY DEF Init, ClientInit
  <2>2. Len(<<>>) = 0
    OBVIOUS
  <2> QED
    BY <2>1, <2>2 DEF PipedAt, Piped
<1>2. TypeOK /\ AllPiped /\ [Next]_vars => AllPiped'
  BY PipedStep
<1>3. TypeOK /\ AllPiped => ServerReadsWhatWasSent
  <2> SUFFICES ASSUME TypeOK, AllPiped, NEW p \in Pages, got[p] # <<>>
               PROVE  /\ got[p][1] = Hello
                      /\ \A i \in DOMAIN got[p] : /\ openAt[p] + i <= Len(sent[p])
                                                  /\ got[p][i] = sent[p][openAt[p] + i]
    BY DEF ServerReadsWhatWasSent
  <2>1. Piped(socket[p], openAt[p], sent[p], link[p], up[p], got[p])
    BY DEF AllPiped, PipedAt
  <2>2. DOMAIN got[p] = 1..Len(got[p]) /\ 1 \in 1..Len(got[p])
    BY PipedTypes
  <2>3. openAt[p] >= 0 /\ sent[p][openAt[p] + 1] = Hello
    BY <2>1, PipedTypes DEF Piped
  <2>4. \A i \in DOMAIN got[p] : openAt[p] + i <= Len(sent[p]) /\ got[p][i] = sent[p][openAt[p] + i]
    BY <2>1, <2>2 DEF Piped
  <2> QED
    BY <2>2, <2>3, <2>4
<1> QED
  BY <1>1, <1>2, <1>3, TypeCorrect, PTL DEF Spec
=============================================================================
