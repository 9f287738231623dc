----------------------------- MODULE Websockets ------------------------------
(***************************************************************************)
(* Pages and the server they are connected to: either the experiment       *)
(* experiments/aio-py/aio_py.py ("aio"), which serves the page, or the     *)
(* CSM agent (csm/core/agent/api.py, "agent"), which listens at the same   *)
(* path.  Both keep a WeakSet of the open websockets, run one coroutine    *)
(* per websocket and a background task, and broadcast in the same way: a   *)
(* copy of the set is visited, one await per client, in a single try.      *)
(*                                                                         *)
(* They differ in what is broadcast.  The experiment answers every text to *)
(* all clients, closes a websocket on the text "close", and sends the time *)
(* every 15 seconds.  The agent ignores texts and broadcasts what push()   *)
(* has put into a queue.                                                   *)
(*                                                                         *)
(* An action is what a coroutine runs between two awaits.  send_str waits  *)
(* while the peer's buffer is full, so other coroutines run between two    *)
(* sends of a broadcast.                                                   *)
(***************************************************************************)
EXTENDS WebsocketClient

CONSTANTS
  Capacity,        \* texts that fit into the write buffer of a connection
  Background       \* the background task: ws_background, _websock_bg

ASSUME WebsocketsAssumption ==
  /\ Capacity \in Nat \ {0}
  /\ Background \notin Pages
  /\ Sources = Pages \cup {Background}

VARIABLES
  handler,    \* the coroutine of a websocket: none, run, closing (in ws.close()), done
  clients,    \* the WeakSet of websockets
  todo,       \* the clients a broadcast has still to visit, per source
  count,      \* the broadcasts of each source so far, the one in progress included
  got,        \* history: the texts the coroutine of a websocket has read
  queue,      \* CsmRestApi._queue: the number of messages in it (it is a FIFO)
  bg,         \* the background task: run, done
  stopping    \* on_shutdown has cancelled the background task

broadcast == <<todo, count>>
bgVars == <<queue, bg, stopping>>
serverVars == <<handler, clients, broadcast, got, bgVars>>
vars == <<clientVars, serverVars>>

Frames == [type : {"text"}, source : Sources, n : Nat] \cup {ServerClose}

TypeOK ==
  /\ setting \in Settings
  /\ socket \in [Pages -> SocketStates]
  /\ sent \in [Pages -> Seq(Texts)]
  /\ received \in [Pages -> [Sources -> Seq(Nat)]]
  /\ openAt \in [Pages -> Nat \cup {-1}]
  /\ link \in [Pages -> {"none", "up", "fin", "cut"}]
  /\ up \in [Pages -> Seq(Texts \cup {CloseFrame})]
  /\ down \in [Pages -> Seq(Frames)]
  /\ handler \in [Pages -> {"none", "run", "closing", "done"}]
  /\ clients \in SUBSET Pages
  /\ todo \in [Sources -> SUBSET Pages]
  /\ count \in [Sources -> Nat]
  /\ got \in [Pages -> Seq(Texts)]
  /\ queue \in Nat
  /\ bg \in {"run", "done"}
  /\ stopping \in BOOLEAN

Init ==
  /\ ClientInit
  /\ handler = [p \in Pages |-> "none"]
  /\ clients = {}
  /\ todo = [s \in Sources |-> {}]
  /\ count = [s \in Sources |-> 0]
  /\ got = [p \in Pages |-> <<>>]
  /\ queue = 0
  /\ bg = "run" /\ stopping = FALSE

-----------------------------------------------------------------------------
(***************************************************************************)
(* _websock_broadcast, ws_broadcast                                        *)
(***************************************************************************)
\* The set of clients is copied: it changes while the broadcast goes on.
Publish(s) ==
  /\ count' = [count EXCEPT ![s] = @ + 1]
  /\ todo' = [todo EXCEPT ![s] = clients]

\* The exception handler around the loop: the clients not yet visited are skipped.
Abandon(s) ==
  /\ todo' = [todo EXCEPT ![s] = {}]
  /\ UNCHANGED count

\* ws.send_str works as long as nobody has closed the websocket.
Writable(p) == handler[p] = "run" /\ link[p] = "up"

\* Mutant of Visited: the client stays in the loop and is sent the message again.
VisitedAgain(s, p) == UNCHANGED broadcast

\* Mutant of Visited: the loop is left after the first client.
VisitedLast(s, p) ==
  /\ todo' = [todo EXCEPT ![s] = {}]
  /\ UNCHANGED count

\* The loop goes on to the next client.
Visited(s, p) ==
  /\ todo' = [todo EXCEPT ![s] = @ \ {p}]
  /\ UNCHANGED count

\* The text goes into the buffer of the connection, when there is room.
SendStr(s, p) ==
  /\ p \in todo[s] /\ Writable(p) /\ Len(down[p]) < Capacity
  /\ down' = [down EXCEPT ![p] = Append(@, Text(s, count[s]))]
  /\ Visited(s, p)
  /\ UNCHANGED <<page, socket, link, up, handler, clients, got, bgVars>>

\* A lost connection the transport does not know of takes the text; a websocket
\* whose coroutine has ended may have left the copy, which holds it weakly.
SendNothing(s, p) ==
  /\ p \in todo[s]
  /\ (handler[p] = "run" /\ link[p] = "cut") \/ handler[p] = "done"
  /\ Visited(s, p)
  /\ UNCHANGED <<clientVars, handler, clients, got, bgVars>>

\* Mutant of SendFails: the exception leaves the background task, too.
SendFailsUncaught(s, p) ==
  /\ p \in todo[s] /\ ~Writable(p)
  /\ Abandon(s)
  /\ bg' = IF s = Background THEN "done" ELSE bg
  /\ UNCHANGED <<clientVars, handler, clients, got, queue, stopping>>

\* Otherwise the send raises, and the broadcast is over for everybody.
SendFails(s, p) ==
  /\ p \in todo[s] /\ ~Writable(p)
  /\ Abandon(s)
  /\ UNCHANGED <<clientVars, handler, clients, got, bgVars>>

-----------------------------------------------------------------------------
(***************************************************************************)
(* process_websocket, ws_handler                                           *)
(***************************************************************************)
\* ws.prepare() and the entry in the set.
Accept(p) ==
  /\ Connecting(p) /\ Reaches(p) /\ ~stopping
  /\ link' = [link EXCEPT ![p] = "up"]
  /\ handler' = [handler EXCEPT ![p] = "run"]
  /\ clients' = clients \cup {p}
  /\ UNCHANGED <<page, socket, up, down, broadcast, got, bgVars>>

\* The message loop waits for the next frame.
Receiving(p) == handler[p] = "run" /\ todo[p] = {} /\ up[p] # <<>>

\* ws.close(): the close frame is written, then the coroutine waits for the peer.
CloseWebsocket(p) ==
  /\ handler' = [handler EXCEPT ![p] = "closing"]
  /\ down' = [down EXCEPT ![p] = Append(@, ServerClose)]

\* The agent reads a text and ignores it.
IgnoreText(p) ==
  /\ setting.server = "agent" /\ Receiving(p) /\ Head(up[p]) # CloseFrame
  /\ got' = [got EXCEPT ![p] = Append(@, Head(up[p]))]
  /\ up' = [up EXCEPT ![p] = Tail(@)]
  /\ UNCHANGED <<page, socket, link, down, handler, clients, broadcast, bgVars>>

\* The experiment broadcasts its answer, or closes the websocket.
AnswerText(p) ==
  /\ setting.server = "aio" /\ Receiving(p) /\ Head(up[p]) # CloseFrame
  /\ got' = [got EXCEPT ![p] = Append(@, Head(up[p]))]
  /\ up' = [up EXCEPT ![p] = Tail(@)]
  /\ IF Head(up[p]) = "close"
     THEN CloseWebsocket(p) /\ UNCHANGED broadcast
     ELSE Publish(p) /\ UNCHANGED <<handler, down>>
  /\ UNCHANGED <<page, socket, link, clients, bgVars>>

\* Mutant of ReceiveClose: the close frame of the page is not answered.
ReceiveCloseSilently(p) ==
  /\ Receiving(p) /\ Head(up[p]) = CloseFrame
  /\ up' = [up EXCEPT ![p] = Tail(@)]
  /\ UNCHANGED <<page, socket, link, down, handler, clients, broadcast, got, bgVars>>

\* The loop ends on the close frame of the page, which aiohttp answers.
ReceiveClose(p) ==
  /\ Receiving(p) /\ Head(up[p]) = CloseFrame
  /\ up' = [up EXCEPT ![p] = Tail(@)]
  /\ CloseWebsocket(p)
  /\ UNCHANGED <<page, socket, link, clients, broadcast, got, bgVars>>

\* Mutant of Leave: the entry is not discarded in a finally block.
LeaveRegistered(p) ==
  /\ handler' = [handler EXCEPT ![p] = "done"]
  /\ UNCHANGED clients

\* The finally block, whatever ended the loop.
Leave(p) ==
  /\ handler' = [handler EXCEPT ![p] = "done"]
  /\ clients' = clients \ {p}

\* ws.close() has got an answer or has waited long enough; the connection ends.
CloseDone(p) ==
  /\ handler[p] = "closing" /\ link[p] = "up"
  /\ Leave(p)
  /\ link' = [link EXCEPT ![p] = "fin"]
  /\ up' = [up EXCEPT ![p] = <<>>]
  /\ UNCHANGED <<page, socket, down, broadcast, got, bgVars>>

\* The server learns that the connection is lost: the coroutine is cancelled, in a
\* broadcast too, where the cancellation is caught like any exception.
ConnectionLost(p) ==
  /\ handler[p] \in {"run", "closing"} /\ link[p] = "cut"
  /\ Leave(p)
  /\ Abandon(p)
  /\ UNCHANGED <<clientVars, got, bgVars>>

-----------------------------------------------------------------------------
(***************************************************************************)
(* The background tasks.                                                   *)
(***************************************************************************)
\* push(): another thread hands the event loop a message for the queue.
push ==
  /\ setting.server = "agent" /\ count[Background] + queue < setting.background
  /\ queue' = queue + 1
  /\ UNCHANGED <<clientVars, handler, clients, broadcast, got, bg, stopping>>

\* Mutant of TakeFromQueue: a get() that does not wait for a message.
TakeWithoutWaiting ==
  /\ setting.server = "agent" /\ bg = "run" /\ todo[Background] = {}
  /\ queue' = queue - 1
  /\ Publish(Background)
  /\ UNCHANGED <<clientVars, handler, clients, got, bg, stopping>>

\* _websock_bg
TakeFromQueue ==
  /\ setting.server = "agent" /\ bg = "run" /\ todo[Background] = {} /\ queue > 0
  /\ queue' = queue - 1
  /\ Publish(Background)
  /\ UNCHANGED <<clientVars, handler, clients, got, bg, stopping>>

\* ws_background: the sleep is over.
SendTime ==
  /\ setting.server = "aio" /\ bg = "run" /\ todo[Background] = {}
  /\ count[Background] < setting.background
  /\ Publish(Background)
  /\ UNCHANGED <<clientVars, handler, clients, got, queue, bg, stopping>>

\* _on_shutdown, ws_shutdown: the task is cancelled.  In the broadcast the
\* cancellation is caught and the task goes on.
OnShutdown ==
  /\ setting.stops /\ ~stopping
  /\ stopping' = TRUE
  /\ bg' = IF todo[Background] = {} THEN "done" ELSE bg
  /\ Abandon(Background)
  /\ UNCHANGED <<clientVars, handler, clients, got, queue>>

-----------------------------------------------------------------------------
HandlerStep(p) ==
  IgnoreText(p) \/ AnswerText(p) \/ ReceiveClose(p) \/ CloseDone(p) \/ ConnectionLost(p)

BroadcastStep(s) == \E p \in Pages : SendStr(s, p) \/ SendNothing(s, p) \/ SendFails(s, p)

\* No connection is accepted any more.
RefuseStopping(p) == Connecting(p) /\ stopping /\ Cut(p)

Next ==
  \/ \E p \in Pages : (ClientNext(p) \/ RefuseStopping(p)) /\ UNCHANGED serverVars
  \/ \E p \in Pages : Accept(p) \/ HandlerStep(p)
  \/ \E s \in Sources : BroadcastStep(s)
  \/ push \/ TakeFromQueue \/ SendTime \/ OnShutdown

Spec == Init /\ [][Next]_vars

Fairness ==
  /\ \A p \in Pages :
       /\ WF_vars((PageEvent(p) \/ RefuseStopping(p)) /\ UNCHANGED serverVars)
       /\ WF_vars(Accept(p))
       /\ WF_vars(HandlerStep(p))
  /\ \A s \in Sources : WF_vars(BroadcastStep(s))
  /\ WF_vars(TakeFromQueue)

FairSpec == Spec /\ Fairness

-----------------------------------------------------------------------------
\* The coroutine of a websocket reads, from the first on and in order, the texts the
\* page logged while its socket was open: HELLO first, whatever the user clicked
\* before the connection was made, and nothing after a text that was lost.
ServerReadsWhatWasSent ==
  \A p \in Pages : got[p] # <<>> =>
    /\ got[p][1] = Hello
    /\ \A i \in DOMAIN got[p] : /\ openAt[p] + i <= Len(sent[p])
                                /\ got[p][i] = sent[p][openAt[p] + i]

Gone(s) == IF s = Background THEN stopping ELSE handler[s] # "run" \/ link[s] = "cut"
Connected(p) == Writable(p) /\ socket[p] \in {"CONNECTING", "OPEN"}
Has(p, s, n) ==
  \/ \E i \in DOMAIN down[p] : down[p][i] = Text(s, n)
  \/ \E i \in DOMAIN received[p][s] : received[p][s][i] = n

\* A broadcast begins with every connected client, and passes over one that stays
\* connected only when another client it has still to visit, or the sender, has gone:
\* nothing but a disconnection (or the shutdown) makes others miss a message.
MissedOnlyWhenAnotherLeft ==
  [][ \A s \in Sources, p \in Pages : Connected(p) /\ Connected(p)' =>
        /\ count'[s] # count[s] => p \in todo'[s]
        /\ p \in todo[s] \ todo'[s] =>
             Has(p, s, count[s])' \/ \E q \in (todo[s] \cup {s}) \ {p} : Gone(q)' ]_vars

\* The pages' logs are readers' views of one feed: no message twice, and those of one
\* sender (the background task, a page of the experiment) in the order of sending.
Feed == INSTANCE MessageFeed WITH
          Readers <- Pages,
          Sources <- Sources,
          published <- count,
          inbox <- received
FeedSpec == Feed!Spec

\* A socket that is being closed gets closed, and the log says so: no broadcast and
\* no other client keeps the server from answering for ever.
ClosingEnds ==
  \A p \in Pages : socket[p] = "CLOSING" ~> socket[p] = "CLOSED"

\* A websocket whose connection is lost, or whose page is closing it, leaves the set
\* of clients.
LostClientsForgotten ==
  \A p \in Pages : link[p] = "cut" \/ socket[p] = "CLOSING" ~> p \notin clients

\* What push() has put into the queue is broadcast, unless the agent is stopped: a
\* broadcast that fails, or a client that leaves, does not end the background task.
PushedIsBroadcast == queue > 0 ~> queue = 0 \/ stopping
=============================================================================
