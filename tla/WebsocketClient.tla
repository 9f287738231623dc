--------------------------- MODULE WebsocketClient ---------------------------
(***************************************************************************)
(* The websocket page experiments/aio-py/client/client.js.                 *)
(*                                                                         *)
(* A page is one loaded document: a reload is another page.  Its script    *)
(* opens one socket and reacts to events; a browser runs one event handler *)
(* at a time to its end, so a handler is an action.  What the script shows *)
(* to its user is the log of the page, kept here by kind of line: `sent'   *)
(* (MSG-SEND) and `received' (MSG-RECV); the lines SOCK-OPEN, SOCK-ERR and *)
(* SOCK-CLOSE are the changes of `socket'.                                 *)
(*                                                                         *)
(* The browser's WebSocket and the connection behind it are external:      *)
(* frames of either direction arrive in order until the connection is cut, *)
(* and a text is transmitted only while the socket is open.                *)
(***************************************************************************)
EXTENDS Integers, Sequences

CONSTANTS
  Pages,       \* documents that are loaded in the run
  Sources,     \* whatever makes a server send a text to the page
  Typed,       \* texts a user may type into the message field
  Locations,   \* window.location of a page: [hostname, port]
  Endpoint,    \* the URI a server listens at
  Settings,    \* the settings of the instance
  MaxClicks    \* clicks on "send" in a run, per page

Hello == "HELLO"
Texts == Typed \cup {Hello}
CloseFrame == "close frame"     \* the page starts or answers the closing handshake
\* A frame from the server: the n-th text of a source, or the closing handshake.
Text(s, n) == [type |-> "text", source |-> s, n |-> n]
ServerClose == [type |-> "close"]
NoUri == [protocol |-> "", host |-> "", port |-> "", path |-> ""]

ASSUME WebsocketClientAssumption ==
  /\ MaxClicks \in Nat
  /\ Settings \subseteq [server : {"aio", "agent"}, used : SUBSET Pages, breakable : SUBSET Pages,
                          background : Nat, stops : BOOLEAN]
  /\ CloseFrame \notin Texts

VARIABLES
  setting,    \* fixed in a behaviour: [server : the program that listens,
              \*   used : the pages with a user who clicks and leaves,
              \*   breakable : the pages whose connection may break by itself,
              \*   background : a bound on the broadcasts of the background task,
              \*   stops : whether the server is shut down]
  uri,        \* wsuri of the page
  socket,     \* socket.readyState, "unloaded" before the script runs
  sent,       \* the log: MSG-SEND lines
  received,   \* the log: MSG-RECV lines by source, as numbers of the source's messages
  openAt,     \* history: MSG-SEND lines above the line SOCK-OPEN, -1 without that line
  link,       \* the connection: none, up, fin (closed by the server), cut
  up,         \* frames on their way to the server
  down        \* frames on their way to the page

page == <<setting, uri, sent, received, openAt>>
network == <<link, up, down>>
clientVars == <<page, socket, network>>

SocketStates == {"unloaded", "CONNECTING", "OPEN", "CLOSING", "CLOSED"}
Opened(p) == openAt[p] >= 0
Clickable(p) == p \in setting.used /\ socket[p] # "unloaded"

ClientInit ==
  /\ setting \in Settings
  /\ uri = [p \in Pages |-> NoUri]
  /\ socket = [p \in Pages |-> "unloaded"]
  /\ sent = [p \in Pages |-> <<>>]
  /\ received = [p \in Pages |-> [s \in Sources |-> <<>>]]
  /\ openAt = [p \in Pages |-> -1]
  /\ link = [p \in Pages |-> "none"]
  /\ up = [p \in Pages |-> <<>>]
  /\ down = [p \in Pages |-> <<>>]

-----------------------------------------------------------------------------
(***************************************************************************)
(* The connection.                                                         *)
(***************************************************************************)
Connecting(p) == socket[p] = "CONNECTING" /\ link[p] = "none"

CutLink(p) ==
  /\ link' = [link EXCEPT ![p] = "cut"]
  /\ up' = [up EXCEPT ![p] = <<>>]
  /\ down' = [down EXCEPT ![p] = <<>>]

Transmit(p, frame) ==
  /\ up' = IF link[p] = "up" THEN [up EXCEPT ![p] = Append(@, frame)] ELSE up
  /\ UNCHANGED <<link, down>>

Cut(p) ==
  /\ Connecting(p) \/ link[p] = "up" \/ (link[p] = "fin" /\ socket[p] \in {"OPEN", "CLOSING"})
  /\ CutLink(p)
  /\ UNCHANGED <<page, socket>>

\* The network, or either host, breaks the connection or fails to make it.
Break(p) == p \in setting.breakable /\ Cut(p)

Reaches(p) == uri[p] = Endpoint

-----------------------------------------------------------------------------
(***************************************************************************)
(* The script.                                                             *)
(***************************************************************************)
\* log(text) appends a line.
Log(lines, k, line) == [lines EXCEPT ![k] = Append(@, line)]

mkuri(protocol, host, port, path) ==
  [protocol |-> protocol, host |-> IF host = "" THEN "localhost" ELSE host,
   port |-> port, path |-> path]

\* The script runs: it makes its URI from the location of the page and starts to
\* connect.
Load(p) ==
  /\ socket[p] = "unloaded"
  /\ \E loc \in Locations :
       uri' = [uri EXCEPT ![p] = mkuri("ws", loc.hostname, loc.port, "ws")]
  /\ socket' = [socket EXCEPT ![p] = "CONNECTING"]
  /\ UNCHANGED <<setting, sent, received, openAt, network>>

\* Mutant of send: a text sent before the connection is open is kept and goes out
\* as soon as it is.
sendKeeps(p, msg, readyState) ==
  /\ sent' = Log(sent, p, msg)
  /\ up' = IF readyState \in {"CONNECTING", "OPEN"} THEN [up EXCEPT ![p] = Append(@, msg)] ELSE up
  /\ UNCHANGED <<link, down>>

\* send(msg) logs first.  socket.send then transmits if the socket is open, throws
\* InvalidStateError while it is connecting, and drops the text once it is closing.
send(p, msg, readyState) ==
  /\ sent' = Log(sent, p, msg)
  /\ IF readyState = "OPEN" THEN Transmit(p, msg) ELSE UNCHANGED network

onopen(p) ==
  /\ socket[p] = "CONNECTING" /\ link[p] \in {"up", "fin"}
  /\ socket' = [socket EXCEPT ![p] = "OPEN"]
  /\ openAt' = [openAt EXCEPT ![p] = Len(sent[p])]
  /\ send(p, Hello, "OPEN")
  /\ UNCHANGED <<setting, uri, received>>

onmessage(p) ==
  /\ socket[p] = "OPEN" /\ down[p] # <<>> /\ Head(down[p]).type = "text"
  /\ received' = [received EXCEPT ![p] = Log(@, Head(down[p]).source, Head(down[p]).n)]
  /\ down' = [down EXCEPT ![p] = Tail(@)]
  /\ UNCHANGED <<setting, uri, socket, sent, openAt, link, up>>

\* socket.close(): an attempt to connect is given up; an open connection starts
\* the closing handshake; later calls change nothing.
close(p) ==
  \/ socket[p] = "CONNECTING" /\ CutLink(p)
  \/ socket[p] = "OPEN" /\ Transmit(p, CloseFrame)
  \/ socket[p] \in {"CLOSING", "CLOSED"} /\ UNCHANGED network

\* The connection failed, which is an event of its own before the socket is closed.
onerror(p) == socket[p] \in {"CONNECTING", "OPEN", "CLOSING"} /\ link[p] = "cut"

\* The socket is closed.  The script does not connect again.
onclose(p) ==
  /\ \/ onerror(p)
     \/ socket[p] \in {"OPEN", "CLOSING"} /\ link[p] = "fin" /\ down[p] = <<>>
  /\ socket' = [socket EXCEPT ![p] = "CLOSED"]
  /\ UNCHANGED <<page, network>>

ClosingState(p) == IF socket[p] \in {"CONNECTING", "OPEN"} THEN "CLOSING" ELSE socket[p]

ClickClose(p) ==
  /\ Clickable(p)
  /\ close(p)
  /\ socket' = [socket EXCEPT ![p] = ClosingState(p)]
  /\ UNCHANGED page

ClickSend(p) ==
  /\ Clickable(p) /\ Len(sent[p]) < MaxClicks + (IF Opened(p) THEN 1 ELSE 0)
  /\ \E msg \in Typed : send(p, msg, socket[p])
  /\ UNCHANGED <<setting, uri, socket, received, openAt>>

\* beforeunload closes the socket.  The document then goes away and leaves its
\* closing socket behind, or stays when the navigation turns out to be a download.
BeforeUnload(p) ==
  /\ Clickable(p)
  /\ close(p)
  /\ socket' = [socket EXCEPT ![p] = ClosingState(p)]
  /\ UNCHANGED page

-----------------------------------------------------------------------------
(***************************************************************************)
(* The browser between the connection and the script.                      *)
(***************************************************************************)
\* A text that comes in when the socket is no longer open is dropped.
DropMessage(p) ==
  /\ socket[p] = "CLOSING" /\ down[p] # <<>> /\ Head(down[p]).type = "text"
  /\ down' = [down EXCEPT ![p] = Tail(@)]
  /\ UNCHANGED <<page, socket, link, up>>

\* A close frame is answered unless it is the answer itself.
HandleCloseFrame(p) ==
  /\ socket[p] \in {"OPEN", "CLOSING"} /\ down[p] # <<>> /\ Head(down[p]).type = "close"
  /\ socket' = [socket EXCEPT ![p] = "CLOSING"]
  /\ down' = [down EXCEPT ![p] = Tail(@)]
  /\ up' = IF socket[p] = "OPEN" /\ link[p] = "up"
           THEN [up EXCEPT ![p] = Append(@, CloseFrame)] ELSE up
  /\ UNCHANGED <<page, link>>

\* Nobody listens at the URI of the page.
Refuse(p) == Connecting(p) /\ ~Reaches(p) /\ Cut(p)

PageEvent(p) ==
  \/ onopen(p) \/ onmessage(p) \/ onclose(p) \/ DropMessage(p) \/ HandleCloseFrame(p)
  \/ Refuse(p)

ClientNext(p) == Load(p) \/ ClickClose(p) \/ ClickSend(p) \/ BeforeUnload(p) \/ Break(p) \/ PageEvent(p)
=============================================================================
