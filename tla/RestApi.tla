------------------------------- MODULE RestApi -------------------------------
(***************************************************************************)
(* The REST front end of the CSM agent (csm/core/agent/api.py): the        *)
(* middlewares every request runs through and the signal handlers that     *)
(* shut the agent down.                                                    *)
(*                                                                         *)
(* The agent is one asyncio event loop.  An action is the code a task runs *)
(* from one suspension point to the next, so the throttler's test and its  *)
(* increment, or the shutdown flag and the copy of server.connections, are *)
(* one step.  A connection carries at most one request at a time.          *)
(***************************************************************************)
EXTENDS Integers, FiniteSets, ErrorResponses

CONSTANTS
  Connections,    \* client connections the model may open
  RequestQuota,   \* the configured request quota of the agent
  Signals,        \* deliveries of SIGINT and SIGTERM, one _shut_down task each
  Kind,           \* Kind[s] is the signal of the delivery s
  Raised,         \* the exception classes handlers raise in this instance
  MaxBlocked      \* bound on the counter of blocked requests

ASSUME RestApiAssumption ==
  /\ IsFiniteSet(Connections)
  /\ RequestQuota \in Nat
  /\ Kind \in [Signals -> {"SIGINT", "SIGTERM"}]
  /\ Raised \subseteq Classes
  /\ MaxBlocked \in Nat

VARIABLES
  task,           \* what the task of each connection is doing
  connections,    \* server.connections
  reply,          \* what the last request on the connection was answered
  nreq,           \* CsmRestApi.__nreq
  nblocked,       \* CsmRestApi.__nblocked
  isShuttingDown, \* CsmRestApi.__is_shutting_down
  shut,           \* state of the _shut_down task of each signal
  original,       \* the part of original_connections that is still connected
  cancelled,      \* tasks that got task.cancel() and have not run since
  loop            \* "running" until loop.stop()

shutVars == <<isShuttingDown, shut, loop>>
vars == <<task, connections, reply, nreq, nblocked, isShuttingDown, shut, original,
          cancelled, loop>>

\* A task has ended, waits for the next request, or is suspended: reading the
\* request's body, in auth_session, in the handler, in a websocket's loop.
InFlightStates == {"body", "auth", "handler", "websocket"}
TaskStates == {"ended", "idle"} \cup InFlightStates
ShutStates == {"none", "wait", "stop", "done"}

InFlight == {c \in Connections : task[c] \in InFlightStates}

NoReply == [raised |-> "nothing", status |-> 0]
Statuses == {0, 200, 429, 500, 503} \cup {StatusOf(e) : e \in Classes}
Replies == [raised : Classes \cup {"nothing"}, status : Statuses]

TypeOK ==
  /\ task \in [Connections -> TaskStates]
  /\ connections \in SUBSET Connections
  /\ reply \in [Connections -> Replies]
  /\ nreq \in Nat
  /\ nblocked \in Nat
  /\ isShuttingDown \in BOOLEAN
  /\ shut \in [Signals -> ShutStates]
  /\ original \in [Signals -> SUBSET Connections]
  /\ cancelled \in SUBSET Connections
  /\ loop \in {"running", "stopped"}

Init ==
  /\ task = [c \in Connections |-> "ended"]
  /\ connections = {}
  /\ reply = [c \in Connections |-> NoReply]
  /\ nreq = 0
  /\ nblocked = 0
  /\ isShuttingDown = FALSE
  /\ shut = [s \in Signals |-> "none"]
  /\ original = [s \in Signals |-> {}]
  /\ cancelled = {}
  /\ loop = "running"

-----------------------------------------------------------------------------
(***************************************************************************)
(* Connections.  The socket listens until site.stop(), also while a        *)
(* SIGTERM waits for the connections that were open when it arrived.       *)
(***************************************************************************)
Listening == loop = "running" /\ \A s \in Signals : shut[s] \in {"none", "wait"}

Accept(c) ==
  /\ Listening
  /\ task[c] = "ended"
  /\ task' = [task EXCEPT ![c] = "idle"]
  /\ connections' = connections \cup {c}
  /\ reply' = [reply EXCEPT ![c] = NoReply]
  /\ UNCHANGED <<nreq, nblocked, original, cancelled>> /\ UNCHANGED shutVars

\* The connection c leaves server.connections and, being a new object if the
\* client ever comes back, every list of original connections.
Disconnect(c) ==
  /\ connections' = connections \ {c}
  /\ original' = [s \in Signals |-> original[s] \ {c}]

\* The client closes a connection that carries no request.
Close(c) ==
  /\ loop = "running"
  /\ task[c] = "idle"
  /\ task' = [task EXCEPT ![c] = "ended"]
  /\ Disconnect(c)
  /\ cancelled' = cancelled \ {c}
  /\ UNCHANGED <<reply, nreq, nblocked>> /\ UNCHANGED shutVars

\* The client goes away during a request.  aiohttp cancels the task, as the
\* comment at the except clause of CancelledError says, or, in the releases that
\* leave handlers alone, lets it run on.
ClientDisconnect(c) ==
  /\ loop = "running"
  /\ c \in InFlight \cap connections
  /\ Disconnect(c)
  /\ cancelled' \in {cancelled, cancelled \cup {c}}
  /\ UNCHANGED <<task, reply, nreq, nblocked>> /\ UNCHANGED shutVars

-----------------------------------------------------------------------------
(***************************************************************************)
(* The middleware chain.                                                   *)
(***************************************************************************)
Runs(c, state) == loop = "running" /\ task[c] = state /\ c \notin cancelled

\* The task resumes in the middle of a request and suspends again further on.
Proceed(c, states) ==
  /\ \E next \in states : task' = [task EXCEPT ![c] = next]
  /\ UNCHANGED <<connections, reply, nblocked, original, cancelled>> /\ UNCHANGED shutVars

\* The request is answered; its task waits for the next one if the client is
\* still there.
Answer(c, raised, status) ==
  /\ task' = [task EXCEPT ![c] = IF c \in connections THEN "idle" ELSE "ended"]
  /\ reply' = [reply EXCEPT ![c] = [raised |-> raised, status |-> status]]
  /\ UNCHANGED <<connections, original, cancelled>> /\ UNCHANGED shutVars

\* Mutant of Block: the finally block covers a blocked request as well.
BlockReleases(c) ==
  /\ Runs(c, "idle")
  /\ nreq >= RequestQuota
  /\ nblocked < MaxBlocked
  /\ nblocked' = nblocked + 1
  /\ Answer(c, "nothing", 429)
  /\ nreq' = nreq - 1

\* throttler_middleware at its limit: the request never enters the chain.
Block(c) ==
  /\ Runs(c, "idle")
  /\ nreq >= RequestQuota
  /\ nblocked < MaxBlocked
  /\ nblocked' = nblocked + 1
  /\ Answer(c, "nothing", 429)
  /\ UNCHANGED nreq

\* throttler_middleware admits the request and rest_middleware turns it away:
\* the increment, the 503 and the decrement of the finally block are one step.
Refuse(c) ==
  /\ Runs(c, "idle")
  /\ nreq < RequestQuota
  /\ isShuttingDown
  /\ Answer(c, "nothing", 503)
  /\ UNCHANGED <<nreq, nblocked>>

\* Mutant of Admit: rest_middleware does not look at the flag.
AdmitDuringShutdown(c) ==
  /\ Runs(c, "idle")
  /\ nreq < RequestQuota
  /\ nreq' = nreq + 1
  /\ Proceed(c, InFlightStates)

\* throttler_middleware admits the request, which then runs until it first
\* suspends: reading the body if it has one, in auth_session unless the
\* endpoint is public, in its handler or in a websocket's loop.
Admit(c) ==
  /\ Runs(c, "idle")
  /\ nreq < RequestQuota
  /\ ~isShuttingDown
  /\ nreq' = nreq + 1
  /\ Proceed(c, InFlightStates)

\* request.json() returned, or failed and the failure was swallowed.
ReadBody(c) ==
  /\ Runs(c, "body")
  /\ Proceed(c, {"auth", "handler"})
  /\ UNCHANGED nreq

\* session_middleware found a session that permission_middleware accepts.
Authorise(c) ==
  /\ Runs(c, "auth")
  /\ Proceed(c, {"handler"})
  /\ UNCHANGED nreq

\* Mutant of Release: the decrement is forgotten.
ReleaseForgotten == nreq' = nreq

\* The finally block of throttler_middleware, whatever the chain did.
Release == nreq' = nreq - 1

\* An exception of the class e reaches rest_middleware: its clause answers or,
\* for an exception without text, error_response fails inside the clause, the
\* UnboundLocalError leaves the middlewares and aiohttp answers.
AnswerRaised(c, e) ==
  \/ Answer(c, e, StatusOf(e))
  \/ e \in Wordless /\ Answer(c, e, 500)

\* What leaves session_middleware and permission_middleware: every CsmError of
\* auth_session has become a 401; anything else, raised by the session store or
\* in the lookup of the configuration, goes through.
AuthFailures ==
  {e \in Raised \ {"CancelledError"} :
     \/ e \in {"CsmUnauthorizedError", "CsmPermissionDenied"}
     \/ \A k \in 1..5 : Ancestry(e)[k] # "CsmError"}

\* No valid session, no permission, or no answer of the session store.
Reject(c) ==
  /\ Runs(c, "auth")
  /\ \E e \in AuthFailures : AnswerRaised(c, e)
  /\ Release
  /\ UNCHANGED nblocked

\* The handler returned, or the client closed its websocket.
Return(c) ==
  /\ Runs(c, "handler") \/ Runs(c, "websocket")
  /\ Answer(c, "nothing", 200)
  /\ Release
  /\ UNCHANGED nblocked

\* The handler raised.
Raise(c) ==
  /\ Runs(c, "handler")
  /\ \E e \in Raised \ {"CancelledError"} : AnswerRaised(c, e)
  /\ Release
  /\ UNCHANGED nblocked

\* A cancelled task runs while it reads a body: the CancelledError is swallowed
\* as any other Exception, and the request carries on.
SwallowCancel(c) ==
  /\ loop = "running"
  /\ c \in cancelled
  /\ task[c] = "body"
  /\ cancelled' = cancelled \ {c}
  /\ \E next \in {"auth", "handler"} : task' = [task EXCEPT ![c] = next]
  /\ UNCHANGED <<connections, reply, nreq, nblocked, original>> /\ UNCHANGED shutVars

\* Elsewhere in the chain a cancelled request is answered 499, and its
\* connection stays open if the client is still there.
Cancelled(c) ==
  /\ loop = "running"
  /\ c \in cancelled
  /\ task[c] \in InFlightStates \ {"body"}
  /\ cancelled' = cancelled \ {c}
  /\ task' = [task EXCEPT ![c] = IF c \in connections THEN "idle" ELSE "ended"]
  /\ reply' = [reply EXCEPT ![c] = [raised |-> "CancelledError",
                                    status |-> StatusOf("CancelledError")]]
  /\ Release
  /\ UNCHANGED <<connections, original, nblocked>> /\ UNCHANGED shutVars

\* Cancelled between two requests, the task ends and closes its connection.
IdleCancelled(c) ==
  /\ loop = "running"
  /\ c \in cancelled
  /\ task[c] = "idle"
  /\ task' = [task EXCEPT ![c] = "ended"]
  /\ Disconnect(c)
  /\ cancelled' = cancelled \ {c}
  /\ UNCHANGED <<reply, nreq, nblocked>> /\ UNCHANGED shutVars

-----------------------------------------------------------------------------
(***************************************************************************)
(* Shutdown.  Each signal starts a _shut_down task.                        *)
(***************************************************************************)
\* task.cancel() on every task but its own; another _shut_down is a task too.
CancelOthers(s) ==
  /\ cancelled' = cancelled \cup {c \in Connections : task[c] # "ended"}
  /\ shut' = [t \in Signals |-> IF t = s THEN "stop"
                                ELSE IF shut[t] \in {"wait", "stop"} THEN "done" ELSE shut[t]]

\* SIGINT passes no server: it cancels at once.
HandleSigint(s) ==
  /\ loop = "running"
  /\ Kind[s] = "SIGINT" /\ shut[s] = "none"
  /\ isShuttingDown' = TRUE
  /\ CancelOthers(s)
  /\ UNCHANGED <<task, connections, reply, nreq, nblocked, original, loop>>

HandleSigterm(s) ==
  /\ loop = "running"
  /\ Kind[s] = "SIGTERM" /\ shut[s] = "none"
  /\ isShuttingDown' = TRUE
  /\ shut' = [shut EXCEPT ![s] = "wait"]
  /\ original' = [original EXCEPT ![s] = connections]
  /\ UNCHANGED <<task, connections, reply, nreq, nblocked, cancelled, loop>>

\* Mutants of Drained: nobody is waited for; everybody is, newcomers included.
DrainedAtOnce(s) == TRUE
DrainedOfAll(s) == connections = {}

\* The loop over original_connections is through.
Drained(s) == original[s] = {}

CancelAfterDrain(s) ==
  /\ loop = "running"
  /\ shut[s] = "wait"
  /\ Drained(s)
  /\ CancelOthers(s)
  /\ UNCHANGED <<task, connections, reply, nreq, nblocked, isShuttingDown, original, loop>>

\* site.stop() returned; loop.stop().
Stop(s) ==
  /\ loop = "running"
  /\ shut[s] = "stop"
  /\ shut' = [shut EXCEPT ![s] = "done"]
  /\ loop' = "stopped"
  /\ UNCHANGED <<task, connections, reply, nreq, nblocked, isShuttingDown, original, cancelled>>

-----------------------------------------------------------------------------
Client(c) == Accept(c) \/ Close(c) \/ ClientDisconnect(c)
Chain(c) ==
  \/ Block(c) \/ Refuse(c) \/ Admit(c) \/ ReadBody(c) \/ Authorise(c)
  \/ Reject(c) \/ Return(c) \/ Raise(c) \/ SwallowCancel(c) \/ Cancelled(c)
  \/ IdleCancelled(c)
Signal(s) == HandleSigint(s) \/ HandleSigterm(s) \/ CancelAfterDrain(s) \/ Stop(s)

Next ==
  \/ \E c \in Connections : Client(c) \/ Chain(c)
  \/ \E s \in Signals : Signal(s)

Spec == Init /\ [][Next]_vars

\* The event loop runs every task that can run; handlers finish; every client
\* eventually closes its connection, be it a websocket's.
Fairness ==
  /\ \A c \in Connections :
       /\ WF_vars(ReadBody(c) \/ Authorise(c) \/ Reject(c) \/ Return(c) \/ Raise(c)
                  \/ SwallowCancel(c) \/ Cancelled(c) \/ IdleCancelled(c))
       /\ WF_vars(Close(c))
  /\ \A s \in Signals : WF_vars(CancelAfterDrain(s)) /\ WF_vars(Stop(s))

FairSpec == Spec /\ Fairness

-----------------------------------------------------------------------------
\* CsmRestApi.__nreq is the number of requests inside the chain on every path
\* through the throttler's finally block (responses, exceptions, cancellation
\* by a client or by a shutdown), and never exceeds the quota.
ThrottlerCounts ==
  /\ nreq = Cardinality(InFlight)
  /\ nreq <= RequestQuota

\* SIGTERM is graceful: _shut_down never cancels a request whose client is
\* still connected unless a SIGINT was received, although the agent keeps
\* accepting connections while it waits.
SigtermIsGraceful ==
  [][ (\E s \in Signals : Kind[s] = "SIGINT" /\ shut[s] # "none")'
      \/ (cancelled' \ cancelled) \cap InFlight \cap connections' = {} ]_vars

\* Why it is graceful: new requests are refused from the moment the flag is set,
\* so every request in flight with a connected client is on one of the
\* connections a waiting SIGTERM still waits for.
WaitersCoverInFlight ==
  \A s \in Signals :
    /\ shut[s] # "none" => isShuttingDown
    /\ shut[s] = "wait" => Kind[s] = "SIGTERM" /\ InFlight \cap connections \subseteq original[s]

\* A SIGTERM stops the agent once the clients connected at that moment have
\* gone, however many connect afterwards.
SigtermStops ==
  \A s \in Signals : (shut[s] # "none") ~> (loop = "stopped")

\* No clause of rest_middleware shadows a later, narrower one: the reply to an
\* exception has the status of the clause that names its nearest superclass, or
\* is the 500 of an exception without text, and then its class is Wordless.
NearestClauseAnswers ==
  /\ StatusTable = NearestTable
  /\ \A c \in Connections : reply[c].raised # "nothing" =>
       \/ reply[c].status = NearestTable[reply[c].raised]
       \/ reply[c].raised \in Wordless /\ reply[c].status = 500
=============================================================================
