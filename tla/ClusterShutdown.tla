--------------------------- MODULE ClusterShutdown ---------------------------
(***************************************************************************)
(* POST /api/v2/system/management/{resource} with operation                *)
(* shutdown_signal: ClusterOperationsView, ClusterManagementAppService,    *)
(* ClusterManagementPlugin, ClusterShutdownSignal and MessageBusComm.      *)
(*                                                                         *)
(* The calls of the message bus and the sleeps between their retries block *)
(* the event loop (`turn' is the request that holds it); a request gives   *)
(* way to others only while it waits for its body.                         *)
(***************************************************************************)
EXTENDS Naturals

CONSTANTS
  Requests,       \* the requests of one run of the model
  MaxRetryCount,  \* RETRY>retry_count
  AgentRestarts   \* whether the agent may be restarted

ASSUME ShutdownAssumption == MaxRetryCount \in Nat \ {0} /\ AgentRestarts \in BOOLEAN

VARIABLES
  bus,   \* message_bus_obj: "none", "no_producer" or "ready"
  req,   \* the requests
  turn,  \* the request that blocks the event loop, {} if none
  sent   \* external: copies of each request's message that the broker took

vars == <<bus, req, turn, sent>>

Roles == {"admin", "manage"}
Resources == {"cluster", "node"}
Steps == {"idle", "open", "init", "body", "send", "done"}
Statuses == {"none", "ok", "failed", "no_bus", "not_sent", "invalid", "denied", "dropped"}

ReqType ==
  [step : Steps, role : Roles, resource : Resources, valid : BOOLEAN,
   tries : 0 .. MaxRetryCount, status : Statuses]

Blank == [step |-> "idle", role |-> "manage", resource |-> "node", valid |-> FALSE,
          tries |-> 0, status |-> "none"]

TypeOK ==
  /\ bus \in {"none", "no_producer", "ready"}
  /\ req \in [Requests -> ReqType]
  /\ turn \in SUBSET Requests
  /\ sent \in [Requests -> Nat]

Init ==
  /\ bus = "none"
  /\ req = [r \in Requests |-> Blank]
  /\ turn = {}
  /\ sent = [r \in Requests |-> 0]

-----------------------------------------------------------------------------
At(r, step) == req[r].step = step /\ turn \subseteq {r}

\* The request goes on, blocking the loop unless it waits for its body.
Goto(r, q) ==
  /\ req' = [req EXCEPT ![r] = q]
  /\ turn' = IF q.step \in {"body", "done"} THEN {} ELSE {r}

Answer(r, status) == Goto(r, [req[r] EXCEPT !.step = "done", !.status = status])

\* The attempt failed: sleep and try again.
Retry(r) == Goto(r, [req[r] EXCEPT !.tries = @ + 1])

\* Mutant of MayTry: one attempt too many.
MayTryOnceMore(r) == req[r].tries <= MaxRetryCount

MayTry(r) == req[r].tries < MaxRetryCount

\* ClusterOperationsView.__init__
Construct(r) ==
  /\ At(r, "idle")
  /\ \E role \in Roles, resource \in Resources, valid \in BOOLEAN :
       Goto(r, [Blank EXCEPT !.role = role, !.resource = resource, !.valid = valid,
                             !.step = IF bus = "none" THEN "open" ELSE "body"])
  /\ UNCHANGED <<bus, sent>>

\* init_message_bus creates the bus object: an endpoint is missing from the
\* configuration or MessageBus.init raises, and message_bus_obj stays None ...
OpenFails(r) ==
  /\ At(r, "open")
  /\ Answer(r, "failed")
  /\ UNCHANGED <<bus, sent>>

\* ... or it is set, before there is a producer.
Open(r) ==
  /\ At(r, "open")
  /\ bus' = "no_producer"
  /\ Goto(r, [req[r] EXCEPT !.step = "init", !.tries = 0])
  /\ UNCHANGED sent

\* init_message_bus_producer, in the loop of init_message_bus.
InitProducer(r) ==
  /\ At(r, "init")
  /\ MayTry(r)
  /\ \/ Goto(r, [req[r] EXCEPT !.step = "body"]) /\ bus' = "ready"
     \/ Retry(r) /\ UNCHANGED bus
  /\ UNCHANGED sent

\* Mutants of InitGivesUp: it does not raise; it never gives up.
InitGivesUpSilently(r) ==
  /\ At(r, "init")
  /\ ~MayTry(r)
  /\ Goto(r, [req[r] EXCEPT !.step = "body"])
  /\ UNCHANGED <<bus, sent>>
InitNeverGivesUp(r) ==
  /\ At(r, "init")
  /\ ~MayTry(r)
  /\ Goto(r, [req[r] EXCEPT !.tries = 0])
  /\ UNCHANGED <<bus, sent>>

InitGivesUp(r) ==
  /\ At(r, "init")
  /\ ~MayTry(r)
  /\ Answer(r, "no_bus")
  /\ UNCHANGED <<bus, sent>>

\* Mutant of Post: _validate_operation is not called.
PostUnvalidated(r) ==
  /\ At(r, "body")
  /\ CASE ~req[r].valid \/ req[r].resource # "cluster" -> Answer(r, "invalid")
       [] req[r].valid /\ req[r].resource = "cluster" ->
            Goto(r, [req[r] EXCEPT !.step = "send", !.tries = 0])
  /\ UNCHANGED <<bus, sent>>

\* post: the body, _validate_operation, the operation of the resource.
Post(r) ==
  /\ At(r, "body")
  /\ CASE ~req[r].valid -> Answer(r, "invalid")
       [] req[r].valid /\ req[r].role # "admin" -> Answer(r, "denied")
       [] req[r].valid /\ req[r].role = "admin" /\ req[r].resource # "cluster" -> Answer(r, "invalid")
       [] req[r].valid /\ req[r].role = "admin" /\ req[r].resource = "cluster" ->
            IF bus = "none" THEN Answer(r, "not_sent")
                            ELSE Goto(r, [req[r] EXCEPT !.step = "send", !.tries = 0])
  /\ UNCHANGED <<bus, sent>>

\* ClusterShutdownSignal.send_message: an attempt that raises may have reached
\* the broker all the same.
Send(r) ==
  /\ At(r, "send")
  /\ MayTry(r)
  /\ bus = "ready"
  /\ \/ Answer(r, "ok") /\ sent' = [sent EXCEPT ![r] = @ + 1]
     \/ Retry(r) /\ sent' \in {sent, [sent EXCEPT ![r] = @ + 1]}
  /\ UNCHANGED bus

\* MessageBusComm.send without a producer logs an error and returns.
SendWithoutProducer(r) ==
  /\ At(r, "send")
  /\ MayTry(r)
  /\ bus # "ready"
  /\ Answer(r, "ok")
  /\ UNCHANGED <<bus, sent>>

SendGivesUp(r) ==
  /\ At(r, "send")
  /\ ~MayTry(r)
  /\ Answer(r, "not_sent")
  /\ UNCHANGED <<bus, sent>>

\* The agent is restarted; requests in progress are lost.
Restart ==
  /\ AgentRestarts
  /\ bus' = "none"
  /\ turn' = {}
  /\ req' = [r \in Requests |->
               IF req[r].step \in {"idle", "done"} THEN req[r]
               ELSE [req[r] EXCEPT !.step = "done", !.status = "dropped"]]
  /\ UNCHANGED sent

-----------------------------------------------------------------------------
Step(r) ==
  \/ OpenFails(r) \/ Open(r) \/ InitProducer(r) \/ InitGivesUp(r) \/ Post(r)
  \/ Send(r) \/ SendWithoutProducer(r) \/ SendGivesUp(r)

Next == (\E r \in Requests : Construct(r) \/ Step(r)) \/ Restart

Spec == Init /\ [][Next]_vars

\* A blocked loop goes on with the request that blocks it, and a body arrives
\* or its request is cancelled.
FairSpec == Spec /\ \A r \in Requests : SF_vars(Step(r))

-----------------------------------------------------------------------------
\* Whatever fails and whoever is retried, only a well-formed request of an
\* admin for the cluster makes the agent emit the signal, and no request is
\* repeated more often than RETRY>retry_count allows.
SignalsAuthorised ==
  \A r \in Requests :
    /\ sent[r] > 0 => req[r].valid /\ req[r].role = "admin" /\ req[r].resource = "cluster"
    /\ sent[r] <= MaxRetryCount

\* "Shutdown signal sent successfully.": the broker has the message.
SuccessMeansSent ==
  \A r \in Requests : req[r].status = "ok" => sent[r] > 0

\* A success that was not one is always the consequence of an earlier request
\* whose initialisation of the bus was given up: once there is a producer, and
\* across restarts, no signal is reported that was not sent.
OnlyGivingUpHidesLoss ==
  \A r \in Requests : req[r].status = "ok" /\ sent[r] = 0 =>
    \E p \in Requests : p # r /\ req[p].status = "no_bus"

\* Each request is answered: the retry loops, which hold the event loop, end.
RequestsEnd == \A r \in Requests : req[r].step \notin {"idle", "done"} ~> req[r].step = "done"
=============================================================================
