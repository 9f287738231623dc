----------------------------- MODULE RgwRequest ------------------------------
(***************************************************************************)
(* REST requests for S3 users, keys, capabilities, quotas and buckets: the *)
(* views of csm/core/controllers/rgw/s3, the services of                   *)
(* csm/core/services/rgw/s3 and RGWPlugin (csm/plugins/cortx/rgw.py).      *)
(*                                                                         *)
(* A request is one operation of RGW (external), sent up to RETRY>         *)
(* retry_count times.  RGW carries out an attempt or refuses it; an answer *)
(* may be lost after either.  The plugin waits for an answer in an await   *)
(* and sleeps between attempts in time.sleep, which blocks the event loop. *)
(***************************************************************************)
EXTENDS Naturals

CONSTANTS
  Calls,        \* the requests of one run of the model
  RgwRetryCount \* RETRY>retry_count, as RGWPlugin.execute reads it

ASSUME RgwAssumption == RgwRetryCount \in Nat \ {0}

VARIABLES
  call,      \* the requests: [step, tries, status]
  carried    \* external: how often RGW has carried out the operation of a request

rgwVars == <<call, carried>>

CallSteps == {"idle", "body", "answer", "sleep", "done"}
CallStatuses == {"none", "ok", "invalid", "refused", "unavailable", "timeout", "internal", "dropped"}
CallType == [step : CallSteps, tries : 0 .. RgwRetryCount, status : CallStatuses]

RgwTypeOK ==
  /\ call \in [Calls -> CallType]
  /\ carried \in [Calls -> Nat]

RgwInit ==
  /\ call = [c \in Calls |-> [step |-> "idle", tries |-> 0, status |-> "none"]]
  /\ carried = [c \in Calls |-> 0]

-----------------------------------------------------------------------------
CallAt(c, step) == call[c].step = step
CallGoto(c, step) == call' = [call EXCEPT ![c].step = step]
Respond(c, status) == call' = [call EXCEPT ![c] = [@ EXCEPT !.step = "done", !.status = status]]
\* time.sleep between two attempts
Sleep(c) == call' = [call EXCEPT ![c] = [@ EXCEPT !.step = "sleep", !.tries = call[c].tries + 1]]

CarryOut(c) == carried' = [carried EXCEPT ![c] = @ + 1]
\* Nobody knows whether RGW got the attempt.
MayCarryOut(c) == CarryOut(c) \/ UNCHANGED carried

\* A view is entered and waits for the body.
EnterView(c) ==
  /\ CallAt(c, "idle")
  /\ CallGoto(c, "body")
  /\ UNCHANGED carried

\* The body does not match the schema, or the user is the one RGW gave the agent.
Reject(c) ==
  /\ CallAt(c, "body")
  /\ Respond(c, "invalid")
  /\ UNCHANGED carried

\* execute: the first attempt is sent.
Execute(c) ==
  /\ CallAt(c, "body")
  /\ CallGoto(c, "answer")
  /\ UNCHANGED carried

\* _process: RGW has carried out the operation.  The answer becomes the response,
\* unless its mapping raises.
Success(c) ==
  /\ CallAt(c, "answer")
  /\ CarryOut(c)
  /\ Respond(c, "ok") \/ Respond(c, "internal")

\* RGW refuses the operation.  _create_error keeps the status of an answer whose code
\* it knows and reports any other, a 503 of RGW's own included, as 500.
Refused(c) ==
  /\ CallAt(c, "answer")
  /\ Respond(c, "refused") \/ Respond(c, "internal")
  /\ UNCHANGED carried

\* Mutant of Timeout: a request that timed out is repeated like one that did not
\* reach RGW.
TimeoutRepeated(c) ==
  /\ CallAt(c, "answer")
  /\ MayCarryOut(c)
  /\ Sleep(c)

\* No answer in time: 408, which ends the loop.
Timeout(c) ==
  /\ CallAt(c, "answer")
  /\ MayCarryOut(c)
  /\ Respond(c, "timeout")

\* Any other exception of the client, a cancellation included.
Fails(c) ==
  /\ CallAt(c, "answer")
  /\ MayCarryOut(c)
  /\ Respond(c, "internal")

\* "Cannot connect to": the attempt did not reach RGW.  This 503 is repeated.
Unreachable(c) ==
  /\ CallAt(c, "answer")
  /\ Sleep(c)
  /\ UNCHANGED carried

\* Mutants of Wake: the counter is reset; one attempt too many.
WakeForgets(c) ==
  /\ CallAt(c, "sleep")
  /\ call' = [call EXCEPT ![c] = [@ EXCEPT !.step = "answer", !.tries = 0]]
  /\ UNCHANGED carried
WakeOnceMore(c) ==
  /\ CallAt(c, "sleep")
  /\ IF call[c].tries <= RgwRetryCount THEN CallGoto(c, "answer") ELSE Respond(c, "unavailable")
  /\ UNCHANGED carried

\* The sleep after an attempt is over: the next attempt, or the last answer.
Wake(c) ==
  /\ CallAt(c, "sleep")
  /\ IF call[c].tries < RgwRetryCount THEN CallGoto(c, "answer") ELSE Respond(c, "unavailable")
  /\ UNCHANGED carried

\* The agent is restarted: requests in progress are lost.
DropCalls ==
  /\ call' = [c \in Calls |->
                IF call[c].step \in {"idle", "done"} THEN call[c]
                ELSE [call[c] EXCEPT !.step = "done", !.status = "dropped"]]
  /\ UNCHANGED carried

Asleep == {c \in Calls : CallAt(c, "sleep")}

\* The steps of the event loop on behalf of a request.
CallStep(c) ==
  \/ Reject(c) \/ Execute(c) \/ Success(c) \/ Refused(c) \/ Timeout(c) \/ Fails(c)
  \/ Unreachable(c) \/ Wake(c)

-----------------------------------------------------------------------------
\* The response tells what has become of the operation: a success was carried out
\* once, an error of RGW or of the agent's own not at all, although requests are
\* repeated; only after a timeout or an internal error nobody knows, and even then
\* the operation was not carried out twice.
AnswerTellsOutcome ==
  \A c \in Calls :
    /\ carried[c] <= 1
    /\ call[c].status = "ok" => carried[c] = 1
    /\ call[c].status \in {"invalid", "refused", "unavailable"} => carried[c] = 0

\* Every request is answered, though the requests that sleep hold the event loop.
CallsEnd == \A c \in Calls : call[c].step \notin {"idle", "done"} ~> call[c].step = "done"
=============================================================================
