-------------------------- MODULE AgentLoopProofs ---------------------------
(***************************************************************************)
(* Proofs about AgentLoop, for any sets of requests and any retry count:   *)
(* what is proved of ClusterShutdown alone holds next to requests to RGW,  *)
(* and the responses of the latter tell the truth.                         *)
(***************************************************************************)
EXTENDS AgentLoop, TLAPS

\* Every step of the loop, by action.
LEMMA LoopCases ==
  ASSUME LoopNext
  PROVE  \/ Next /\ UNCHANGED rgwVars
         \/ \E c \in Calls : EnterView(c) /\ UNCHANGED vars
         \/ \E c \in Calls : CallStep(c) /\ UNCHANGED vars
         \/ Next /\ DropCalls
BY DEF LoopNext, LoopStarts, ShutdownStep, RgwStep, Next

\* Requests to RGW add no behaviour to the shutdown signal: every property proved of
\* ClusterShutdown holds in the composed agent.
THEOREM LoopImplementsShutdown == LoopSpec => Spec
<1>1. LoopInit => Init
  BY DEF LoopInit
<1>2. [LoopNext]_loopVars => [Next]_vars
  BY LoopCases DEF loopVars
<1> QED
  BY <1>1, <1>2, PTL DEF LoopSpec, Spec

-----------------------------------------------------------------------------
\* A request that has not been answered has not been carried out, so its next attempt
\* is the first that RGW gets; and an attempt is only made within the retry count.
Unanswered ==
  \A c \in Calls :
    /\ call[c].step # "done" => carried[c] = 0 /\ call[c].status = "none"
    /\ call[c].step \in {"idle", "body", "answer"} => call[c].tries < RgwRetryCount

RgwInv == RgwTypeOK /\ Unanswered /\ AnswerTellsOutcome

\* What a step does to the record of its request.
LEMMA GotoEffect ==
  ASSUME RgwTypeOK, NEW c \in Calls, NEW step \in CallSteps, CallGoto(c, step)
  PROVE  /\ call' \in [Calls -> CallType]
         /\ call'[c].step = step /\ call'[c].status = call[c].status
         /\ \A d \in Calls \ {c} : call'[d] = call[d]
<1>1. call[c] \in CallType
  BY DEF RgwTypeOK
<1>2. call' = [call EXCEPT ![c] = [call[c] EXCEPT !.step = step]]
  BY DEF CallGoto
<1>3. [call[c] EXCEPT !.step = step] \in CallType
  BY <1>1 DEF CallType
<1> QED
  BY <1>1, <1>2, <1>3 DEF RgwTypeOK, CallType

LEMMA RespondEffect ==
  ASSUME RgwTypeOK, NEW c \in Calls, NEW status \in CallStatuses, Respond(c, status)
  PROVE  /\ call' \in [Calls -> CallType]
         /\ call'[c].step = "done" /\ call'[c].status = status
         /\ \A d \in Calls \ {c} : call'[d] = call[d]
<1> DEFINE q == [call[c] EXCEPT !.step = "done", !.status = status]
<1>1. call[c] \in CallType
  BY DEF RgwTypeOK
<1>2. call' = [call EXCEPT ![c] = q]
  BY DEF Respond
<1>3. q \in CallType /\ q.step = "done" /\ q.status = status
  BY <1>1 DEF CallType, CallSteps
<1> HIDE DEF q
<1> QED
  BY <1>2, <1>3 DEF RgwTypeOK

LEMMA SleepEffect ==
  ASSUME RgwTypeOK, NEW c \in Calls, call[c].tries < RgwRetryCount,
         Sleep(c)
  PROVE  /\ call' \in [Calls -> CallType]
         /\ call'[c].step = "sleep" /\ call'[c].status = call[c].status
         /\ \A d \in Calls \ {c} : call'[d] = call[d]
<1> DEFINE m == call[c].tries + 1
           q == [call[c] EXCEPT !.step = "sleep", !.tries = m]
<1>1. call[c] \in CallType
  BY DEF RgwTypeOK
<1>2. call' = [call EXCEPT ![c] = q]
  BY DEF Sleep
<1>3. call[c].tries \in 0 .. RgwRetryCount
  BY <1>1 DEF CallType
<1>4. m \in 0 .. RgwRetryCount
  BY <1>3, RgwAssumption
<1>5. q \in CallType /\ q.step = "sleep" /\ q.status = call[c].status
  <2> HIDE DEF m
  <2> QED
    BY <1>1, <1>4 DEF CallType, CallSteps
<1> HIDE DEF q
<1> QED
  BY <1>2, <1>5 DEF RgwTypeOK

\* A request moves on without an answer.
LEMMA OpenKept ==
  ASSUME RgwInv, NEW c \in Calls, call[c].step # "done", UNCHANGED carried,
         call' \in [Calls -> CallType], call'[c].step # "done", call'[c].status = call[c].status,
         call'[c].step \in {"idle", "body", "answer"} => call'[c].tries < RgwRetryCount,
         \A d \in Calls \ {c} : call'[d] = call[d]
  PROVE  RgwInv'
BY DEF RgwInv, RgwTypeOK, Unanswered, AnswerTellsOutcome

\* A request is answered.
LEMMA ResponseKept ==
  ASSUME RgwInv, NEW c \in Calls, call[c].step # "done", NEW status \in CallStatuses,
         Respond(c, status), MayCarryOut(c),
         status = "ok" => CarryOut(c),
         status \in {"invalid", "refused", "unavailable"} => UNCHANGED carried
  PROVE  RgwInv'
<1>1. /\ call' \in [Calls -> CallType] /\ call'[c].step = "done" /\ call'[c].status = status
      /\ \A d \in Calls \ {c} : call'[d] = call[d]
  BY RespondEffect DEF RgwInv
<1>2. carried[c] = 0 /\ carried \in [Calls -> Nat]
  BY DEF RgwInv, RgwTypeOK, Unanswered
<1>3. carried' \in [Calls -> Nat] /\ carried'[c] \in {0, 1} /\ \A d \in Calls \ {c} : carried'[d] = carried[d]
  BY <1>2 DEF MayCarryOut, CarryOut
<1>4. status = "ok" => carried'[c] = 1
  BY <1>2 DEF CarryOut
<1>5. status \in {"invalid", "refused", "unavailable"} => carried'[c] = 0
  BY <1>2
<1> QED
  BY <1>1, <1>3, <1>4, <1>5 DEF RgwInv, RgwTypeOK, Unanswered, AnswerTellsOutcome

LEMMA RgwStepKeeps ==
  ASSUME RgwInv, NEW c \in Calls, EnterView(c) \/ CallStep(c)
  PROVE  RgwInv'
<1>0. /\ RgwTypeOK /\ call[c] \in CallType
      /\ {"ok", "invalid", "refused", "unavailable", "timeout", "internal"} \subseteq CallStatuses
      /\ {"body", "answer", "sleep", "done"} \subseteq CallSteps
  BY DEF RgwInv, RgwTypeOK, CallStatuses, CallSteps
<1>1. CASE EnterView(c) \/ Execute(c)
  <2>1. PICK step \in {"body", "answer"} : CallGoto(c, step)
    BY <1>1 DEF EnterView, Execute
  <2>2. call[c].step \in {"idle", "body"} /\ UNCHANGED carried
    BY <1>1 DEF EnterView, Execute, CallAt
  <2>3. call'[c].tries = call[c].tries
    BY <1>0, <2>1 DEF CallGoto, RgwTypeOK, CallType
  <2>4. call[c].tries < RgwRetryCount
    BY <2>2 DEF RgwInv, Unanswered
  <2> QED
    BY <1>0, <2>1, <2>2, <2>3, <2>4, GotoEffect, OpenKept
<1>2. CASE Reject(c)
  BY <1>0, <1>2, ResponseKept DEF Reject, CallAt, MayCarryOut
<1>3. CASE Success(c)
  BY <1>0, <1>3, ResponseKept DEF Success, CallAt, MayCarryOut
<1>4. CASE Refused(c)
  BY <1>0, <1>4, ResponseKept DEF Refused, CallAt, MayCarryOut
<1>5. CASE Timeout(c) \/ Fails(c)
  BY <1>0, <1>5, ResponseKept DEF Timeout, Fails, CallAt
<1>6. CASE Unreachable(c)
  <2>1. call[c].step = "answer" /\ Sleep(c) /\ UNCHANGED carried
    BY <1>6 DEF Unreachable, CallAt
  <2>2. call[c].tries < RgwRetryCount
    BY <2>1 DEF RgwInv, Unanswered
  <2> QED
    BY <1>0, <2>1, <2>2, SleepEffect, OpenKept
<1>7. CASE Wake(c)
  <2>1. call[c].step = "sleep" /\ UNCHANGED carried
    BY <1>7 DEF Wake, CallAt
  <2>2. CASE call[c].tries < RgwRetryCount
    <3>1. CallGoto(c, "answer")
      BY <1>7, <2>2 DEF Wake
    <3>2. call'[c].tries = call[c].tries
      BY <1>0, <3>1 DEF CallGoto, RgwTypeOK, CallType
    <3> QED
      BY <1>0, <2>1, <2>2, <3>1, <3>2, GotoEffect, OpenKept
  <2>3. CASE ~(call[c].tries < RgwRetryCount)
    BY <1>0, <1>7, <2>1, <2>3, ResponseKept DEF Wake, MayCarryOut
  <2> QED
    BY <2>2, <2>3
<1> QED
  BY <1>1, <1>2, <1>3, <1>4, <1>5, <1>6, <1>7 DEF CallStep

LEMMA DropKeeps ==
  ASSUME RgwInv, DropCalls
  PROVE  RgwInv'
<1>1. ASSUME NEW c \in Calls
      PROVE  /\ call'[c] \in CallType
             /\ call'[c] = call[c] \/ (call'[c].step = "done" /\ call'[c].status = "dropped")
  <2>1. call[c] \in CallType
    BY DEF RgwInv, RgwTypeOK
  <2>2. [call[c] EXCEPT !.step = "done", !.status = "dropped"] \in CallType
    BY <2>1 DEF CallType, CallSteps, CallStatuses
  <2> QED
    BY <2>1, <2>2 DEF DropCalls, CallType
<1>2. call' \in [Calls -> CallType]
  BY <1>1 DEF DropCalls
<1>3. carried' = carried
  BY DEF DropCalls
<1> QED
  BY <1>1, <1>2, <1>3 DEF RgwInv, RgwTypeOK, Unanswered, AnswerTellsOutcome

\* The inductive invariant of the requests to RGW.
THEOREM RgwInvariant == LoopSpec => []RgwInv
<1>1. LoopInit => RgwInv
  <2> SUFFICES ASSUME RgwInit
               PROVE  RgwInv
    BY DEF LoopInit
  <2>1. [step |-> "idle", tries |-> 0, status |-> "none"] \in CallType
    BY RgwAssumption DEF CallType, CallSteps, CallStatuses
  <2> QED
    BY <2>1, RgwAssumption DEF RgwInit, RgwInv, RgwTypeOK, Unanswered, AnswerTellsOutcome
<1>2. RgwInv /\ [LoopNext]_loopVars => RgwInv'
  <2> SUFFICES ASSUME RgwInv, [LoopNext]_loopVars
               PROVE  RgwInv'
    OBVIOUS
  <2>1. CASE UNCHANGED rgwVars
    BY <2>1 DEF rgwVars, RgwInv, RgwTypeOK, Unanswered, AnswerTellsOutcome
  <2> QED
    BY <2>1, LoopCases, RgwStepKeeps, DropKeeps DEF loopVars
<1> QED
  BY <1>1, <1>2, PTL DEF LoopSpec

\* The type invariant of the requests to RGW, the bound of the retry loop included.
THEOREM RgwTypes == LoopSpec => []RgwTypeOK
<1>1. RgwInv => RgwTypeOK
  BY DEF RgwInv
<1> QED
  BY <1>1, RgwInvariant, PTL

\* The response to a request tells whether RGW carried it out, and RGW never does so
\* twice: RGWPlugin.execute repeats only what did not reach RGW.
THEOREM OutcomeTold == LoopSpec => []AnswerTellsOutcome
<1>1. RgwInv => AnswerTellsOutcome
  BY DEF RgwInv
<1> QED
  BY <1>1, RgwInvariant, PTL
=============================================================================
