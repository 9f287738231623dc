------------------------------ MODULE AgentLoop ------------------------------
(***************************************************************************)
(* The two retry loops of the agent that sleep in the event loop, composed *)
(* on it: the shutdown signal (ClusterShutdown) and requests to RGW        *)
(* (RgwRequest).  Whoever blocks the loop keeps all others from moving; a  *)
(* restart of the agent drops the requests of both.                        *)
(***************************************************************************)
EXTENDS ClusterShutdown, RgwRequest

\* Both loops read RETRY>retry_count.
ASSUME OneRetryCount == RgwRetryCount = MaxRetryCount

loopVars == <<vars, rgwVars>>

LoopInit == Init /\ RgwInit

ShutdownStep(r) ==
  /\ Asleep = {}
  /\ Step(r)
  /\ UNCHANGED rgwVars

RgwStep(c) ==
  /\ turn = {} /\ Asleep \subseteq {c}
  /\ CallStep(c)
  /\ UNCHANGED vars

\* A new request is taken up when the loop is free.
LoopStarts ==
  /\ Asleep = {}
  /\ \/ (\E r \in Requests : Construct(r)) /\ UNCHANGED rgwVars
     \/ turn = {} /\ (\E c \in Calls : EnterView(c)) /\ UNCHANGED vars

LoopNext ==
  \/ LoopStarts
  \/ \E r \in Requests : ShutdownStep(r)
  \/ \E c \in Calls : RgwStep(c)
  \/ Restart /\ DropCalls

LoopSpec == LoopInit /\ [][LoopNext]_loopVars

\* A blocked loop goes on with the request that blocks it, in turn with the others
\* when it is free; a body or an answer arrives or the wait is given up.
LoopFairSpec ==
  /\ LoopSpec
  /\ \A r \in Requests : SF_loopVars(ShutdownStep(r))
  /\ \A c \in Calls : SF_loopVars(RgwStep(c))
=============================================================================
