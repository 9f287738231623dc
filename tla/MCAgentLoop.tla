----------------------------- MODULE MCAgentLoop -----------------------------
(***************************************************************************)
(* An instance of AgentLoop for TLC.                                       *)
(***************************************************************************)
EXTENDS AgentLoop

CONSTANTS r1, r2, c1

TwoRequests == {r1, r2}
OneCall == {c1}
=============================================================================
