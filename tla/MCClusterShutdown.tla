-------------------------- MODULE MCClusterShutdown --------------------------
(***************************************************************************)
(* Instances of ClusterShutdown for TLC.                                   *)
(***************************************************************************)
EXTENDS ClusterShutdown

CONSTANTS r1, r2

TwoRequests == {r1, r2}
=============================================================================
