------------------------------ MODULE MCRestApi ------------------------------
(***************************************************************************)
(* Instances of RestApi for TLC.                                           *)
(***************************************************************************)
EXTENDS RestApi, TLC

CONSTANTS c1, c2, int1, term1, term2

TwoConnections == {c1, c2}

ThreeSignals == {int1, term1, term2}
KindOfSignals == (int1 :> "SIGINT") @@ (term1 :> "SIGTERM") @@ (term2 :> "SIGTERM")

SomeErrors == {"CsmPermissionDenied", "TimeoutError"}
=============================================================================
