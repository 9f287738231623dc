-------------------------- MODULE MCSessionService --------------------------
(***************************************************************************)
(* Instances of SessionService for TLC.                                    *)
(***************************************************************************)
EXTENDS SessionService, TLC

CONSTANTS u1, u2, s1, s2, r1, r2, clear

TwoUsers == {u1, u2}
OneUser == {u1}
TwoSids == {s1, s2}
OneRequest == {r1}
TwoRequests == {r1, r2}
ClearTask == {clear}
Symmetry == Permutations(TwoRequests) \cup Permutations(TwoUsers) \cup Permutations(TwoSids)
=============================================================================
