---------------------------- MODULE MCUserService ----------------------------
(***************************************************************************)
(* Instances of UserService for TLC.                                       *)
(***************************************************************************)
EXTENDS UserService, TLC

CONSTANTS u1, u2, u3, r1, r2

Users == {u1, u2, u3}
OneAdmin == (u1 :> Admin) @@ (u2 :> Absent) @@ (u3 :> Absent)
AdminAndManager == (u1 :> Admin) @@ (u2 :> "manage") @@ (u3 :> Absent)
TwoAdmins == (u1 :> Admin) @@ (u2 :> Admin) @@ (u3 :> Absent)

OneRequest == {r1}
TwoRequests == {r1, r2}
RequestSymmetry == Permutations(TwoRequests)

AdminAndMonitor == {"admin", "monitor"}
OnlyAdmin == {"admin"}
AllRoles == Roles
\* Nobody is created and no role is changed: users are only deleted.
NoRoles == {}
=============================================================================
