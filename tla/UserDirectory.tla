---------------------------- MODULE UserDirectory ----------------------------
(***************************************************************************)
(* What the user service promises its callers: a table of users that is    *)
(* created, changed and deleted one whole operation at a time, never holds *)
(* more users than the quota and never loses its last administrator.       *)
(***************************************************************************)
EXTENDS Integers, FiniteSets

CONSTANTS UserIds, Roles, Admin, Absent, UsersQuota, InitialUsers

VARIABLE users   \* the role of each user, Absent if there is no such user

Present == {u \in UserIds : users[u] # Absent}
Admins == {u \in UserIds : users[u] = Admin}
LastAdmin(u) == Admins = {u}

Init == users = InitialUsers

Create(u, role) ==
  /\ users[u] = Absent
  /\ UsersQuota > 0 => Cardinality(Present) < UsersQuota
  /\ users' = [users EXCEPT ![u] = role]

Delete(u) ==
  /\ users[u] # Absent
  /\ ~LastAdmin(u)
  /\ users' = [users EXCEPT ![u] = Absent]

Update(u, role) ==
  /\ users[u] # Absent
  /\ role # Admin => ~LastAdmin(u)
  /\ users' = [users EXCEPT ![u] = role]

Next == \E u \in UserIds : Delete(u) \/ \E role \in Roles : Create(u, role) \/ Update(u, role)

Spec == Init /\ [][Next]_users
=============================================================================
