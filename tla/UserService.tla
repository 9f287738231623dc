----------------------------- MODULE UserService -----------------------------
(***************************************************************************)
(* CSM user management (csm/core/services/users.py and its controller).    *)
(*                                                                         *)
(* A request is a coroutine on the agent's event loop; it gives way to the *)
(* others at each call of the user store (Consul), so an action is the     *)
(* answer of one such call with the code that runs up to the next.  What a *)
(* request read it keeps in `req', while other requests change the store.  *)
(*                                                                         *)
(* A session keeps the permissions of the role its user had at login, so   *)
(* the permission middleware lets any operation come from a user whose     *)
(* role has changed meanwhile: requests start with any actor.              *)
(***************************************************************************)
EXTENDS Integers, FiniteSets

CONSTANTS
  UserIds,       \* user names, compared without regard to case
  Requests,      \* requests that may be in progress at the same time
  UsersQuota,    \* max_users_allowed; no limit unless positive
  InitialUsers,  \* the users when the agent starts
  NewRoles,      \* roles the requests of this instance ask for
  NoUser         \* no user name

Admin == "admin"
Roles == {"admin", "manage", "monitor"}
Absent == "absent"
NoRole == "norole"

ASSUME UserServiceAssumption ==
  /\ IsFiniteSet(UserIds)
  /\ UsersQuota \in Int
  /\ InitialUsers \in [UserIds -> Roles \cup {Absent}]
  /\ \E u \in UserIds : InitialUsers[u] = Admin
  /\ NewRoles \subseteq Roles
  /\ NoUser \notin UserIds

VARIABLES
  users,      \* the user store: the role of each user, Absent if there is none
  lock,       \* the requests that hold CsmUserService.lock: at most one
  req,        \* the requests in progress
  created,    \* history: users whose entry was stored by create_user or at the start
  wereAdmin   \* history: users that were administrators at some time

vars == <<users, lock, req, created, wereAdmin>>

Ops == {"create", "delete", "update"}
\* The store call, or the lock, a request is suspended in.
Steps == {"idle", "lock", "creator", "count", "exists", "store",
          "target", "admins", "actor", "remove", "save"}

CreateSteps == {"creator", "count", "exists", "store"}

Request(step, op, actor, target, role) ==
  [step |-> step, op |-> op, actor |-> actor, target |-> target, role |-> role, seen |-> Absent]

Idle == Request("idle", "create", NoUser, NoUser, NoRole)

RequestType ==
  [step : Steps, op : Ops, actor : UserIds \cup {NoUser}, target : UserIds \cup {NoUser},
   role : Roles \cup {NoRole}, seen : Roles \cup {Absent}]

TypeOK ==
  /\ users \in [UserIds -> Roles \cup {Absent}]
  /\ lock \in SUBSET Requests
  /\ req \in [Requests -> RequestType]
  /\ created \in SUBSET UserIds
  /\ wereAdmin \in SUBSET UserIds

Present == {u \in UserIds : users[u] # Absent}
Admins == {u \in UserIds : users[u] = Admin}

Init ==
  /\ users = InitialUsers
  /\ lock = {}
  /\ req = [r \in Requests |-> Idle]
  /\ created = Present
  /\ wereAdmin = Admins

-----------------------------------------------------------------------------
Goto(r, step) == req' = [req EXCEPT ![r].step = step]
ReadOnly == UNCHANGED <<users, created, wereAdmin>>

\* Mutant of End: an error path leaves the lock taken.
EndKeepsLock(r) ==
  /\ req' = [req EXCEPT ![r] = Idle]
  /\ lock' = lock

\* The request is answered; a create_user that got the lock releases it in its
\* finally block.
End(r) ==
  /\ req' = [req EXCEPT ![r] = Idle]
  /\ lock' = lock \ {r}

\* users[u] := role in the store; user_mgr.save and .create store the same way.
Write(u, role) ==
  /\ users' = [users EXCEPT ![u] = role]
  /\ wereAdmin' = IF role = Admin THEN wereAdmin \cup {u} ELSE wereAdmin

-----------------------------------------------------------------------------
(***************************************************************************)
(* The controllers hand the request to the service.                        *)
(***************************************************************************)
Start(r) ==
  /\ req[r].step = "idle"
  /\ \E actor \in Present, target \in UserIds :
       \/ \E role \in NewRoles :
            req' = [req EXCEPT ![r] = Request("lock", "create", actor, target, role)]
       \/ req' = [req EXCEPT ![r] = Request("target", "delete", actor, target, NoRole)]
       \/ \E role \in NewRoles \cup {NoRole} :
            req' = [req EXCEPT ![r] = Request("target", "update", actor, target, role)]
  /\ UNCHANGED lock /\ ReadOnly

-----------------------------------------------------------------------------
(***************************************************************************)
(* create_user: the whole of it runs under self.lock.                      *)
(***************************************************************************)
\* Mutant of AcquireLock: create_user runs without the lock.
EnterUnlocked(r) ==
  /\ req[r].step = "lock"
  /\ lock' = {r}
  /\ Goto(r, "creator")
  /\ ReadOnly

AcquireLock(r) ==
  /\ req[r].step = "lock"
  /\ lock = {}
  /\ lock' = {r}
  /\ Goto(r, "creator")
  /\ ReadOnly

\* The creator must exist, and be an administrator to create one.
GetCreator(r) ==
  /\ req[r].step = "creator"
  /\ LET role == users[req[r].actor] IN
     IF role # Absent /\ (req[r].role = Admin => role = Admin)
     THEN Goto(r, "count") /\ UNCHANGED lock
     ELSE End(r)
  /\ ReadOnly

\* Mutant of CountUsers: an off-by-one in the comparison with the quota.
CountUsersOffByOne(r) ==
  /\ req[r].step = "count"
  /\ IF Cardinality(Present) > UsersQuota /\ UsersQuota > 0
     THEN End(r)
     ELSE Goto(r, "exists") /\ UNCHANGED lock
  /\ ReadOnly

\* get_user_count
CountUsers(r) ==
  /\ req[r].step = "count"
  /\ IF Cardinality(Present) >= UsersQuota /\ UsersQuota > 0
     THEN End(r)
     ELSE Goto(r, "exists") /\ UNCHANGED lock
  /\ ReadOnly

\* UserManager.create looks for a user of that name first.
CheckExists(r) ==
  /\ req[r].step = "exists"
  /\ IF users[req[r].target] # Absent
     THEN End(r)
     ELSE Goto(r, "store") /\ UNCHANGED lock
  /\ ReadOnly

StoreUser(r) ==
  /\ req[r].step = "store"
  /\ Write(req[r].target, req[r].role)
  /\ created' = created \cup {req[r].target}
  /\ End(r)

-----------------------------------------------------------------------------
(***************************************************************************)
(* delete_user and update_user: no lock.                                   *)
(***************************************************************************)
\* Both read the user first; delete_user then counts the administrators if the
\* user is one.
GetTarget(r) ==
  /\ req[r].step = "target"
  /\ LET role == users[req[r].target] IN
     IF role = Absent
     THEN End(r)
     ELSE /\ req' = [req EXCEPT
               ![r].seen = role,
               ![r].step = IF req[r].op = "delete" /\ role = Admin THEN "admins" ELSE "actor"]
          /\ UNCHANGED lock
  /\ ReadOnly

\* Mutant of CountAdmins: the last administrator is not protected.
CountAdminsIgnored(r) ==
  /\ req[r].step = "admins"
  /\ Goto(r, IF req[r].op = "delete" THEN "actor" ELSE "save")
  /\ UNCHANGED lock
  /\ ReadOnly

\* count_admins: neither operation goes on against the last administrator.
CountAdmins(r) ==
  /\ req[r].step = "admins"
  /\ IF Cardinality(Admins) = 1
     THEN End(r)
     ELSE Goto(r, IF req[r].op = "delete" THEN "actor" ELSE "save") /\ UNCHANGED lock
  /\ ReadOnly

\* CSM_USER_PASSWD_UPDATE_RULES[role of the actor][role of the user], applied.
PasswordRule(actorRole, role, self) ==
  \/ actorRole = Admin
  \/ actorRole = "manage" /\ role # Admin
  \/ actorRole = "monitor" /\ role = "monitor" /\ self

\* CSM_USER_ROLE_UPDATE_RULES[role of the actor][role of the user], applied.
RoleRule(actorRole, role, self) ==
  \/ actorRole = Admin
  \/ actorRole = "manage" /\ role = "manage" /\ ~self
  \/ actorRole = "manage" /\ role = "monitor"

\* Mutant of UpdateAllowed: the rules for roles are not applied.
UpdateAllowedAnyRole(q, actorRole) == PasswordRule(actorRole, q.seen, q.actor = q.target)

\* _validate_user_update up to its count_admins.
UpdateAllowed(q, actorRole) ==
  LET self == q.actor = q.target IN
  /\ PasswordRule(actorRole, q.seen, self)
  /\ q.role # NoRole =>
       /\ RoleRule(actorRole, q.seen, self)
       /\ actorRole # Admin => q.role # Admin

DeleteAllowed(q, actorRole) == actorRole = Admin \/ q.actor = q.target

\* The logged-in user is read again.  If it is gone the access to its role
\* raises and the request ends.
GetActor(r) ==
  /\ req[r].step = "actor"
  /\ LET q == req[r]
         role == users[q.actor]
         allowed == /\ role # Absent
                    /\ IF q.op = "delete" THEN DeleteAllowed(q, role) ELSE UpdateAllowed(q, role)
         next == CASE q.op = "delete" -> "remove"
                   [] q.op = "update" /\ q.role # NoRole /\ role = Admin /\ q.actor = q.target
                        -> "admins"
                   [] OTHER -> "save"
     IN IF allowed
        THEN Goto(r, next) /\ UNCHANGED lock
        ELSE End(r)
  /\ ReadOnly

RemoveUser(r) ==
  /\ req[r].step = "remove"
  /\ users' = [users EXCEPT ![req[r].target] = Absent]
  /\ created' = created \ {req[r].target}
  /\ UNCHANGED wereAdmin
  /\ End(r)

\* Mutant of SaveUser: the role is set though the request names none.
SaveUserWithoutRole(r) ==
  /\ req[r].step = "save"
  /\ Write(req[r].target, req[r].role)
  /\ UNCHANGED created
  /\ End(r)

\* The record read in GetTarget is written back with the new values.
SaveUser(r) ==
  /\ req[r].step = "save"
  /\ Write(req[r].target, IF req[r].role = NoRole THEN req[r].seen ELSE req[r].role)
  /\ UNCHANGED created
  /\ End(r)

-----------------------------------------------------------------------------
\* The store call of a request fails for good after its retries, the current
\* password is wrong, or the client disconnects and the coroutine is cancelled.
Abort(r) ==
  /\ req[r].step # "idle"
  /\ End(r)
  /\ ReadOnly

Step(r) ==
  \/ GetCreator(r) \/ CountUsers(r) \/ CheckExists(r) \/ StoreUser(r)
  \/ GetTarget(r) \/ CountAdmins(r) \/ GetActor(r) \/ RemoveUser(r) \/ SaveUser(r)

Next == \E r \in Requests : Start(r) \/ AcquireLock(r) \/ Step(r) \/ Abort(r)

Spec == Init /\ [][Next]_vars

-----------------------------------------------------------------------------
\* The quota was not lowered below the number of users there are.
InitiallyWithinQuota ==
  UsersQuota > 0 /\ Cardinality({u \in UserIds : InitialUsers[u] # Absent}) <= UsersQuota

\* The quota check of create_user holds under concurrency: the users stored by
\* create_user never exceed the quota, because the lock keeps every other
\* create_user out between the count and the store.
CreatedWithinQuota == InitiallyWithinQuota => Cardinality(created) <= UsersQuota

\* Why: nobody uses up the room that a request found in its count and has not
\* taken yet.
RoomForCreation ==
  \A r \in Requests : req[r].step \in {"exists", "store"} /\ UsersQuota > 0 =>
    Cardinality(created) < UsersQuota

\* The lock is held by at most one request and exactly by those that are inside
\* create_user's try block: no error path and no cancellation leaves it taken.
LockProtectsCreation ==
  /\ lock = {r \in Requests : req[r].step \in CreateSteps}
  /\ \A r, p \in lock : r = p

\* No privilege escalation: a user becomes an administrator for the first time
\* only by a request of one that already was, however requests interleave.
AdminsMakeAdmins ==
  [][ \A u \in wereAdmin' \ wereAdmin :
        \E r \in Requests : /\ req[r].step \in {"store", "save"}
                            /\ req[r].target = u
                            /\ req[r].actor \in wereAdmin ]_vars

\* The system is never left without an administrator.
AtLeastOneAdmin == Admins # {}

\* UserManager.save "stores an already existing user".
SaveStoresExisting ==
  [][ \A r \in Requests : req[r].step = "save" /\ req'[r].step = "idle" /\ users' # users
        => users[req[r].target] # Absent ]_vars

-----------------------------------------------------------------------------
\* One request at a time implements the promised directory.
Directory == INSTANCE UserDirectory WITH
               UserIds <- UserIds,
               Roles <- Roles,
               Admin <- Admin,
               Absent <- Absent,
               UsersQuota <- UsersQuota,
               InitialUsers <- InitialUsers,
               users <- users
DirectorySpec == Directory!Spec
=============================================================================
