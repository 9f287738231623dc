-------------------------- MODULE UserServiceProofs --------------------------
(***************************************************************************)
(* Proofs about UserService, for any set of users, any quota and any       *)
(* number of requests that overlap: types, the lock, the quota and who     *)
(* makes administrators; and, for one request at a time, that an           *)
(* administrator remains and that the directory is implemented.            *)
(***************************************************************************)
EXTENDS UserService, FiniteSetTheorems, TLAPS

\* What a request knows at each step, beyond its type: the users it is about,
\* a role if it creates one and none if it deletes one, and the role of the
\* user it has read.
ReadSteps == {"admins", "actor", "remove", "save"}

Shape ==
  \A r \in Requests :
    /\ req[r].step # "idle" => req[r].actor \in UserIds /\ req[r].target \in UserIds
    /\ req[r].step \in CreateSteps \cup {"lock"} => req[r].role \in Roles
    /\ req[r].step \in ReadSteps => req[r].seen \in Roles
    /\ req[r].op = "delete" => req[r].role = NoRole

\* The part of the store that create_user filled is part of the store.
CreatedPresent == created \subseteq Present

\* A request that will make somebody an administrator passed a check against
\* the actor's role; what a request has seen of its user is history.
Granted ==
  /\ Admins \subseteq wereAdmin
  /\ \A r \in Requests :
       /\ req[r].seen = Admin => req[r].target \in wereAdmin
       /\ req[r].role = Admin /\ req[r].step \in {"count", "exists", "store", "admins", "save"} =>
            req[r].actor \in wereAdmin

Typed == TypeOK /\ Shape
Quota == CreatedPresent /\ RoomForCreation /\ CreatedWithinQuota

-----------------------------------------------------------------------------
\* All requests but r keep their state, and r ends or moves to a step.
LEMMA EndTyped ==
  ASSUME Typed, NEW r \in Requests, End(r)
  PROVE  req' \in [Requests -> RequestType] /\ lock' \in SUBSET Requests /\ Shape'
BY UserServiceAssumption
   DEF Typed, TypeOK, Shape, End, Idle, Request, RequestType, Steps, Ops, CreateSteps, ReadSteps

LEMMA GotoTyped ==
  ASSUME Typed, NEW r \in Requests, NEW step \in Steps, Goto(r, step), req[r].step # "idle",
         step \in CreateSteps \cup {"lock"} => req[r].step \in CreateSteps \cup {"lock"},
         step \in ReadSteps => req[r].step \in ReadSteps
  PROVE  req' \in [Requests -> RequestType] /\ Shape'
BY DEF Typed, TypeOK, Shape, Goto, RequestType

\* The store keeps its type when a user is stored or removed.
LEMMA WriteTyped ==
  ASSUME TypeOK, NEW u \in UserIds, NEW role \in Roles \cup {Absent}, Write(u, role)
  PROVE  users' \in [UserIds -> Roles \cup {Absent}] /\ wereAdmin' \in SUBSET UserIds
BY DEF TypeOK, Write

LEMMA InitTyped == Init => Typed
BY UserServiceAssumption
   DEF Init, Typed, TypeOK, Shape, Present, Admins, Idle, Request, RequestType, Steps, Ops, CreateSteps, ReadSteps,
       Roles, NoRole, Absent, Admin

LEMMA NextTyped == Typed /\ [Next]_vars => Typed'
<1> SUFFICES ASSUME Typed, [Next]_vars PROVE Typed'
  OBVIOUS
<1>1. CASE UNCHANGED vars
  BY <1>1 DEF vars, Typed, TypeOK, Shape
<1>2. ASSUME NEW r \in Requests, Start(r) PROVE Typed'
  <2>1. PICK actor \in UserIds, target \in UserIds, role \in Roles \cup {NoRole},
             op \in Ops, step \in {"lock", "target"} :
          /\ step = "lock" => role \in Roles
          /\ op = "delete" => role = NoRole
          /\ req' = [req EXCEPT ![r] = Request(step, op, actor, target, role)]
    BY <1>2, UserServiceAssumption DEF Start, Present, Ops
  <2>2. req' \in [Requests -> RequestType] /\ Shape'
    BY <2>1 DEF Typed, TypeOK, Shape, Request, RequestType, Steps, CreateSteps, ReadSteps
  <2> QED
    BY <1>2, <2>2 DEF Start, ReadOnly, Typed, TypeOK
<1>3. ASSUME NEW r \in Requests, AcquireLock(r) PROVE Typed'
  BY <1>3, GotoTyped DEF AcquireLock, ReadOnly, Typed, TypeOK, Steps, CreateSteps, ReadSteps
<1>4. ASSUME NEW r \in Requests, GetCreator(r) PROVE Typed'
  BY <1>4, GotoTyped, EndTyped DEF GetCreator, ReadOnly, Typed, TypeOK, Steps, CreateSteps, ReadSteps
<1>5. ASSUME NEW r \in Requests, CountUsers(r) PROVE Typed'
  BY <1>5, GotoTyped, EndTyped DEF CountUsers, ReadOnly, Typed, TypeOK, Steps, CreateSteps, ReadSteps
<1>6. ASSUME NEW r \in Requests, CheckExists(r) PROVE Typed'
  BY <1>6, GotoTyped, EndTyped DEF CheckExists, ReadOnly, Typed, TypeOK, Steps, CreateSteps, ReadSteps
<1>7. ASSUME NEW r \in Requests, StoreUser(r) PROVE Typed'
  <2>1. req[r].target \in UserIds /\ req[r].role \in Roles
    BY <1>7 DEF StoreUser, Typed, Shape, CreateSteps, ReadSteps
  <2>2. req' \in [Requests -> RequestType] /\ lock' \in SUBSET Requests /\ Shape'
    BY <1>7, EndTyped DEF StoreUser
  <2>3. users' \in [UserIds -> Roles \cup {Absent}] /\ wereAdmin' \in SUBSET UserIds
    BY <1>7, <2>1, WriteTyped DEF StoreUser, Typed
  <2> QED
    BY <1>7, <2>1, <2>2, <2>3 DEF StoreUser, Typed, TypeOK
<1>8. ASSUME NEW r \in Requests, GetTarget(r) PROVE Typed'
  <2>1. CASE users[req[r].target] = Absent
    BY <1>8, <2>1, EndTyped DEF GetTarget, ReadOnly, Typed, TypeOK
  <2>2. CASE users[req[r].target] # Absent
    <3>1. PICK step \in {"admins", "actor"} :
            req' = [req EXCEPT ![r].seen = users[req[r].target], ![r].step = step]
      BY <1>8, <2>2 DEF GetTarget
    <3>2. users[req[r].target] \in Roles
      BY <1>8, <2>2 DEF GetTarget, Typed, TypeOK, Shape
    <3>3. req' \in [Requests -> RequestType] /\ Shape'
      BY <1>8, <3>1, <3>2 DEF GetTarget, Typed, TypeOK, Shape, RequestType, Steps, CreateSteps, ReadSteps
    <3> QED
      BY <1>8, <2>2, <3>3 DEF GetTarget, ReadOnly, Typed, TypeOK
  <2> QED
    BY <2>1, <2>2
<1>9. ASSUME NEW r \in Requests, CountAdmins(r) PROVE Typed'
  BY <1>9, GotoTyped, EndTyped DEF CountAdmins, ReadOnly, Typed, TypeOK, Steps, CreateSteps, ReadSteps
<1>10. ASSUME NEW r \in Requests, GetActor(r) PROVE Typed'
  <2>1. End(r) \/ (\E step \in {"remove", "admins", "save"} : Goto(r, step) /\ UNCHANGED lock)
    BY <1>10 DEF GetActor
  <2> QED
    BY <1>10, <2>1, GotoTyped, EndTyped DEF GetActor, ReadOnly, Typed, TypeOK, Steps, CreateSteps, ReadSteps
<1>11. ASSUME NEW r \in Requests, RemoveUser(r) PROVE Typed'
  BY <1>11, EndTyped DEF RemoveUser, Typed, TypeOK
<1>12. ASSUME NEW r \in Requests, SaveUser(r) PROVE Typed'
  <2> DEFINE role == IF req[r].role = NoRole THEN req[r].seen ELSE req[r].role
  <2>1. req[r].target \in UserIds
    BY <1>12 DEF SaveUser, Typed, Shape
  <2>2. role \in Roles \cup {Absent}
    BY DEF Typed, TypeOK, RequestType
  <2>3. users' \in [UserIds -> Roles \cup {Absent}] /\ wereAdmin' \in SUBSET UserIds
    BY <1>12, <2>1, <2>2, WriteTyped DEF SaveUser, Typed
  <2> QED
    BY <1>12, <2>3, EndTyped DEF SaveUser, Typed, TypeOK
<1>13. ASSUME NEW r \in Requests, Abort(r) PROVE Typed'
  BY <1>13, EndTyped DEF Abort, ReadOnly, Typed, TypeOK
<1> QED
  BY <1>1, <1>2, <1>3, <1>4, <1>5, <1>6, <1>7, <1>8, <1>9, <1>10, <1>11, <1>12, <1>13
     DEF Next, Step

\* The user service keeps its types however requests overlap.
THEOREM TypeCorrect == Spec => []TypeOK
<1>1. Spec => []Typed
  BY InitTyped, NextTyped, PTL DEF Spec
<1> QED
  BY <1>1, PTL DEF Typed

-----------------------------------------------------------------------------
\* A request that ends leaves the lock, if it has it; one that stays inside or
\* outside create_user's try block leaves the lock alone.
LEMMA EndLock ==
  ASSUME Typed, LockProtectsCreation, NEW r \in Requests, End(r)
  PROVE  LockProtectsCreation'
BY DEF Typed, TypeOK, LockProtectsCreation, End, Idle, Request, CreateSteps

LEMMA GotoLock ==
  ASSUME Typed, LockProtectsCreation, NEW r \in Requests, NEW step \in Steps, Goto(r, step),
         UNCHANGED lock, step \in CreateSteps <=> req[r].step \in CreateSteps
  PROVE  LockProtectsCreation'
BY DEF Typed, TypeOK, RequestType, LockProtectsCreation, Goto

LEMMA NextLock == Typed /\ LockProtectsCreation /\ [Next]_vars => LockProtectsCreation'
<1> SUFFICES ASSUME Typed, LockProtectsCreation, [Next]_vars PROVE LockProtectsCreation'
  OBVIOUS
<1>1. CASE UNCHANGED vars
  BY <1>1 DEF vars, LockProtectsCreation
<1>2. ASSUME NEW r \in Requests, Start(r) PROVE LockProtectsCreation'
  <2>1. PICK q : /\ req' = [req EXCEPT ![r] = q]
                 /\ q.step \notin CreateSteps
    BY <1>2 DEF Start, Request, CreateSteps
  <2> QED
    BY <1>2, <2>1 DEF Start, Typed, TypeOK, LockProtectsCreation, CreateSteps
<1>3. ASSUME NEW r \in Requests, AcquireLock(r) PROVE LockProtectsCreation'
  BY <1>3 DEF AcquireLock, Goto, Typed, TypeOK, RequestType, LockProtectsCreation, CreateSteps
<1>4. ASSUME NEW r \in Requests, GetCreator(r) \/ CountUsers(r) \/ CheckExists(r)
      PROVE LockProtectsCreation'
  BY <1>4, EndLock, GotoLock DEF GetCreator, CountUsers, CheckExists, Steps, CreateSteps
<1>5. ASSUME NEW r \in Requests, StoreUser(r) \/ RemoveUser(r) \/ SaveUser(r) \/ Abort(r)
      PROVE LockProtectsCreation'
  BY <1>5, EndLock DEF StoreUser, RemoveUser, SaveUser, Abort
<1>6. ASSUME NEW r \in Requests, GetTarget(r) PROVE LockProtectsCreation'
  <2>1. CASE End(r)
    BY <2>1, EndLock
  <2>2. CASE ~End(r)
    <3>1. PICK step \in {"admins", "actor"} :
            req' = [req EXCEPT ![r].seen = users[req[r].target], ![r].step = step]
      BY <1>6, <2>2 DEF GetTarget
    <3> QED
      BY <1>6, <2>2, <3>1
         DEF GetTarget, Typed, TypeOK, RequestType, LockProtectsCreation, CreateSteps
  <2> QED
    BY <2>1, <2>2
<1>7. ASSUME NEW r \in Requests, CountAdmins(r) PROVE LockProtectsCreation'
  BY <1>7, EndLock, GotoLock DEF CountAdmins, Steps, CreateSteps
<1>8. ASSUME NEW r \in Requests, GetActor(r) PROVE LockProtectsCreation'
  <2>1. End(r) \/ (\E step \in {"remove", "admins", "save"} : Goto(r, step) /\ UNCHANGED lock)
    BY <1>8 DEF GetActor
  <2> QED
    BY <1>8, <2>1, EndLock, GotoLock DEF GetActor, Steps, CreateSteps
<1> QED
  BY <1>1, <1>2, <1>3, <1>4, <1>5, <1>6, <1>7, <1>8 DEF Next, Step

\* At most one request is inside create_user, and it holds the lock.
THEOREM LockCorrect == Spec => []LockProtectsCreation
<1>1. Init => LockProtectsCreation
  BY DEF Init, LockProtectsCreation, Idle, Request, CreateSteps
<1>2. Spec => []Typed
  BY InitTyped, NextTyped, PTL DEF Spec
<1> QED
  BY <1>1, <1>2, NextLock, PTL DEF Spec

-----------------------------------------------------------------------------
\* The users are finitely many: counting a part of them is meaningful.
LEMMA CountFacts ==
  ASSUME NEW S, NEW T, T \subseteq UserIds, S \subseteq T
  PROVE  /\ IsFiniteSet(S)
         /\ Cardinality(S) \in Nat /\ Cardinality(T) \in Nat
         /\ Cardinality(S) <= Cardinality(T)
         /\ \A u \in UserIds : Cardinality(S \cup {u}) <= Cardinality(S) + 1
<1>1. IsFiniteSet(T)
  BY UserServiceAssumption, FS_Subset
<1>2. IsFiniteSet(S) /\ Cardinality(S) <= Cardinality(T)
  BY <1>1, FS_Subset
<1>3. Cardinality(S) \in Nat /\ Cardinality(T) \in Nat
  BY <1>1, <1>2, FS_CardinalityType
<1>4. \A u \in UserIds : Cardinality(S \cup {u}) <= Cardinality(S) + 1
  <2> TAKE u \in UserIds
  <2>1. Cardinality(S \cup {u}) = IF u \in S THEN Cardinality(S) ELSE Cardinality(S) + 1
    BY <1>2, FS_AddElement
  <2> QED
    BY <1>3, <2>1
<1> QED
  BY <1>2, <1>3, <1>4

\* A step that leaves the store alone and finds no new room.
LEMMA QuotaFrame ==
  ASSUME Typed, Quota, NEW r \in Requests, ReadOnly,
         \A p \in Requests \ {r} : req'[p] = req[p],
         req'[r].step \in {"exists", "store"} => req[r].step \in {"exists", "store"}
  PROVE  Quota'
BY DEF Quota, CreatedPresent, RoomForCreation, CreatedWithinQuota, InitiallyWithinQuota, ReadOnly,
       Present

\* The effect of End and Goto on the requests.
LEMMA EndEffect ==
  ASSUME Typed, NEW r \in Requests, End(r)
  PROVE  req'[r] = Idle /\ \A p \in Requests \ {r} : req'[p] = req[p]
BY DEF Typed, TypeOK, End

LEMMA GotoEffect ==
  ASSUME Typed, NEW r \in Requests, NEW step, Goto(r, step)
  PROVE  /\ req'[r].step = step
         /\ req'[r].op = req[r].op /\ req'[r].actor = req[r].actor
         /\ req'[r].target = req[r].target /\ req'[r].role = req[r].role
         /\ req'[r].seen = req[r].seen
         /\ \A p \in Requests \ {r} : req'[p] = req[p]
BY DEF Typed, TypeOK, RequestType, Goto

LEMMA NextQuota == Typed /\ LockProtectsCreation /\ Quota /\ [Next]_vars => Quota'
<1> SUFFICES ASSUME Typed, LockProtectsCreation, Quota, [Next]_vars PROVE Quota'
  OBVIOUS
<1>1. CASE UNCHANGED vars
  BY <1>1 DEF vars, Quota, CreatedPresent, RoomForCreation, CreatedWithinQuota,
              InitiallyWithinQuota, Present
<1>2. ASSUME NEW r \in Requests, Start(r) PROVE Quota'
  <2>1. PICK q : req' = [req EXCEPT ![r] = q] /\ q.step \notin {"exists", "store"}
    BY <1>2 DEF Start, Request
  <2> QED
    BY <1>2, <2>1, QuotaFrame DEF Start, Typed, TypeOK
<1>3. ASSUME NEW r \in Requests, AcquireLock(r) \/ GetCreator(r) \/ CheckExists(r) \/ CountAdmins(r)
      PROVE Quota'
  BY <1>3, EndEffect, GotoEffect, QuotaFrame
     DEF AcquireLock, GetCreator, CheckExists, CountAdmins, Idle, Request
<1>4. ASSUME NEW r \in Requests, CountUsers(r) PROVE Quota'
  <2>1. CASE End(r)
    BY <1>4, <2>1, EndEffect, QuotaFrame DEF CountUsers, Idle, Request
  <2>2. CASE ~End(r)
    <3>1. /\ Goto(r, "exists") /\ ReadOnly
          /\ ~(Cardinality(Present) >= UsersQuota /\ UsersQuota > 0)
      BY <1>4, <2>2 DEF CountUsers
    <3>2. /\ Cardinality(created) \in Nat /\ Cardinality(Present) \in Nat
          /\ Cardinality(created) <= Cardinality(Present)
      BY CountFacts DEF Quota, CreatedPresent, Present
    <3>3. UsersQuota > 0 => Cardinality(created) < UsersQuota
      BY <3>1, <3>2, UserServiceAssumption
    <3> QED
      BY <3>1, <3>3, GotoEffect
         DEF Quota, CreatedPresent, RoomForCreation, CreatedWithinQuota, InitiallyWithinQuota,
             ReadOnly, Present
  <2> QED
    BY <2>1, <2>2
<1>5. ASSUME NEW r \in Requests, StoreUser(r) PROVE Quota'
  <2>1. req[r].target \in UserIds /\ req[r].role \in Roles
    BY <1>5 DEF StoreUser, Typed, Shape, CreateSteps
  <2>2. CreatedPresent'
    BY <1>5, <2>1 DEF StoreUser, Write, Quota, CreatedPresent, Present, Typed, TypeOK, Roles, Absent
  <2>3. \A p \in Requests : req'[p].step \notin {"exists", "store"}
    BY <1>5, EndEffect
       DEF StoreUser, LockProtectsCreation, CreateSteps, Idle, Request
  <2>4. /\ Cardinality(created) \in Nat
        /\ Cardinality(created \cup {req[r].target}) <= Cardinality(created) + 1
    BY <2>1, CountFacts DEF Typed, TypeOK
  <2>5. Cardinality(created') \in Nat
    BY CountFacts, <2>2 DEF CreatedPresent, Present
  <2>6. UsersQuota > 0 => Cardinality(created) < UsersQuota
    BY <1>5 DEF StoreUser, Quota, RoomForCreation
  <2>7. UsersQuota > 0 => Cardinality(created') <= UsersQuota
    BY <1>5, <2>4, <2>5, <2>6, UserServiceAssumption DEF StoreUser
  <2> QED
    BY <2>2, <2>3, <2>7 DEF Quota, RoomForCreation, CreatedWithinQuota, InitiallyWithinQuota
<1>6. ASSUME NEW r \in Requests, GetTarget(r) PROVE Quota'
  <2>1. CASE End(r)
    BY <1>6, <2>1, EndEffect, QuotaFrame DEF GetTarget, Idle, Request
  <2>2. CASE ~End(r)
    <3>1. PICK step \in {"admins", "actor"} :
            req' = [req EXCEPT ![r].seen = users[req[r].target], ![r].step = step]
      BY <1>6, <2>2 DEF GetTarget
    <3>2. req'[r].step = step /\ \A p \in Requests \ {r} : req'[p] = req[p]
      BY <3>1 DEF Typed, TypeOK, RequestType
    <3> QED
      BY <1>6, <3>2, QuotaFrame DEF GetTarget
  <2> QED
    BY <2>1, <2>2
<1>7. ASSUME NEW r \in Requests, GetActor(r) PROVE Quota'
  <2>1. End(r) \/ (\E step \in {"remove", "admins", "save"} : Goto(r, step))
    BY <1>7 DEF GetActor
  <2> QED
    BY <1>7, <2>1, EndEffect, GotoEffect, QuotaFrame DEF GetActor, Idle, Request
<1>8. ASSUME NEW r \in Requests, RemoveUser(r) PROVE Quota'
  <2>1. CreatedPresent'
    BY <1>8 DEF RemoveUser, Quota, CreatedPresent, Present, Typed, TypeOK
  <2>2. /\ Cardinality(created) \in Nat /\ Cardinality(created') \in Nat
        /\ Cardinality(created') <= Cardinality(created)
    BY <1>8, CountFacts DEF RemoveUser, Typed, TypeOK
  <2>3. CreatedWithinQuota'
    BY <2>2, UserServiceAssumption DEF Quota, CreatedWithinQuota, InitiallyWithinQuota
  <2>4. \A p \in Requests : req'[p].step \in {"exists", "store"} => req[p].step \in {"exists", "store"}
    BY <1>8, EndEffect DEF RemoveUser, Idle, Request
  <2>5. RoomForCreation'
    BY <2>2, <2>4, UserServiceAssumption DEF Quota, RoomForCreation
  <2> QED
    BY <2>1, <2>3, <2>5 DEF Quota
<1>9. ASSUME NEW r \in Requests, SaveUser(r) PROVE Quota'
  <2>1. CreatedPresent'
    <3>1. users' = [users EXCEPT ![req[r].target] =
                      IF req[r].role = NoRole THEN req[r].seen ELSE req[r].role]
      BY <1>9 DEF SaveUser, Write
    <3>2. (IF req[r].role = NoRole THEN req[r].seen ELSE req[r].role) \in Roles
      BY <1>9 DEF SaveUser, Typed, TypeOK, RequestType, Shape, ReadSteps
    <3> QED
      BY <1>9, <3>1, <3>2
         DEF SaveUser, Quota, CreatedPresent, Present, Typed, TypeOK, Roles, Absent
  <2>2. \A p \in Requests : req'[p].step \in {"exists", "store"} => req[p].step \in {"exists", "store"}
    BY <1>9, EndEffect DEF SaveUser, Idle, Request
  <2> QED
    BY <1>9, <2>1, <2>2
       DEF SaveUser, Quota, RoomForCreation, CreatedWithinQuota, InitiallyWithinQuota
<1>10. ASSUME NEW r \in Requests, Abort(r) PROVE Quota'
  BY <1>10, EndEffect, QuotaFrame DEF Abort, Idle, Request
<1> QED
  BY <1>1, <1>2, <1>3, <1>4, <1>5, <1>6, <1>7, <1>8, <1>9, <1>10 DEF Next, Step

\* The users created never exceed the quota, if they did not at the start.
THEOREM QuotaCorrect == Spec => []CreatedWithinQuota
<1>1. Init => LockProtectsCreation
  BY DEF Init, LockProtectsCreation, Idle, Request, CreateSteps
<1>2. Init => Quota
  BY DEF Init, Quota, CreatedPresent, RoomForCreation, CreatedWithinQuota, InitiallyWithinQuota,
         Present, Idle, Request
<1>3. Spec => [](Typed /\ LockProtectsCreation /\ Quota)
  BY <1>1, <1>2, InitTyped, NextTyped, NextLock, NextQuota, PTL DEF Spec
<1> QED
  BY <1>3, PTL DEF Quota

\* A request that passed the count has room for its user until it stores it.
THEOREM RoomCorrect == Spec => []RoomForCreation
<1>1. Init => LockProtectsCreation
  BY DEF Init, LockProtectsCreation, Idle, Request, CreateSteps
<1>2. Init => Quota
  BY DEF Init, Quota, CreatedPresent, RoomForCreation, CreatedWithinQuota, InitiallyWithinQuota,
         Present, Idle, Request
<1>3. Spec => [](Typed /\ LockProtectsCreation /\ Quota)
  BY <1>1, <1>2, InitTyped, NextTyped, NextLock, NextQuota, PTL DEF Spec
<1> QED
  BY <1>3, PTL DEF Quota

-----------------------------------------------------------------------------
GrantSteps == {"count", "exists", "store", "admins", "save"}

\* A step that leaves the store alone, and by which r passes no check unseen.
LEMMA GrantedFrame ==
  ASSUME Typed, Granted, NEW r \in Requests, ReadOnly,
         \A p \in Requests \ {r} : req'[p] = req[p],
         req'[r].seen = Admin => req'[r].target \in wereAdmin,
         req'[r].role = Admin /\ req'[r].step \in GrantSteps => req'[r].actor \in wereAdmin
  PROVE  Granted'
BY DEF Granted, GrantSteps, ReadOnly, Admins

\* An idle request grants nothing.
LEMMA GrantedEnd ==
  ASSUME Typed, Granted, NEW r \in Requests, End(r), ReadOnly
  PROVE  Granted'
BY EndEffect, GrantedFrame DEF Idle, Request, Absent, Admin, GrantSteps

LEMMA GrantedGoto ==
  ASSUME Typed, Granted, NEW r \in Requests, NEW step, Goto(r, step), ReadOnly,
         req[r].role = Admin /\ step \in GrantSteps => req[r].actor \in wereAdmin
  PROVE  Granted'
BY GotoEffect, GrantedFrame DEF Granted

\* A user is stored by a request that ends: administrators are recorded, and a
\* new one was made by one.
LEMMA GrantedWrite ==
  ASSUME Typed, Granted, NEW r \in Requests, NEW role \in Roles,
         Write(req[r].target, role), End(r), req[r].step \in {"store", "save"},
         role = Admin => req[r].actor \in wereAdmin \/ req[r].target \in wereAdmin
  PROVE  /\ Granted'
         /\ \A u \in wereAdmin' \ wereAdmin : req[r].target = u /\ req[r].actor \in wereAdmin
<1>1. Admins' \subseteq wereAdmin'
  BY DEF Granted, Admins, Write, Typed, TypeOK, Shape
<1>2. wereAdmin \subseteq wereAdmin'
  BY DEF Write
<1>3. /\ req'[r].seen # Admin /\ req'[r].role # Admin
      /\ \A p \in Requests \ {r} : req'[p] = req[p]
  BY EndEffect DEF Idle, Request, Absent, Admin, NoRole
<1>4. Granted'
  BY <1>1, <1>2, <1>3 DEF Granted
<1>5. \A u \in wereAdmin' \ wereAdmin : req[r].target = u /\ req[r].actor \in wereAdmin
  BY DEF Write
<1> QED
  BY <1>4, <1>5

MadeByAdmin ==
  \A u \in wereAdmin' \ wereAdmin :
    \E r \in Requests : /\ req[r].step \in {"store", "save"}
                        /\ req[r].target = u
                        /\ req[r].actor \in wereAdmin

LEMMA NextGranted == Typed /\ Granted /\ [Next]_vars => Granted' /\ MadeByAdmin
<1> SUFFICES ASSUME Typed, Granted, [Next]_vars PROVE Granted' /\ MadeByAdmin
  OBVIOUS
<1>1. CASE UNCHANGED vars
  BY <1>1 DEF vars, Granted, Admins, MadeByAdmin
<1>2. ASSUME NEW r \in Requests, ReadOnly PROVE MadeByAdmin
  BY <1>2 DEF ReadOnly, MadeByAdmin
<1>3. ASSUME NEW r \in Requests, Start(r) PROVE Granted'
  <2>1. PICK actor \in UserIds, target \in UserIds, role \in Roles \cup {NoRole},
             op \in Ops, step \in {"lock", "target"} :
          req' = [req EXCEPT ![r] = Request(step, op, actor, target, role)]
    BY <1>3, UserServiceAssumption DEF Start, Present, Ops
  <2>2. /\ req'[r].step \notin GrantSteps /\ req'[r].seen # Admin
        /\ \A p \in Requests \ {r} : req'[p] = req[p]
    BY <2>1 DEF Typed, TypeOK, Request, GrantSteps, Absent, Admin
  <2> QED
    BY <1>3, <2>2, GrantedFrame DEF Start
<1>4. ASSUME NEW r \in Requests, AcquireLock(r) PROVE Granted'
  BY <1>4, GrantedGoto DEF AcquireLock, GrantSteps
<1>5. ASSUME NEW r \in Requests, GetCreator(r) PROVE Granted'
  <2>1. CASE End(r)
    BY <1>5, <2>1, GrantedEnd DEF GetCreator
  <2>2. CASE ~End(r)
    <3>1. /\ Goto(r, "count") /\ ReadOnly
          /\ req[r].role = Admin => users[req[r].actor] = Admin
      BY <1>5, <2>2 DEF GetCreator
    <3>2. req[r].actor \in UserIds
      BY <1>5 DEF GetCreator, Typed, Shape
    <3>3. req[r].role = Admin => req[r].actor \in wereAdmin
      BY <3>1, <3>2 DEF Granted, Admins
    <3> QED
      BY <3>1, <3>3, GrantedGoto
  <2> QED
    BY <2>1, <2>2
<1>6. ASSUME NEW r \in Requests, CountUsers(r) \/ CheckExists(r) PROVE Granted'
  BY <1>6, GrantedEnd, GrantedGoto DEF CountUsers, CheckExists, Granted, GrantSteps
<1>7. ASSUME NEW r \in Requests, StoreUser(r) PROVE Granted' /\ MadeByAdmin
  <2>1. req[r].role \in Roles
    BY <1>7 DEF StoreUser, Typed, Shape, CreateSteps
  <2>2. req[r].role = Admin => req[r].actor \in wereAdmin
    BY <1>7 DEF StoreUser, Granted
  <2> QED
    BY <1>7, <2>1, <2>2, GrantedWrite DEF StoreUser, MadeByAdmin
<1>8. ASSUME NEW r \in Requests, GetTarget(r) PROVE Granted'
  <2>1. CASE End(r)
    BY <1>8, <2>1, GrantedEnd DEF GetTarget
  <2>2. CASE ~End(r)
    <3>1. PICK step \in {"admins", "actor"} :
            /\ req' = [req EXCEPT ![r].seen = users[req[r].target], ![r].step = step]
            /\ step = "admins" => req[r].op = "delete"
      BY <1>8, <2>2 DEF GetTarget
    <3>2. /\ req'[r].seen = users[req[r].target] /\ req'[r].step = step
          /\ req'[r].target = req[r].target /\ req'[r].role = req[r].role
          /\ \A p \in Requests \ {r} : req'[p] = req[p]
      BY <3>1 DEF Typed, TypeOK, RequestType
    <3>3. req[r].target \in UserIds /\ (step = "admins" => req[r].role = NoRole)
      BY <1>8, <3>1 DEF GetTarget, Typed, Shape
    <3>4. req'[r].seen = Admin => req'[r].target \in wereAdmin
      BY <3>2, <3>3 DEF Granted, Admins
    <3> QED
      BY <1>8, <3>1, <3>2, <3>3, <3>4, GrantedFrame DEF GetTarget, GrantSteps, NoRole, Admin
  <2> QED
    BY <2>1, <2>2
<1>9. ASSUME NEW r \in Requests, CountAdmins(r) PROVE Granted'
  <2>1. End(r) \/ (\E step \in {"actor", "save"} : Goto(r, step))
    BY <1>9 DEF CountAdmins
  <2>2. req[r].role = Admin => req[r].actor \in wereAdmin
    BY <1>9 DEF CountAdmins, Granted
  <2> QED
    BY <1>9, <2>1, <2>2, GrantedEnd, GrantedGoto DEF CountAdmins
<1>10. ASSUME NEW r \in Requests, GetActor(r) PROVE Granted'
  <2>1. CASE End(r)
    BY <1>10, <2>1, GrantedEnd DEF GetActor
  <2>2. CASE ~End(r)
    <3>1. req[r].op = "delete" \/ UpdateAllowed(req[r], users[req[r].actor])
      BY <1>10, <2>2 DEF GetActor
    <3>2. \E step : Goto(r, step) /\ (req[r].op = "delete" => step = "remove")
      BY <1>10, <2>2, Zenon DEF GetActor
    <3>3. req[r].actor \in UserIds
      BY <1>10 DEF GetActor, Typed, Shape
    <3>4. req[r].op # "delete" /\ req[r].role = Admin => req[r].actor \in wereAdmin
      BY <3>1, <3>3 DEF UpdateAllowed, Granted, Admins, NoRole, Admin
    <3> QED
      BY <1>10, <3>2, <3>4, GrantedGoto DEF GetActor, GrantSteps
  <2> QED
    BY <2>1, <2>2
<1>11. ASSUME NEW r \in Requests, RemoveUser(r) PROVE Granted' /\ MadeByAdmin
  <2>1. Admins' \subseteq Admins
    BY <1>11 DEF RemoveUser, Admins, Typed, TypeOK, Absent, Admin
  <2> QED
    BY <1>11, <2>1, EndEffect
       DEF RemoveUser, Granted, MadeByAdmin, Idle, Request, Absent, Admin, NoRole
<1>12. ASSUME NEW r \in Requests, SaveUser(r) PROVE Granted' /\ MadeByAdmin
  <2> DEFINE role == IF req[r].role = NoRole THEN req[r].seen ELSE req[r].role
  <2>1. role \in Roles
    BY <1>12 DEF SaveUser, Typed, TypeOK, RequestType, Shape, ReadSteps
  <2>2. role = Admin => req[r].actor \in wereAdmin \/ req[r].target \in wereAdmin
    BY <1>12 DEF SaveUser, Granted
  <2> QED
    BY <1>12, <2>1, <2>2, GrantedWrite DEF SaveUser, MadeByAdmin
<1>13. ASSUME NEW r \in Requests, Abort(r) PROVE Granted'
  BY <1>13, GrantedEnd DEF Abort
<1> QED
  BY <1>1, <1>2, <1>3, <1>4, <1>5, <1>6, <1>7, <1>8, <1>9, <1>10, <1>11, <1>12, <1>13
     DEF Next, Step, Start, AcquireLock, GetCreator, CountUsers, CheckExists, GetTarget,
         CountAdmins, GetActor, Abort

\* No privilege escalation, however requests overlap and whatever they had read
\* when roles changed: only administrators make administrators.
THEOREM NoEscalation == Spec => AdminsMakeAdmins
<1>1. Init => Granted
  BY DEF Init, Granted, Admins, Idle, Request, Absent, Admin, NoRole
<1>2. Spec => [](Typed /\ Granted)
  BY <1>1, InitTyped, NextTyped, NextGranted, PTL DEF Spec
<1>3. Typed /\ Granted /\ [Next]_vars => [MadeByAdmin]_vars
  BY NextGranted
<1> QED
  BY <1>2, <1>3, PTL DEF Spec, AdminsMakeAdmins, MadeByAdmin
-----------------------------------------------------------------------------
(***************************************************************************)
(* One request at a time: what a request has read is still so when it acts *)
(* on it, which is all that delete_user and update_user, which take no     *)
(* lock, rely on.                                                          *)
(***************************************************************************)
OneAtATime == \A r, p \in Requests : r = p

NotLastAdmin(u) == Admins # {u}

Creation(r) ==
  /\ req[r].step \in {"exists", "store"} /\ UsersQuota > 0 => Cardinality(Present) < UsersQuota
  /\ req[r].step = "store" => users[req[r].target] = Absent

\* delete_user has counted the administrators before it reads its actor;
\* update_user has, or has an administrator other than its user for an actor,
\* or keeps the role, or makes the user an administrator.
Change(r) ==
  /\ req[r].step \in ReadSteps => users[req[r].target] = req[r].seen
  /\ req[r].step \in ReadSteps \cup {"target"} => req[r].op # "create"
  /\ req[r].step = "remove" => req[r].op = "delete"
  /\ req[r].step = "save" => req[r].op = "update"
  /\ req[r].step \in {"actor", "remove"} /\ req[r].op = "delete" => NotLastAdmin(req[r].target)
  /\ req[r].step = "save" /\ req[r].role \notin {NoRole, Admin} => NotLastAdmin(req[r].target)

SerialInv == AtLeastOneAdmin /\ \A r \in Requests : Creation(r) /\ Change(r)

LEMMA InitSerial == Init => SerialInv
<1> SUFFICES ASSUME Init PROVE SerialInv
  OBVIOUS
<1>1. AtLeastOneAdmin
  BY UserServiceAssumption DEF Init, AtLeastOneAdmin, Admins
<1>2. \A r \in Requests : req[r].step = "idle"
  BY DEF Init, Idle, Request
<1> QED
  BY <1>1, <1>2 DEF SerialInv, Creation, Change, ReadSteps

\* The only request there is ends: nothing is left to remember.
LEMMA SerialEnd ==
  ASSUME Typed, OneAtATime, NEW r \in Requests, End(r), AtLeastOneAdmin'
  PROVE  SerialInv'
<1>1. \A p \in Requests : req'[p].step = "idle"
  BY EndEffect DEF OneAtATime, Idle, Request
<1> QED
  BY <1>1 DEF SerialInv, Creation, Change, ReadSteps

\* It reads the store and goes on: it remembers what it has just checked.
LEMMA SerialRead ==
  ASSUME OneAtATime, SerialInv, NEW r \in Requests, ReadOnly, Creation(r)', Change(r)'
  PROVE  SerialInv'
BY DEF OneAtATime, SerialInv, ReadOnly, AtLeastOneAdmin, Admins

LEMMA SerialEndRead ==
  ASSUME Typed, OneAtATime, SerialInv, NEW r \in Requests, ReadOnly, End(r)
  PROVE  SerialInv'
BY SerialEnd DEF SerialInv, ReadOnly, AtLeastOneAdmin, Admins

\* The count of the administrators tells whether a user is the last one.
LEMMA CountedNotLast ==
  ASSUME Cardinality(Admins) # 1, NEW u PROVE NotLastAdmin(u)
BY FS_Singleton DEF NotLastAdmin

\* Another administrator acts: the user is not the last one.
LEMMA OtherAdminActs ==
  ASSUME NEW u, NEW a \in UserIds, users[a] = Admin, a # u PROVE NotLastAdmin(u)
BY DEF NotLastAdmin, Admins

LEMMA CreationReads ==
  ASSUME Typed, OneAtATime, SerialInv, NEW r \in Requests,
         AcquireLock(r) \/ GetCreator(r) \/ CountUsers(r) \/ CheckExists(r)
  PROVE  SerialInv'
<1>1. ReadOnly
  BY DEF AcquireLock, GetCreator, CountUsers, CheckExists
<1>2. CASE End(r)
  BY <1>1, <1>2, SerialEndRead
<1>3. CASE ~End(r)
  <2>1. PICK step \in {"creator", "count", "exists", "store"} : Goto(r, step)
    BY <1>3 DEF AcquireLock, GetCreator, CountUsers, CheckExists
  <2>2. /\ req'[r].step = step /\ req'[r].target = req[r].target
    BY <2>1, GotoEffect
  <2>3. Change(r)'
    BY <2>2 DEF Change, ReadSteps
  <2>4. Cardinality(Present) \in Int
    BY CountFacts DEF Present
  <2>5. CASE AcquireLock(r) \/ GetCreator(r)
    <3>1. step \in {"creator", "count"}
      BY <1>3, <2>2, <2>5, GotoEffect DEF AcquireLock, GetCreator
    <3> QED
      BY <1>1, <2>2, <2>3, <3>1, SerialRead DEF Creation
  <2>6. CASE CountUsers(r)
    <3>1. step = "exists" /\ (UsersQuota > 0 => Cardinality(Present) < UsersQuota)
      BY <1>3, <2>2, <2>4, <2>6, GotoEffect, UserServiceAssumption DEF CountUsers
    <3>2. Creation(r)'
      BY <1>1, <2>2, <3>1 DEF Creation, ReadOnly, Present
    <3> QED
      BY <1>1, <2>3, <3>2, SerialRead
  <2>7. CASE CheckExists(r)
    <3>1. /\ step = "store" /\ users[req[r].target] = Absent
          /\ UsersQuota > 0 => Cardinality(Present) < UsersQuota
      BY <1>3, <2>2, <2>7, GotoEffect DEF CheckExists, SerialInv, Creation
    <3>2. Creation(r)'
      BY <1>1, <2>2, <3>1 DEF Creation, ReadOnly, Present
    <3> QED
      BY <1>1, <2>3, <3>2, SerialRead
  <2> QED
    BY <2>5, <2>6, <2>7
<1> QED
  BY <1>2, <1>3

LEMMA GetTargetSerial ==
  ASSUME Typed, OneAtATime, SerialInv, NEW r \in Requests, GetTarget(r)
  PROVE  SerialInv'
<1>1. ReadOnly /\ req[r].step = "target"
  BY DEF GetTarget
<1>2. CASE End(r)
  BY <1>1, <1>2, SerialEndRead
<1>3. CASE ~End(r)
  <2> DEFINE role == users[req[r].target]
             step == IF req[r].op = "delete" /\ role = Admin THEN "admins" ELSE "actor"
  <2>1. req' = [req EXCEPT ![r].seen = role, ![r].step = step]
    BY <1>3 DEF GetTarget
  <2> HIDE DEF role, step
  <2>2. /\ req'[r].step = step /\ req'[r].seen = role /\ req'[r].op = req[r].op
        /\ req'[r].target = req[r].target
    BY <2>1 DEF Typed, TypeOK, RequestType
  <2>3. step \in {"admins", "actor"} /\ req[r].op # "create"
    BY <1>1 DEF step, SerialInv, Change
  <2>4. step = "actor" /\ req[r].op = "delete" => NotLastAdmin(req[r].target)
    BY DEF step, role, NotLastAdmin, Admins
  <2>5. users'[req[r].target] = role /\ (NotLastAdmin(req[r].target) => NotLastAdmin(req[r].target)')
    BY <1>1, <2>2 DEF role, ReadOnly, NotLastAdmin, Admins
  <2>6. Change(r)'
    BY <2>2, <2>3, <2>4, <2>5 DEF Change, ReadSteps
  <2>7. Creation(r)'
    BY <2>2, <2>3 DEF Creation
  <2> QED
    BY <1>1, <2>6, <2>7, SerialRead
<1> QED
  BY <1>2, <1>3

\* The request goes on to remove, to save or to a check, having found whatever
\* it needs to know.
LEMMA SerialGoto ==
  ASSUME Typed, OneAtATime, SerialInv, NEW r \in Requests, ReadOnly,
         req[r].step \in ReadSteps, NEW step \in ReadSteps, Goto(r, step),
         step = "remove" => req[r].op = "delete",
         step = "save" => req[r].op = "update",
         step \in {"actor", "remove"} /\ req[r].op = "delete" => NotLastAdmin(req[r].target),
         step = "save" /\ req[r].role \notin {NoRole, Admin} => NotLastAdmin(req[r].target)
  PROVE  SerialInv'
<1>1. /\ req'[r].step = step /\ req'[r].op = req[r].op /\ req'[r].target = req[r].target
      /\ req'[r].role = req[r].role /\ req'[r].seen = req[r].seen
  BY GotoEffect
<1>2. users' = users /\ (NotLastAdmin(req[r].target) => NotLastAdmin(req[r].target)')
  BY <1>1 DEF ReadOnly, NotLastAdmin, Admins
<1>3. users[req[r].target] = req[r].seen /\ req[r].op # "create"
  BY DEF SerialInv, Change
<1>4. Change(r)'
  BY <1>1, <1>2, <1>3 DEF Change
<1>5. Creation(r)'
  BY <1>1 DEF Creation, ReadSteps
<1> QED
  BY <1>4, <1>5, SerialRead

LEMMA CountAdminsSerial ==
  ASSUME Typed, OneAtATime, SerialInv, NEW r \in Requests, CountAdmins(r)
  PROVE  SerialInv'
<1>1. ReadOnly /\ req[r].step = "admins"
  BY DEF CountAdmins
<1>2. CASE End(r)
  BY <1>1, <1>2, SerialEndRead
<1>3. CASE ~End(r)
  <2>1. Cardinality(Admins) # 1 /\ Goto(r, IF req[r].op = "delete" THEN "actor" ELSE "save")
    BY <1>3 DEF CountAdmins
  <2>2. NotLastAdmin(req[r].target)
    BY <2>1, CountedNotLast
  <2>3. req[r].op \in {"delete", "update"}
    BY <1>1 DEF SerialInv, Change, ReadSteps, Typed, TypeOK, RequestType, Ops
  <2>4. CASE req[r].op = "delete"
    BY <1>1, <2>1, <2>2, <2>4, SerialGoto DEF ReadSteps
  <2>5. CASE req[r].op = "update"
    BY <1>1, <2>1, <2>2, <2>5, SerialGoto DEF ReadSteps
  <2> QED
    BY <2>3, <2>4, <2>5
<1> QED
  BY <1>2, <1>3

LEMMA GetActorSerial ==
  ASSUME Typed, OneAtATime, SerialInv, NEW r \in Requests, GetActor(r)
  PROVE  SerialInv'
<1>1. ReadOnly /\ req[r].step = "actor"
  BY DEF GetActor
<1>2. CASE End(r)
  BY <1>1, <1>2, SerialEndRead
<1>3. CASE ~End(r)
  <2>1. /\ req[r].op \in {"delete", "update"} /\ users[req[r].target] = req[r].seen
        /\ req[r].op = "delete" => NotLastAdmin(req[r].target)
    BY <1>1 DEF SerialInv, Change, ReadSteps, Typed, TypeOK, RequestType, Ops
  <2>2. req[r].actor \in UserIds /\ req[r].target \in UserIds
    BY <1>1 DEF Typed, Shape
  <2>3. CASE req[r].op = "delete"
    <3>1. Goto(r, "remove")
      BY <1>3, <2>3 DEF GetActor
    <3> QED
      BY <1>1, <2>1, <2>3, <3>1, SerialGoto DEF ReadSteps
  <2>4. CASE req[r].op = "update"
    <3> DEFINE self == req[r].role # NoRole /\ users[req[r].actor] = Admin
                       /\ req[r].actor = req[r].target
    <3>1. UpdateAllowed(req[r], users[req[r].actor])
      BY <1>3, <2>4 DEF GetActor
    <3>2. CASE self
      <4>1. Goto(r, "admins")
        BY <1>3, <2>4, <3>2 DEF GetActor
      <4> QED
        BY <1>1, <2>4, <4>1, SerialGoto DEF ReadSteps
    <3>3. CASE ~self
      <4>1. Goto(r, "save")
        BY <1>3, <2>4, <3>3 DEF GetActor
      <4>2. ASSUME req[r].role \notin {NoRole, Admin} PROVE NotLastAdmin(req[r].target)
        <5>1. CASE users[req[r].actor] = Admin
          BY <2>2, <3>3, <4>2, <5>1, OtherAdminActs
        <5>2. CASE users[req[r].actor] # Admin
          <6>1. req[r].seen # Admin
            BY <3>1, <4>2, <5>2 DEF UpdateAllowed, RoleRule, Admin
          <6> QED
            BY <2>1, <2>2, <6>1 DEF NotLastAdmin, Admins
        <5> QED
          BY <5>1, <5>2
      <4> QED
        BY <1>1, <2>4, <4>1, <4>2, SerialGoto DEF ReadSteps
    <3> QED
      BY <3>2, <3>3
  <2> QED
    BY <2>1, <2>3, <2>4
<1> QED
  BY <1>2, <1>3

\* The three steps that write keep an administrator, and each is a whole
\* operation of the promised directory.
LEMMA StoreSerial ==
  ASSUME Typed, OneAtATime, SerialInv, NEW r \in Requests, StoreUser(r)
  PROVE  SerialInv' /\ Directory!Create(req[r].target, req[r].role) /\ req[r].role \in Roles
<1>1. req[r].target \in UserIds /\ req[r].role \in Roles /\ req[r].step = "store"
  BY DEF StoreUser, Typed, Shape, CreateSteps
<1>2. /\ users[req[r].target] = Absent
      /\ UsersQuota > 0 => Cardinality(Present) < UsersQuota
  BY <1>1 DEF SerialInv, Creation
<1>3. users' = [users EXCEPT ![req[r].target] = req[r].role]
  BY DEF StoreUser, Write
<1>4. AtLeastOneAdmin'
  BY <1>1, <1>2, <1>3 DEF SerialInv, AtLeastOneAdmin, Admins, Typed, TypeOK, Absent, Admin
<1>5. Directory!Create(req[r].target, req[r].role)
  <2>1. Directory!Cardinality(Present) = Cardinality(Present)
    BY DEF Directory!Cardinality, Cardinality
  <2>2. Directory!Present = Present
    BY DEF Directory!Present, Present
  <2> QED
    BY <1>2, <1>3, <2>1, <2>2 DEF Directory!Create
<1> QED
  BY <1>1, <1>4, <1>5, SerialEnd DEF StoreUser

LEMMA RemoveSerial ==
  ASSUME Typed, OneAtATime, SerialInv, NEW r \in Requests, RemoveUser(r)
  PROVE  SerialInv' /\ Directory!Delete(req[r].target)
<1>1. req[r].step = "remove" /\ req[r].target \in UserIds /\ req[r].seen \in Roles
  BY DEF RemoveUser, Typed, Shape, ReadSteps
<1>2. users[req[r].target] \in Roles /\ NotLastAdmin(req[r].target)
  BY <1>1 DEF SerialInv, Change, ReadSteps
<1>3. users' = [users EXCEPT ![req[r].target] = Absent]
  BY DEF RemoveUser
<1>4. PICK u \in Admins : u # req[r].target
  BY <1>2 DEF SerialInv, AtLeastOneAdmin, NotLastAdmin
<1>5. AtLeastOneAdmin'
  BY <1>3, <1>4 DEF AtLeastOneAdmin, Admins, Typed, TypeOK
<1>6. Directory!Delete(req[r].target)
  BY <1>2, <1>3 DEF Directory!Delete, Directory!LastAdmin, Directory!Admins, NotLastAdmin, Admins,
                    Roles, Absent
<1> QED
  BY <1>5, <1>6, SerialEnd DEF RemoveUser

LEMMA SaveSerial ==
  ASSUME Typed, OneAtATime, SerialInv, NEW r \in Requests, SaveUser(r)
  PROVE  SerialInv' /\ \E role \in Roles : Directory!Update(req[r].target, role)
<1> DEFINE u == req[r].target
           role == IF req[r].role = NoRole THEN req[r].seen ELSE req[r].role
<1>1. req[r].step = "save" /\ u \in UserIds /\ req[r].seen \in Roles /\ role \in Roles
  BY DEF SaveUser, Typed, TypeOK, RequestType, Shape, ReadSteps
<1>2. users[u] = req[r].seen
  BY <1>1 DEF SerialInv, Change, ReadSteps
<1>3. users' = [users EXCEPT ![u] = role]
  BY DEF SaveUser, Write
<1>4. role # Admin => Admins # {u}
  <2>1. CASE req[r].role = NoRole
    BY <1>1, <1>2, <2>1 DEF Admins
  <2>2. CASE req[r].role # NoRole
    BY <1>1, <2>2 DEF SerialInv, Change, NotLastAdmin
  <2> QED
    BY <2>1, <2>2
<1> HIDE DEF role
<1>5. AtLeastOneAdmin'
  <2>1. CASE role = Admin
    BY <1>1, <1>3, <2>1 DEF AtLeastOneAdmin, Admins, Typed, TypeOK
  <2>2. CASE role # Admin
    <3>1. PICK a \in Admins : a # u
      BY <1>4, <2>2 DEF SerialInv, AtLeastOneAdmin
    <3> QED
      BY <1>3, <3>1 DEF AtLeastOneAdmin, Admins, Typed, TypeOK
  <2> QED
    BY <2>1, <2>2
<1>6. Directory!Update(u, role)
  BY <1>1, <1>2, <1>3, <1>4
     DEF Directory!Update, Directory!LastAdmin, Directory!Admins, Admins, Roles, Absent
<1> QED
  BY <1>1, <1>5, <1>6, SerialEnd DEF SaveUser

LEMMA StartSerial ==
  ASSUME Typed, OneAtATime, SerialInv, NEW r \in Requests, Start(r)
  PROVE  SerialInv'
<1>1. PICK actor \in UserIds, target \in UserIds, role \in Roles \cup {NoRole},
           op \in Ops, step \in {"lock", "target"} :
        /\ step = "target" => op # "create"
        /\ req' = [req EXCEPT ![r] = Request(step, op, actor, target, role)]
  BY UserServiceAssumption DEF Start, Present, Ops
<1>2. req'[r].step = step /\ req'[r].op = op
  BY <1>1 DEF Typed, TypeOK, Request
<1>3. Creation(r)' /\ Change(r)'
  BY <1>1, <1>2 DEF Creation, Change, ReadSteps
<1> QED
  BY <1>3, SerialRead DEF Start

\* Every step keeps the invariant, and changes the store as the directory may.
LEMMA NextSerial ==
  ASSUME OneAtATime
  PROVE  Typed /\ SerialInv /\ [Next]_vars => SerialInv' /\ [Directory!Next]_users
<1> SUFFICES ASSUME Typed, SerialInv, [Next]_vars
             PROVE  SerialInv' /\ [Directory!Next]_users
  OBVIOUS
<1>1. CASE UNCHANGED vars
  BY <1>1 DEF vars, SerialInv, AtLeastOneAdmin, Creation, Change, Admins, Present, NotLastAdmin
<1>2. ASSUME NEW r \in Requests, Start(r) \/ AcquireLock(r) \/ GetCreator(r) \/ CountUsers(r)
                                 \/ CheckExists(r) \/ GetTarget(r) \/ CountAdmins(r)
                                 \/ GetActor(r) \/ Abort(r)
      PROVE  SerialInv' /\ UNCHANGED users
  <2>1. ReadOnly
    BY <1>2 DEF Start, AcquireLock, GetCreator, CountUsers, CheckExists, GetTarget, CountAdmins,
                GetActor, Abort
  <2>2. CASE Abort(r)
    BY <2>1, <2>2, SerialEndRead DEF Abort, ReadOnly
  <2> QED
    BY <1>2, <2>1, <2>2, StartSerial, CreationReads, GetTargetSerial, CountAdminsSerial,
       GetActorSerial DEF ReadOnly
<1>3. ASSUME NEW r \in Requests, StoreUser(r) \/ RemoveUser(r) \/ SaveUser(r)
      PROVE  SerialInv' /\ Directory!Next
  <2>1. req[r].target \in UserIds
    BY <1>3 DEF StoreUser, RemoveUser, SaveUser, Typed, Shape
  <2> QED
    BY <1>3, <2>1, StoreSerial, RemoveSerial, SaveSerial DEF Directory!Next
<1> QED
  BY <1>1, <1>2, <1>3 DEF Next, Step

\* When requests come one at a time the agent always has an administrator,
\* although delete_user and update_user count the administrators some store
\* calls before they write.
THEOREM SerialAdmin == OneAtATime => (Spec => []AtLeastOneAdmin)
<1> SUFFICES ASSUME OneAtATime PROVE Spec => []AtLeastOneAdmin
  OBVIOUS
<1>1. Spec => [](Typed /\ SerialInv)
  <2>1. Typed /\ SerialInv /\ [Next]_vars => SerialInv'
    BY NextSerial
  <2> QED
    BY <2>1, InitTyped, NextTyped, InitSerial, PTL DEF Spec
<1> QED
  BY <1>1, PTL DEF SerialInv

\* One request at a time implements the promised directory: every create_user,
\* delete_user and update_user is one change of it or none, within the quota and
\* never against the last administrator.
THEOREM SerialDirectory == OneAtATime => (Spec => DirectorySpec)
<1> SUFFICES ASSUME OneAtATime PROVE Spec => DirectorySpec
  OBVIOUS
<1>1. Typed /\ SerialInv /\ [Next]_vars => SerialInv' /\ [Directory!Next]_users
  BY NextSerial
<1>2. Init => Directory!Init
  BY DEF Init, Directory!Init
<1> QED
  BY <1>1, <1>2, InitTyped, NextTyped, InitSerial, PTL DEF Spec, DirectorySpec, Directory!Spec
=============================================================================
