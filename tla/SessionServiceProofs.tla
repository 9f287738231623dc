------------------------ MODULE SessionServiceProofs ------------------------
(***************************************************************************)
(* Theorems about SessionService, for every set of users, session ids and  *)
(* requests, every quota and expiry interval.                              *)
(***************************************************************************)
EXTENDS SessionService, FiniteSetTheorems, TLAPS

-----------------------------------------------------------------------------
(***************************************************************************)
(* The control flow: which operation a step belongs to, where the          *)
(* subroutines return to, and what a task knows by then.                   *)
(***************************************************************************)
DeleteSteps == {"del_get", "del_rm"}
LoginSteps == {"user", "known", "scan", "scan_next", "refresh", "store", "add", "restore",
               "restore_next", "admit", "recheck"}

\* A sweep is the background task's, or a login's that found the quota full.
SweepReturns(q) == \/ q.op = "clear" /\ q.after = "idle"
                   \/ q.op = "login" /\ q.after = "recheck"

DeleteReturns(q) ==
  \/ q.ret \in {"scan_next", "restore_next"} /\ q.op = "login"
  \/ q.ret = "sweep_next" /\ SweepReturns(q)
  \/ q.ret = "list_next" /\ q.op = "delete_user"
  \/ q.ret = "idle" /\ q.op \in {"request", "logout"}

Shape(q) ==
  /\ q.op \in {"login", "delete_user"} => q.user \in Users
  /\ q.op \in {"login", "request", "logout"} => q.sid \in Sids
  /\ q.step \in LoginSteps => q.op = "login"
  /\ q.step \in {"auth", "handler"} => q.op \in {"request", "logout"}
  /\ q.step \in {"remove_user", "removed", "list", "list_next"} => q.op = "delete_user"
  /\ q.step \in {"sweep", "sweep_next"} => SweepReturns(q)
  /\ q.step \in DeleteSteps => DeleteReturns(q) /\ q.del \in Sids
  /\ q.step = "del_rm" => q.victim \in Users

Shapes == \A t \in Tasks : Shape(req[t])

\* The types of the stores, the counters and the history; those of the tasks.
DataTypes ==
  /\ now \in Nat
  /\ account \in SUBSET Users
  /\ sessions \in SUBSET Session
  /\ activeUsers \in [Users -> Nat]
  /\ restored \in BOOLEAN
  /\ issued \in SUBSET Sids /\ loggedOut \in SUBSET Sids
  /\ deleted \in SUBSET Users /\ outrun \in SUBSET Sids
TasksTyped == req \in [Tasks -> TaskType] /\ Shapes /\ turn \in SUBSET Tasks

LEMMA TypeParts == TypeOK /\ Shapes <=> DataTypes /\ TasksTyped /\ disturbed \in BOOLEAN
BY DEF TypeOK, DataTypes, TasksTyped

\* A task goes on with a record of the right type and shape.
LEMMA ContinueTyped ==
  ASSUME TypeOK, Shapes, NEW t \in Tasks, NEW q \in TaskType, Shape(q), Continue(t, q)
  PROVE  TasksTyped'
<1>1. req' = [req EXCEPT ![t] = q] /\ turn' \in {{}, {t}}
  BY DEF Continue
<1>2. req' \in [Tasks -> TaskType]
  BY <1>1 DEF TypeOK
<1>3. ASSUME NEW t2 \in Tasks
      PROVE  Shape(req'[t2])
  <2>1. req'[t2] = IF t2 = t THEN q ELSE req[t2]
    BY <1>1 DEF TypeOK
  <2> QED
    BY <2>1 DEF Shapes
<1> QED
  BY <1>1, <1>2, <1>3 DEF Shapes, TasksTyped

\* The record of a task.
LEMMA TaskFields ==
  ASSUME TypeOK, Shapes, NEW t \in Tasks
  PROVE  req[t] \in TaskType /\ Shape(req[t])
BY DEF TypeOK, Shapes

LEMMA IdleTyped == Idle \in TaskType /\ Shape(Idle)
<1>1. Idle \in TaskType
  BY DEF Idle, TaskType, Ops, Steps, OtherWaits
<1> QED
  BY <1>1 DEF Idle, Shape, LoginSteps, DeleteSteps

LEMMA DeadTyped ==
  [Idle EXCEPT !.step = "dead"] \in TaskType /\ Shape([Idle EXCEPT !.step = "dead"])
BY DEF Idle, TaskType, Ops, Steps, OtherWaits, Shape, LoginSteps, DeleteSteps

LEMMA EndTyped ==
  ASSUME TypeOK, Shapes, NEW t \in Tasks, End(t) \/ Raise(t)
  PROVE  TasksTyped'
BY ContinueTyped, IdleTyped, DeadTyped DEF End, Raise

LEMMA BeginTyped ==
  ASSUME TypeOK, Shapes, NEW t \in Tasks,
         BeginLogin(t) \/ BeginRequest(t) \/ BeginDeleteUser(t) \/ BeginClear(t)
  PROVE  DataTypes' /\ TasksTyped'
<1>1. DataTypes'
  BY DEF BeginLogin, BeginRequest, BeginDeleteUser, BeginClear, TypeOK, DataTypes, stores, counters, history
<1>2. CASE BeginLogin(t)
  <2>1. PICK u \in Users, sid \in Fresh :
          Continue(t, [Idle EXCEPT !.op = "login", !.step = "user", !.user = u, !.sid = sid])
    BY <1>2 DEF BeginLogin
  <2> DEFINE q == [Idle EXCEPT !.op = "login", !.step = "user", !.user = u, !.sid = sid]
  <2>2. sid \in Sids
    BY DEF Fresh
  <2>3. q \in TaskType /\ Shape(q)
    BY <2>2 DEF Idle, TaskType, Ops, Steps, OtherWaits, Shape, LoginSteps, DeleteSteps
  <2> QED
    BY <1>1, <2>1, <2>3, ContinueTyped
<1>3. CASE BeginRequest(t)
  <2>1. PICK sid \in issued, op \in {"request", "logout"} :
          Continue(t, [Idle EXCEPT !.op = op, !.step = "auth", !.sid = sid])
    BY <1>3 DEF BeginRequest
  <2> DEFINE q == [Idle EXCEPT !.op = op, !.step = "auth", !.sid = sid]
  <2>2. sid \in Sids
    BY DEF TypeOK
  <2>3. q \in TaskType /\ Shape(q)
    BY <2>2 DEF Idle, TaskType, Ops, Steps, OtherWaits, StoreSteps, Shape, LoginSteps, DeleteSteps
  <2> QED
    BY <1>1, <2>1, <2>3, ContinueTyped
<1>4. CASE BeginDeleteUser(t)
  <2>1. PICK u \in account :
          Continue(t, [Idle EXCEPT !.op = "delete_user", !.step = "remove_user", !.user = u])
    BY <1>4 DEF BeginDeleteUser
  <2> DEFINE q == [Idle EXCEPT !.op = "delete_user", !.step = "remove_user", !.user = u]
  <2>2. u \in Users
    BY DEF TypeOK
  <2>3. q \in TaskType /\ Shape(q)
    BY <2>2 DEF Idle, TaskType, Ops, Steps, OtherWaits, Shape, LoginSteps, DeleteSteps
  <2> QED
    BY <1>1, <2>1, <2>3, ContinueTyped
<1>5. CASE BeginClear(t)
  <2> DEFINE q == [Idle EXCEPT !.op = "clear", !.step = "sweep"]
  <2>1. q \in TaskType /\ Shape(q)
    BY DEF Idle, TaskType, Ops, Steps, OtherWaits, StoreSteps, Shape, LoginSteps, DeleteSteps, SweepReturns
  <2> QED
    BY <1>1, <1>5, <2>1, ContinueTyped DEF BeginClear
<1> QED
  BY <1>2, <1>3, <1>4, <1>5

\* Subroutine calls.
LEMMA CallDeleteTyped ==
  ASSUME TypeOK, Shapes, NEW t \in Tasks, NEW q \in TaskType, Shape(q), NEW sid \in Sids, NEW ret,
         CallDelete(t, q, sid, ret),
         \/ ret \in {"scan_next", "restore_next"} /\ q.op = "login"
         \/ ret = "sweep_next" /\ SweepReturns(q)
         \/ ret = "list_next" /\ q.op = "delete_user"
         \/ ret = "idle" /\ q.op \in {"request", "logout"}
  PROVE  TasksTyped'
<1> DEFINE r == [q EXCEPT !.step = "del_get", !.del = sid, !.ret = ret]
<1>1. ret \in Steps /\ "del_get" \in Steps
  BY DEF Steps, StoreSteps, OtherWaits, SyncSteps
<1>2. r \in TaskType
  BY <1>1 DEF TaskType
<1>3. /\ r.op = q.op /\ r.user = q.user /\ r.sid = q.sid /\ r.after = q.after
      /\ r.step = "del_get" /\ r.ret = ret /\ r.del = sid
  BY DEF TaskType
<1> HIDE DEF r
<1>4. DeleteReturns(r)
  BY <1>3 DEF DeleteReturns, SweepReturns
<1>5. Shape(r)
  BY <1>3, <1>4 DEF Shape, LoginSteps, DeleteSteps
<1> QED
  BY <1>2, <1>5, ContinueTyped DEF CallDelete, r

LEMMA ExpiryTyped ==
  ASSUME TypeOK
  PROVE  ExpiryTime \in Nat
BY SessionAssumption DEF TypeOK, ExpiryTime

LEMMA CallStoreTyped ==
  ASSUME TypeOK, Shapes, NEW t \in Tasks, CallStore(t), req[t].op = "login"
  PROVE  TasksTyped'
<1> DEFINE x == [sid |-> req[t].sid, user |-> req[t].user, expiry |-> ExpiryTime]
           r == [req[t] EXCEPT !.step = "store", !.adding = NoUser, !.todo = {x}]
<1>1. req[t] \in TaskType /\ Shape(req[t])
  BY TaskFields
<1>2. x \in Session
  BY <1>1, ExpiryTyped DEF Shape, Session
<1> HIDE DEF x
<1>3. "store" \in Steps /\ {x} \in SUBSET Session
  BY <1>2 DEF Steps, StoreSteps
<1>4. r \in TaskType
  BY <1>1, <1>3 DEF TaskType
<1>5. r.op = "login" /\ r.user = req[t].user /\ r.sid = req[t].sid /\ r.step = "store"
  BY <1>1 DEF TaskType
<1> HIDE DEF r
<1>6. Shape(r)
  BY <1>1, <1>5 DEF Shape, LoginSteps, DeleteSteps
<1> QED
  BY <1>4, <1>6, ContinueTyped DEF CallStore, r, x

\* The task goes on with the same operation at a step outside the subroutines.
LEMMA GoesOn ==
  ASSUME TypeOK, Shapes, NEW t \in Tasks, NEW r \in TaskType, Continue(t, r),
         r.op = req[t].op, r.user = req[t].user, r.sid = req[t].sid, r.after = req[t].after,
         \/ r.step \in LoginSteps /\ r.op = "login"
         \/ r.step = "handler" /\ r.op \in {"request", "logout"}
         \/ r.step \in {"removed", "list", "list_next"} /\ r.op = "delete_user"
         \/ r.step = "sweep_next" /\ SweepReturns(r)
         \/ r.step = "idle"
  PROVE  TasksTyped'
<1>1. Shape(req[t])
  BY TaskFields
<1>2. Shape(r)
  BY <1>1 DEF Shape, LoginSteps, DeleteSteps
<1> QED
  BY <1>2, ContinueTyped

LEMMA GotoTyped ==
  ASSUME TypeOK, Shapes, NEW t \in Tasks, NEW step \in Steps, Goto(t, step),
         \/ step \in LoginSteps /\ req[t].op = "login"
         \/ step = "handler" /\ req[t].op \in {"request", "logout"}
         \/ step \in {"removed", "list", "list_next"} /\ req[t].op = "delete_user"
         \/ step = "sweep_next" /\ SweepReturns(req[t])
         \/ step = "idle"
  PROVE  TasksTyped'
<1> DEFINE r == [req[t] EXCEPT !.step = step]
<1>1. req[t] \in TaskType
  BY TaskFields
<1>2. /\ r \in TaskType /\ r.op = req[t].op /\ r.user = req[t].user /\ r.sid = req[t].sid
      /\ r.after = req[t].after /\ r.step = step
  BY <1>1 DEF TaskType
<1> HIDE DEF r
<1>3. Continue(t, r)
  BY DEF Goto, r
<1>4. SweepReturns(req[t]) => SweepReturns(r)
  BY <1>2 DEF SweepReturns
<1> QED
  BY <1>2, <1>3, <1>4, GoesOn

\* The same, with new lists.
LEMMA ListsTyped ==
  ASSUME TypeOK, Shapes, NEW t \in Tasks, NEW step \in Steps, NEW todo \in SUBSET Session,
         Continue(t, [req[t] EXCEPT !.step = step, !.todo = todo]),
         \/ step \in LoginSteps /\ req[t].op = "login"
         \/ step \in {"removed", "list", "list_next"} /\ req[t].op = "delete_user"
         \/ step = "sweep_next" /\ SweepReturns(req[t])
  PROVE  TasksTyped'
<1> DEFINE r == [req[t] EXCEPT !.step = step, !.todo = todo]
<1>1. req[t] \in TaskType
  BY TaskFields
<1>2. /\ r \in TaskType /\ r.op = req[t].op /\ r.user = req[t].user /\ r.sid = req[t].sid
      /\ r.after = req[t].after /\ r.step = step
  BY <1>1 DEF TaskType
<1> HIDE DEF r
<1>3. Continue(t, r)
  BY DEF r
<1>4. SweepReturns(req[t]) => SweepReturns(r)
  BY <1>2 DEF SweepReturns
<1> QED
  BY <1>2, <1>3, <1>4, GoesOn

\* A session leaves one of the lists.
LEMMA LessTodo ==
  ASSUME TypeOK, Shapes, NEW t \in Tasks, NEW x
  PROVE  /\ [req[t] EXCEPT !.todo = @ \ {x}] \in TaskType
         /\ Shape([req[t] EXCEPT !.todo = @ \ {x}])
         /\ [req[t] EXCEPT !.todo = @ \ {x}].op = req[t].op
         /\ [req[t] EXCEPT !.todo = @ \ {x}].after = req[t].after
         /\ [req[t] EXCEPT !.todo = @ \ {x}].step = req[t].step
<1> DEFINE r == [req[t] EXCEPT !.todo = @ \ {x}]
<1>1. req[t] \in TaskType /\ Shape(req[t])
  BY TaskFields
<1>2. /\ r \in TaskType /\ r.op = req[t].op /\ r.user = req[t].user /\ r.sid = req[t].sid
      /\ r.after = req[t].after /\ r.step = req[t].step /\ r.ret = req[t].ret /\ r.del = req[t].del
      /\ r.victim = req[t].victim
  BY <1>1 DEF TaskType
<1> HIDE DEF r
<1>3. Shape(r)
  BY <1>1, <1>2 DEF Shape, SweepReturns, DeleteReturns
<1> QED
  BY <1>2, <1>3 DEF r

LEMMA LessOuter ==
  ASSUME TypeOK, Shapes, NEW t \in Tasks, NEW x
  PROVE  /\ [req[t] EXCEPT !.outer = @ \ {x}] \in TaskType
         /\ Shape([req[t] EXCEPT !.outer = @ \ {x}])
         /\ [req[t] EXCEPT !.outer = @ \ {x}].op = req[t].op
         /\ [req[t] EXCEPT !.outer = @ \ {x}].user = req[t].user
         /\ [req[t] EXCEPT !.outer = @ \ {x}].sid = req[t].sid
         /\ [req[t] EXCEPT !.outer = @ \ {x}].after = req[t].after
<1> DEFINE r == [req[t] EXCEPT !.outer = @ \ {x}]
<1>1. req[t] \in TaskType /\ Shape(req[t])
  BY TaskFields
<1>2. /\ r \in TaskType /\ r.op = req[t].op /\ r.user = req[t].user /\ r.sid = req[t].sid
      /\ r.after = req[t].after /\ r.step = req[t].step /\ r.ret = req[t].ret /\ r.del = req[t].del
      /\ r.victim = req[t].victim
  BY <1>1 DEF TaskType
<1> HIDE DEF r
<1>3. Shape(r)
  BY <1>1, <1>2 DEF Shape, SweepReturns, DeleteReturns
<1> QED
  BY <1>2, <1>3 DEF r

\* LoginService.login
LEMMA LoginTyped ==
  ASSUME TypeOK, Shapes, NEW t \in Tasks,
         GetUser(t) \/ Authenticate(t) \/ Scan(t) \/ ScanNext(t) \/ Refresh(t) \/ Store(t)
  PROVE  DataTypes' /\ TasksTyped'
<1>0. req[t] \in TaskType /\ Shape(req[t])
  BY TaskFields
<1>1. CASE GetUser(t)
  <2>1. DataTypes'
    BY <1>1 DEF GetUser, TypeOK, DataTypes, stores, counters, history
  <2>2. req[t].op = "login" /\ "known" \in Steps /\ "known" \in LoginSteps
    BY <1>0, <1>1 DEF GetUser, At, Shape, LoginSteps, Steps, OtherWaits
  <2> QED
    BY <1>1, <2>1, <2>2, GotoTyped, EndTyped DEF GetUser
<1>6. CASE Authenticate(t)
  <2>1. DataTypes'
    BY <1>6 DEF Authenticate, TypeOK, DataTypes, stores, counters, history
  <2>2. req[t].op = "login" /\ "scan" \in Steps /\ "scan" \in LoginSteps
    BY <1>0, <1>6 DEF Authenticate, At, Shape, LoginSteps, Steps, StoreSteps
  <2> QED
    BY <1>6, <2>1, <2>2, GotoTyped DEF Authenticate
<1>2. CASE Scan(t)
  <2>1. DataTypes'
    BY <1>2 DEF Scan, TypeOK, DataTypes, stores, counters, history
  <2>2. req[t].op = "login" /\ "scan_next" \in Steps /\ "scan_next" \in LoginSteps
    BY <1>0, <1>2 DEF Scan, At, Shape, LoginSteps, Steps, SyncSteps
  <2>3. {x \in sessions : x.user = req[t].user} \in SUBSET Session
    BY DEF TypeOK
  <2> QED
    BY <1>2, <2>1, <2>2, <2>3, ListsTyped DEF Scan
<1>3. CASE ScanNext(t)
  <2>1. DataTypes'
    BY <1>3 DEF ScanNext, TypeOK, DataTypes, stores, counters, history
  <2>2. /\ req[t].op = "login" /\ "add" \in Steps /\ "refresh" \in Steps
        /\ "add" \in LoginSteps /\ "refresh" \in LoginSteps
    BY <1>0, <1>3 DEF ScanNext, At, Shape, LoginSteps, Steps, SyncSteps, StoreSteps
  <2>3. CASE Goto(t, "add")
    BY <2>1, <2>2, <2>3, GotoTyped
  <2>4. ASSUME NEW x \in req[t].todo,
               CallDelete(t, [req[t] EXCEPT !.todo = @ \ {x}], x.sid, "scan_next")
        PROVE  TasksTyped'
    <3>1. x.sid \in Sids
      BY <1>0 DEF TaskType, Session
    <3> QED
      BY <2>2, <2>4, <3>1, LessTodo, CallDeleteTyped
  <2>5. ASSUME NEW x \in req[t].todo,
               Continue(t, [req[t] EXCEPT !.step = "refresh",
                                          !.todo = {[x EXCEPT !.expiry = ExpiryTime]}])
        PROVE  TasksTyped'
    <3>1. x \in Session
      BY <1>0 DEF TaskType
    <3>2. {[x EXCEPT !.expiry = ExpiryTime]} \in SUBSET Session
      BY <3>1, ExpiryTyped DEF Session
    <3> QED
      BY <2>2, <2>5, <3>2, ListsTyped
  <2> QED
    BY <1>3, <2>1, <2>3, <2>4, <2>5 DEF ScanNext
<1>4. CASE Refresh(t)
  <2>1. TasksTyped'
    BY <1>4, EndTyped DEF Refresh
  <2>2. sessions' \in SUBSET Session
    BY <1>0, <1>4 DEF Refresh, Put, TypeOK, TaskType
  <2> QED
    BY <1>4, <2>1, <2>2 DEF Refresh, TypeOK, DataTypes, counters, history
<1>5. CASE Store(t)
  <2>1. TasksTyped'
    BY <1>5, EndTyped DEF Store
  <2>2. PICK x \in req[t].todo : Put(x) /\ issued' = issued \cup {x.sid}
    BY <1>5 DEF Store
  <2>3. x \in Session /\ x.sid \in Sids
    BY <1>0 DEF TaskType, Session
  <2>4. sessions' \in SUBSET Session /\ issued' \in SUBSET Sids
    BY <2>2, <2>3 DEF Put, TypeOK
  <2> QED
    BY <1>5, <2>1, <2>4 DEF Store, TypeOK, DataTypes, counters
<1> QED
  BY <1>1, <1>2, <1>3, <1>4, <1>5, <1>6

LEMMA DecrementedTyped ==
  ASSUME TypeOK, NEW u \in Users
  PROVE  /\ Decremented(u) \in [Users -> Nat]
         /\ \A v \in Users : Decremented(u)[v] <= activeUsers[v]
BY DEF TypeOK, Decremented

\* What _add_active_user_with_quota does first, by quota and restored.
LEMMA AddSteps ==
  ASSUME TypeOK, NEW t \in Tasks, Add(t)
  PROVE  \/ ActiveUsersQuota <= 0 /\ CallStore(t) /\ restored' = restored
         \/ ActiveUsersQuota > 0 /\ ~restored /\ restored' = TRUE /\ Goto(t, "restore")
         \/ ActiveUsersQuota > 0 /\ restored /\ Goto(t, "admit") /\ restored' = restored
<1>1. (ActiveUsersQuota <= 0) \/ (ActiveUsersQuota > 0)
  BY SessionAssumption
<1>2. ~(ActiveUsersQuota <= 0 /\ ActiveUsersQuota > 0)
  BY SessionAssumption
<1>3. restored \in BOOLEAN
  BY DEF TypeOK
<1>4. CASE ActiveUsersQuota <= 0
  BY <1>2, <1>4, Zenon DEF Add
<1>5. CASE ActiveUsersQuota > 0 /\ ~restored
  BY <1>2, <1>3, <1>5, Zenon DEF Add
<1>6. CASE ActiveUsersQuota > 0 /\ restored
  BY <1>2, <1>3, <1>6, Zenon DEF Add
<1> QED
  BY <1>1, <1>3, <1>4, <1>5, <1>6, Zenon

\* QuotaSessionManager._add_active_user_with_quota and _restore_active_users
LEMMA QuotaTyped ==
  ASSUME TypeOK, Shapes, NEW t \in Tasks,
         Add(t) \/ Restore(t) \/ RestoreNext(t) \/ Admit(t) \/ Recheck(t)
  PROVE  DataTypes' /\ TasksTyped'
<1>0. req[t] \in TaskType /\ Shape(req[t])
  BY TaskFields
<1>1. req[t].op = "login"
  BY <1>0 DEF Add, Restore, RestoreNext, Admit, Recheck, At, Shape, LoginSteps
<1>2. /\ {"restore", "restore_next", "admit", "recheck"} \subseteq Steps \cap LoginSteps
      /\ "sweep" \in Steps /\ "recheck" \in Steps
  BY DEF LoginSteps, Steps, SyncSteps, StoreSteps
<1>3. CASE Add(t)
  <2>0. \/ CallStore(t) /\ restored' = restored
        \/ restored' = TRUE /\ Goto(t, "restore")
        \/ Goto(t, "admit") /\ restored' = restored
    BY <1>3, AddSteps
  <2>1. DataTypes'
    BY <1>3, <2>0 DEF Add, TypeOK, DataTypes, stores, history
  <2>2. CallStore(t) \/ Goto(t, "restore") \/ Goto(t, "admit")
    BY <2>0
  <2> QED
    BY <1>1, <1>2, <2>1, <2>2, CallStoreTyped, GotoTyped
<1>4. CASE Restore(t)
  <2>1. DataTypes'
    BY <1>4 DEF Restore, TypeOK, DataTypes, stores, counters, history
  <2> DEFINE r == [req[t] EXCEPT !.step = "restore_next", !.outer = sessions]
  <2>2. /\ r \in TaskType /\ r.op = req[t].op /\ r.user = req[t].user /\ r.sid = req[t].sid
        /\ r.after = req[t].after /\ r.step = "restore_next"
    BY <1>0, <1>2 DEF TaskType, TypeOK
  <2> QED
    BY <1>1, <1>2, <1>4, <2>1, <2>2, GoesOn DEF Restore
<1>5. CASE RestoreNext(t)
  <2>1. DataTypes'
    BY <1>5 DEF RestoreNext, TypeOK, DataTypes, stores, counters, history
  <2>2. ASSUME Continue(t, [req[t] EXCEPT !.step = "admit", !.adding = NoUser])
        PROVE  TasksTyped'
    <3> DEFINE r == [req[t] EXCEPT !.step = "admit", !.adding = NoUser]
    <3>1. /\ r \in TaskType /\ r.op = req[t].op /\ r.user = req[t].user /\ r.sid = req[t].sid
          /\ r.after = req[t].after /\ r.step = "admit"
      BY <1>0, <1>2 DEF TaskType
    <3> QED
      BY <1>1, <1>2, <2>2, <3>1, GoesOn
  <2>3. ASSUME NEW x \in req[t].outer,
               CallDelete(t, [req[t] EXCEPT !.outer = @ \ {x}], x.sid, "restore_next")
        PROVE  TasksTyped'
    <3>1. x.sid \in Sids
      BY <1>0 DEF TaskType, Session
    <3> QED
      BY <1>1, <2>3, <3>1, LessOuter, CallDeleteTyped
  <2>4. ASSUME NEW x \in req[t].outer, NEW q,
               q = [req[t] EXCEPT !.outer = @ \ {x}],
               Continue(t, [q EXCEPT !.step = "admit", !.adding = x.user])
        PROVE  TasksTyped'
    <3> DEFINE r == [q EXCEPT !.step = "admit", !.adding = x.user]
    <3>1. x.user \in Users
      BY <1>0 DEF TaskType, Session
    <3>2. /\ q \in TaskType /\ q.op = req[t].op /\ q.user = req[t].user
          /\ q.sid = req[t].sid /\ q.after = req[t].after
      BY <2>4, LessOuter
    <3>3. /\ r \in TaskType /\ r.op = req[t].op /\ r.user = req[t].user /\ r.sid = req[t].sid
          /\ r.after = req[t].after /\ r.step = "admit"
      BY <1>2, <3>1, <3>2 DEF TaskType
    <3> QED
      BY <1>1, <1>2, <2>4, <3>3, GoesOn
  <2> QED
    BY <1>5, <2>1, <2>2, <2>3, <2>4 DEF RestoreNext
<1>6. CASE Admit(t)
  <2>1. DataTypes'
    BY <1>6 DEF Admit, TypeOK, DataTypes, stores, counters, history
  <2>2. ASSUME Continue(t, [req[t] EXCEPT !.step = "sweep", !.after = "recheck"])
        PROVE  TasksTyped'
    <3> DEFINE r == [req[t] EXCEPT !.step = "sweep", !.after = "recheck"]
    <3>1. /\ r \in TaskType /\ r.op = "login" /\ r.user = req[t].user /\ r.sid = req[t].sid
          /\ r.after = "recheck" /\ r.step = "sweep"
      BY <1>0, <1>1, <1>2 DEF TaskType
    <3> HIDE DEF r
    <3>2. Shape(r)
      BY <1>0, <1>1, <3>1 DEF Shape, LoginSteps, DeleteSteps, SweepReturns
    <3> QED
      BY <2>2, <3>1, <3>2, ContinueTyped DEF r
  <2> QED
    BY <1>1, <1>2, <1>6, <2>1, <2>2, GotoTyped DEF Admit
<1>7. CASE Recheck(t)
  <2> DEFINE nested == req[t].adding # NoUser
             u == IF nested THEN req[t].adding ELSE req[t].user
  <2>1. u \in Users
    BY <1>0, <1>1 DEF TaskType, Shape
  <2>2. /\ activeUsers' = IF QuotaFull(u) THEN activeUsers ELSE [activeUsers EXCEPT ![u] = @ + 1]
        /\ Goto(t, "restore_next") \/ Raise(t) \/ CallStore(t)
    BY <1>7 DEF Recheck
  <2> HIDE DEF u, nested
  <2>3. activeUsers' \in [Users -> Nat]
    BY <2>1, <2>2 DEF TypeOK
  <2>4. DataTypes'
    BY <1>7, <2>3 DEF Recheck, TypeOK, DataTypes, stores, history
  <2>5. TasksTyped'
    BY <1>1, <1>2, <2>2, GotoTyped, EndTyped, CallStoreTyped
  <2> QED
    BY <2>4, <2>5
<1> QED
  BY <1>3, <1>4, <1>5, <1>6, <1>7

\* QuotaSessionManager._remove_expired_sessions and delete
LEMMA DeleteTyped ==
  ASSUME TypeOK, Shapes, NEW t \in Tasks,
         Sweep(t) \/ SweepNext(t) \/ DeleteGet(t) \/ DeleteRemove(t)
  PROVE  DataTypes' /\ TasksTyped'
<1>0. req[t] \in TaskType /\ Shape(req[t])
  BY TaskFields
<1>1. CASE Sweep(t)
  <2>1. DataTypes'
    BY <1>1 DEF Sweep, TypeOK, DataTypes, stores, counters, history
  <2>2. SweepReturns(req[t]) /\ "sweep_next" \in Steps /\ sessions \in SUBSET Session
    BY <1>0, <1>1 DEF Sweep, At, Shape, Steps, SyncSteps, TypeOK
  <2> QED
    BY <1>1, <2>1, <2>2, ListsTyped DEF Sweep
<1>2. CASE SweepNext(t)
  <2>1. DataTypes'
    BY <1>2 DEF SweepNext, TypeOK, DataTypes, stores, counters, history
  <2>2. SweepReturns(req[t]) /\ req[t].step = "sweep_next"
    BY <1>0, <1>2 DEF SweepNext, At, Shape
  <2>3. CASE Goto(t, req[t].after)
    <3>1. /\ req[t].after \in Steps
          /\ req[t].after = "idle" \/ (req[t].after \in LoginSteps /\ req[t].op = "login")
      BY <1>0, <2>2 DEF SweepReturns, TaskType, LoginSteps
    <3> QED
      BY <2>1, <2>3, <3>1, GotoTyped
  <2>4. ASSUME NEW x \in req[t].todo,
               CallDelete(t, [req[t] EXCEPT !.todo = @ \ {x}], x.sid, "sweep_next")
        PROVE  TasksTyped'
    <3>1. x.sid \in Sids
      BY <1>0 DEF TaskType, Session
    <3>2. SweepReturns([req[t] EXCEPT !.todo = @ \ {x}])
      BY <2>2, LessTodo DEF SweepReturns
    <3> QED
      BY <2>4, <3>1, <3>2, LessTodo, CallDeleteTyped
  <2>5. ASSUME NEW x \in req[t].todo, Continue(t, [req[t] EXCEPT !.todo = @ \ {x}])
        PROVE  TasksTyped'
    BY <2>5, LessTodo, ContinueTyped
  <2> QED
    BY <1>2, <2>1, <2>3, <2>4, <2>5 DEF SweepNext
<1>3. CASE DeleteGet(t)
  <2>1. DataTypes'
    BY <1>3 DEF DeleteGet, TypeOK, DataTypes, stores, counters, history
  <2>2. ASSUME NEW x \in Lookup(req[t].del),
               Continue(t, [req[t] EXCEPT !.step = "del_rm", !.victim = x.user])
        PROVE  TasksTyped'
    <3> DEFINE r == [req[t] EXCEPT !.step = "del_rm", !.victim = x.user]
    <3>1. x.user \in Users /\ "del_rm" \in Steps
      BY DEF Lookup, TypeOK, Session, Steps, StoreSteps
    <3>2. /\ r \in TaskType /\ r.op = req[t].op /\ r.user = req[t].user /\ r.sid = req[t].sid
          /\ r.after = req[t].after /\ r.step = "del_rm" /\ r.ret = req[t].ret /\ r.del = req[t].del
          /\ r.victim = x.user
      BY <1>0, <3>1 DEF TaskType
    <3> HIDE DEF r
    <3>3. DeleteReturns(req[t]) /\ req[t].del \in Sids
      BY <1>0, <1>3 DEF DeleteGet, At, Shape, DeleteSteps
    <3>4. Shape(r)
      BY <1>0, <3>1, <3>2, <3>3 DEF Shape, LoginSteps, DeleteSteps, DeleteReturns, SweepReturns
    <3> QED
      BY <2>2, <3>2, <3>4, ContinueTyped DEF r
  <2> QED
    BY <1>3, <2>1, <2>2, EndTyped DEF DeleteGet
<1>4. CASE DeleteRemove(t)
  <2>1. DeleteReturns(req[t]) /\ req[t].victim \in Users
    BY <1>0, <1>4 DEF DeleteRemove, At, Shape, DeleteSteps
  <2>2. activeUsers' \in [Users -> Nat]
    BY <1>4, <2>1, DecrementedTyped DEF DeleteRemove
  <2>3. loggedOut' \in SUBSET Sids
    BY <1>0, <1>4 DEF DeleteRemove, Shape, TypeOK
  <2>4. DataTypes'
    BY <1>4, <2>2, <2>3 DEF DeleteRemove, TypeOK, DataTypes
  <2>5. CASE req[t].ret # "idle"
    <3> DEFINE r == [req[t] EXCEPT !.step = req[t].ret, !.del = NoSid, !.victim = NoUser]
    <3>1. /\ r \in TaskType /\ r.op = req[t].op /\ r.user = req[t].user /\ r.sid = req[t].sid
          /\ r.after = req[t].after /\ r.step = req[t].ret
      BY <1>0 DEF TaskType
    <3>2. Continue(t, r)
      BY <1>4, <2>5 DEF DeleteRemove
    <3> HIDE DEF r
    <3>3. \/ r.step \in LoginSteps /\ r.op = "login"
          \/ r.step = "list_next" /\ r.op = "delete_user"
          \/ r.step = "sweep_next" /\ SweepReturns(r)
      BY <2>1, <2>5, <3>1 DEF DeleteReturns, SweepReturns, LoginSteps
    <3> QED
      BY <2>4, <3>1, <3>2, <3>3, GoesOn
  <2> QED
    BY <1>4, <2>4, <2>5, EndTyped DEF DeleteRemove
<1> QED
  BY <1>1, <1>2, <1>3, <1>4

\* auth_session and the handler; the deletion of a user.
LEMMA RequestTyped ==
  ASSUME TypeOK, Shapes, NEW t \in Tasks,
         Auth(t) \/ Handler(t) \/ RemoveUser(t) \/ DeleteSessions(t) \/ List(t) \/ ListNext(t)
  PROVE  DataTypes' /\ TasksTyped'
<1>0. req[t] \in TaskType /\ Shape(req[t])
  BY TaskFields
<1>1. CASE Auth(t)
  <2>1. req[t].op \in {"request", "logout"} /\ req[t].sid \in Sids /\ "handler" \in Steps
    BY <1>0, <1>1 DEF Auth, At, Shape, Steps, OtherWaits
  <2>2. ASSUME NEW x \in Lookup(req[t].sid)
        PROVE  x \in Session /\ x.sid \in Sids /\ Refreshed(x) \in SUBSET Session
    <3>1. x \in Session
      BY DEF Lookup, TypeOK
    <3>2. [x EXCEPT !.expiry = ExpiryTime] \in Session /\ x.sid \in Sids
      BY <3>1, ExpiryTyped DEF Session
    <3> QED
      BY <3>1, <3>2 DEF Refreshed, TypeOK
  <2>3. sessions' \in SUBSET Session
    BY <1>1, <2>2 DEF Auth, TypeOK
  <2>4. DataTypes'
    BY <1>1, <2>3 DEF Auth, TypeOK, DataTypes, counters, history
  <2> DEFINE r == [req[t] EXCEPT !.op = "request"]
  <2>5. /\ r \in TaskType /\ r.op = "request" /\ r.user = req[t].user /\ r.sid = req[t].sid
        /\ r.after = req[t].after /\ r.step = "auth"
    BY <1>0, <1>1 DEF TaskType, Auth, At, Ops
  <2> HIDE DEF r
  <2>6. Shape(r)
    BY <2>1, <2>5 DEF Shape, LoginSteps, DeleteSteps
  <2>7. ASSUME NEW x \in Lookup(req[t].sid),
               CallDelete(t, r, x.sid, "idle") \/ CallDelete(t, req[t], x.sid, "idle")
        PROVE  TasksTyped'
    BY <1>0, <2>1, <2>2, <2>5, <2>6, <2>7, CallDeleteTyped
  <2>8. \/ End(t) \/ Goto(t, "handler")
        \/ \E x \in Lookup(req[t].sid) :
             CallDelete(t, r, x.sid, "idle") \/ CallDelete(t, req[t], x.sid, "idle")
    BY <1>1 DEF Auth, r
  <2> QED
    BY <2>1, <2>4, <2>7, <2>8, EndTyped, GotoTyped
<1>2. CASE Handler(t)
  BY <1>2, EndTyped DEF Handler, TypeOK, DataTypes, stores, counters, history
<1>3. CASE RemoveUser(t)
  <2>1. DataTypes'
    BY <1>3 DEF RemoveUser, TypeOK, DataTypes, counters, history
  <2>2. req[t].op = "delete_user" /\ "removed" \in Steps
    BY <1>0, <1>3 DEF RemoveUser, At, Shape, Steps, OtherWaits
  <2> QED
    BY <1>3, <2>1, <2>2, GotoTyped DEF RemoveUser
<1>6. CASE DeleteSessions(t)
  <2>1. DataTypes'
    BY <1>6 DEF DeleteSessions, TypeOK, DataTypes, stores, counters, history
  <2>2. req[t].op = "delete_user" /\ "list" \in Steps
    BY <1>0, <1>6 DEF DeleteSessions, At, Shape, Steps, StoreSteps
  <2> QED
    BY <1>6, <2>1, <2>2, GotoTyped DEF DeleteSessions
<1>4. CASE List(t)
  <2>1. DataTypes'
    BY <1>4 DEF List, TypeOK, DataTypes, stores, counters, history
  <2>2. req[t].op = "delete_user" /\ "list_next" \in Steps
    BY <1>0, <1>4 DEF List, At, Shape, Steps, SyncSteps
  <2>3. {x \in sessions : x.user = req[t].user} \in SUBSET Session
    BY DEF TypeOK
  <2> QED
    BY <1>4, <2>1, <2>2, <2>3, ListsTyped DEF List
<1>5. CASE ListNext(t)
  <2>1. req[t].op = "delete_user" /\ req[t].user \in Users
    BY <1>0, <1>5 DEF ListNext, At, Shape
  <2>4. LoginsBehind(req[t].user) \in SUBSET Sids
    BY TaskFields DEF LoginsBehind, Busy, Shape
  <2>2. DataTypes'
    BY <1>5, <2>1, <2>4 DEF ListNext, TypeOK, DataTypes, stores, counters
  <2>3. ASSUME NEW x \in req[t].todo,
               CallDelete(t, [req[t] EXCEPT !.todo = @ \ {x}], x.sid, "list_next")
        PROVE  TasksTyped'
    <3>1. x.sid \in Sids
      BY <1>0 DEF TaskType, Session
    <3> QED
      BY <2>1, <2>3, <3>1, LessTodo, CallDeleteTyped
  <2> QED
    BY <1>5, <2>2, <2>3, EndTyped DEF ListNext
<1> QED
  BY <1>1, <1>2, <1>3, <1>4, <1>5, <1>6

\* Failed and cancelled tasks, a restart of the agent, the clock.
LEMMA FailTyped ==
  ASSUME TypeOK, Shapes, NEW t \in Tasks, Fail(t)
  PROVE  DataTypes' /\ TasksTyped'
<1>0. req[t] \in TaskType /\ Shape(req[t])
  BY TaskFields
<1>1. CASE Abort(t)
  BY <1>1, EndTyped DEF Abort, TypeOK, DataTypes, stores, counters, history
<1>2. CASE AbortLate(t)
  <2>1. TasksTyped'
    BY <1>2, EndTyped DEF AbortLate
  <2>2. ASSUME NEW x \in req[t].todo, Put(x) /\ issued' = issued \cup {x.sid}
        PROVE  sessions' \in SUBSET Session /\ issued' \in SUBSET Sids
    <3>1. x \in Session /\ x.sid \in Sids
      BY <1>0 DEF TaskType, Session
    <3> QED
      BY <2>2, <3>1 DEF Put, TypeOK
  <2>3. sessions' \in SUBSET Session /\ issued' \in SUBSET Sids
    BY <1>2, <2>2 DEF AbortLate, TypeOK
  <2> QED
    BY <1>2, <2>1, <2>3 DEF AbortLate, TypeOK, DataTypes, counters
<1> QED
  BY <1>1, <1>2 DEF Fail

LEMMA RestartTyped ==
  ASSUME TypeOK, Shapes, Restart \/ Tick \/ \E u \in Users : CreateUser(u)
  PROVE  DataTypes' /\ TasksTyped'
<1>1. CASE Restart
  BY <1>1, IdleTyped DEF Restart, TypeOK, DataTypes, TasksTyped, Shapes, history
<1>2. CASE Tick
  BY <1>2 DEF Tick, TypeOK, DataTypes, TasksTyped, Shapes, stores, counters, history
<1>3. CASE \E u \in Users : CreateUser(u)
  BY <1>3 DEF CreateUser, TypeOK, DataTypes, TasksTyped, Shapes, counters
<1> QED
  BY <1>1, <1>2, <1>3

\* Who makes a step.
LEMMA NextCases ==
  ASSUME Next
  PROVE  \/ \E t \in Tasks : /\ BeginLogin(t) \/ BeginRequest(t) \/ BeginDeleteUser(t) \/ BeginClear(t)
                             /\ Overlapping
         \/ \E t \in Tasks : Step(t) /\ Overlapping
         \/ Restart /\ Overlapping
         \/ Tick /\ Overlapping
         \/ \E u \in Users : CreateUser(u)
         \/ \E t \in Tasks : Fail(t) /\ disturbed' = TRUE
BY DEF Next, Begin, Tasks

LEMMA StepTyped ==
  ASSUME TypeOK, Shapes, NEW t \in Tasks, Step(t)
  PROVE  DataTypes' /\ TasksTyped'
BY LoginTyped, QuotaTyped, DeleteTyped, RequestTyped DEF Step

\* The type invariant is inductive together with the control flow: DeleteRemove
\* may return to whatever step it finds only because it finds a caller's.
LEMMA TypesStep ==
  ASSUME TypeOK, Shapes, [Next]_vars
  PROVE  TypeOK' /\ Shapes'
<1>1. CASE Next
  <2>1. DataTypes' /\ TasksTyped'
    BY <1>1, NextCases, BeginTyped, StepTyped, RestartTyped, FailTyped
  <2>2. disturbed' \in BOOLEAN
    <3>1. CASE Overlapping
      BY <3>1, Zenon DEF Overlapping
    <3>2. CASE \E u \in Users : CreateUser(u)
      BY <3>2, Zenon DEF CreateUser
    <3> QED
      BY <1>1, <3>1, <3>2 DEF Next
  <2> QED
    BY <2>1, <2>2 DEF TypeOK, DataTypes, TasksTyped
<1>2. CASE UNCHANGED vars
  BY <1>2 DEF vars, TypeOK, Shapes
<1> QED
  BY <1>1, <1>2

LEMMA TypesInit ==
  ASSUME Init
  PROVE  TypeOK /\ Shapes
BY IdleTyped DEF Init, TypeOK, Shapes

LEMMA TypesInvariant == Spec => [](TypeOK /\ Shapes)
<1>1. Init => TypeOK /\ Shapes
  BY TypesInit
<1>2. TypeOK /\ Shapes /\ [Next]_vars => (TypeOK /\ Shapes)'
  BY TypesStep
<1> QED
  BY <1>1, <1>2, PTL DEF Spec

\* Type correctness: through every interleaving of logins, requests, deletions
\* and sweeps, whatever fails or restarts, counters stay natural numbers and no
\* task reaches QuotaSessionManager.delete without a session id and a caller.
THEOREM TypeCorrect == Spec => []TypeOK
BY TypesInvariant, PTL

-----------------------------------------------------------------------------
(***************************************************************************)
(* The quota on counted users.                                             *)
(***************************************************************************)
LEMMA ActiveUsersFinite == IsFiniteSet(ActiveUsers) /\ Cardinality(ActiveUsers) \in Nat
<1>1. ActiveUsers \subseteq Users /\ IsFiniteSet(Users)
  BY SessionAssumption DEF ActiveUsers
<1>2. IsFiniteSet(ActiveUsers)
  BY <1>1, FS_Subset
<1> QED
  BY <1>2, FS_CardinalityType

\* The steps that touch the counters.
LEMMA CounterSteps ==
  ASSUME TypeOK, Next
  PROVE  \/ activeUsers' = activeUsers
         \/ \E t \in Tasks : Recheck(t) \/ DeleteRemove(t)
         \/ activeUsers' = [u \in Users |-> 0]
<1>1. ASSUME NEW t \in Tasks,
             BeginLogin(t) \/ BeginRequest(t) \/ BeginDeleteUser(t) \/ BeginClear(t) \/ Fail(t)
      PROVE  activeUsers' = activeUsers
  BY <1>1 DEF BeginLogin, BeginRequest, BeginDeleteUser, BeginClear, Fail, Abort, AbortLate, counters
<1>2. ASSUME NEW t \in Tasks, Step(t), ~Recheck(t), ~DeleteRemove(t)
      PROVE  activeUsers' = activeUsers
  BY <1>2 DEF Step, GetUser, Authenticate, Scan, ScanNext, Refresh, Store, Add, Restore, RestoreNext, Admit,
              Sweep, SweepNext, DeleteGet, Auth, Handler, RemoveUser, DeleteSessions, List,
              ListNext, counters
<1>3. Restart => activeUsers' = [u \in Users |-> 0]
  BY DEF Restart
<1>4. Tick \/ (\E u \in Users : CreateUser(u)) => activeUsers' = activeUsers
  BY DEF Tick, CreateUser, counters
<1> QED
  BY <1>1, <1>2, <1>3, <1>4, NextCases

LEMMA FewerActiveUsers ==
  ASSUME ActiveUsers' \subseteq ActiveUsers
  PROVE  Cardinality(ActiveUsers') <= Cardinality(ActiveUsers)
BY ActiveUsersFinite, FS_Subset

LEMMA CountedStep ==
  ASSUME TypeOK, Shapes, TypeOK', CountedUsersWithinQuota, [Next]_vars
  PROVE  CountedUsersWithinQuota'
<1> SUFFICES ASSUME ActiveUsersQuota > 0
             PROVE  Cardinality(ActiveUsers') <= ActiveUsersQuota
  BY DEF CountedUsersWithinQuota
<1>0. Cardinality(ActiveUsers) \in Nat /\ ActiveUsersQuota \in Int /\ Cardinality(ActiveUsers) <= ActiveUsersQuota
  BY ActiveUsersFinite, SessionAssumption DEF CountedUsersWithinQuota
<1>1. ASSUME ActiveUsers' \subseteq ActiveUsers
      PROVE  Cardinality(ActiveUsers') <= ActiveUsersQuota
  <2>1. Cardinality(ActiveUsers') <= Cardinality(ActiveUsers)
    BY <1>1, FewerActiveUsers
  <2>2. Cardinality(ActiveUsers') \in Nat
    BY <1>1, ActiveUsersFinite, FS_Subset, FS_CardinalityType
  <2> QED
    BY <1>0, <2>1, <2>2
<1>2. CASE activeUsers' = activeUsers
  BY <1>1, <1>2 DEF ActiveUsers
<1>3. CASE activeUsers' = [u \in Users |-> 0]
  BY <1>1, <1>3 DEF ActiveUsers
<1>4. ASSUME NEW t \in Tasks, DeleteRemove(t)
      PROVE  ActiveUsers' \subseteq ActiveUsers
  <2>1. req[t].victim \in Users
    BY <1>4, TaskFields DEF DeleteRemove, At, Shape
  <2>2. activeUsers' = Decremented(req[t].victim)
    BY <1>4 DEF DeleteRemove
  <2>3. \A v \in Users : activeUsers'[v] <= activeUsers[v] /\ activeUsers'[v] \in Nat /\ activeUsers[v] \in Nat
    BY <2>1, <2>2, DecrementedTyped DEF TypeOK
  <2> QED
    BY <2>3 DEF ActiveUsers
<1>5. ASSUME NEW t \in Tasks, Recheck(t)
      PROVE  Cardinality(ActiveUsers') <= ActiveUsersQuota
  <2> DEFINE nested == req[t].adding # NoUser
             u == IF nested THEN req[t].adding ELSE req[t].user
  <2>1. u \in Users
    BY <1>5, TaskFields DEF Recheck, At, Shape, LoginSteps, TaskType
  <2>2. activeUsers' = IF QuotaFull(u) THEN activeUsers ELSE [activeUsers EXCEPT ![u] = @ + 1]
    BY <1>5 DEF Recheck
  <2> HIDE DEF u, nested
  <2>3. CASE QuotaFull(u)
    BY <1>2, <2>2, <2>3
  <2>4. CASE ~QuotaFull(u)
    <3>1. ActiveUsers' = ActiveUsers \cup {u}
      BY <2>1, <2>2, <2>4 DEF ActiveUsers, TypeOK
    <3>2. CASE u \in ActiveUsers
      BY <1>1, <3>1, <3>2
    <3>3. CASE u \notin ActiveUsers
      <4>1. activeUsers[u] = 0
        BY <2>1, <3>3 DEF ActiveUsers, TypeOK
      <4>2. Cardinality(ActiveUsers) < ActiveUsersQuota
        BY <1>0, <2>4, <4>1 DEF QuotaFull
      <4>3. Cardinality(ActiveUsers') = Cardinality(ActiveUsers) + 1
        BY <3>1, <3>3, ActiveUsersFinite, FS_AddElement
      <4> QED
        BY <1>0, <4>2, <4>3
    <3> QED
      BY <3>2, <3>3
  <2> QED
    BY <2>3, <2>4
<1>6. CASE UNCHANGED vars
  BY <1>2, <1>6 DEF vars
<1> QED
  BY <1>1, <1>2, <1>3, <1>4, <1>5, <1>6, CounterSteps

LEMMA CountedInit ==
  ASSUME Init
  PROVE  CountedUsersWithinQuota
<1>1. ActiveUsers = {}
  BY DEF Init, ActiveUsers
<1>2. Cardinality(ActiveUsers) = 0
  BY <1>1, FS_EmptySet
<1> QED
  BY <1>2, SessionAssumption DEF CountedUsersWithinQuota

\* The check of _add_active_user_with_quota and its increment are not torn
\* apart: the agent never counts more users than active_users_quota, for any
\* number of concurrent logins, restores and sweeps and any failure of theirs.
THEOREM QuotaOfCounted == Spec => []CountedUsersWithinQuota
<1>1. Init => CountedUsersWithinQuota
  BY CountedInit
<1>2. TypeOK /\ Shapes /\ (TypeOK /\ Shapes)' /\ CountedUsersWithinQuota /\ [Next]_vars
        => CountedUsersWithinQuota'
  BY CountedStep
<1> QED
  BY <1>1, <1>2, TypesInvariant, PTL DEF Spec

-----------------------------------------------------------------------------
(***************************************************************************)
(* What a step does to the tasks: it moves the one that acts.              *)
(***************************************************************************)
Begins(t) == BeginLogin(t) \/ BeginRequest(t) \/ BeginDeleteUser(t) \/ BeginClear(t)
Acts(t) == Begins(t) \/ Step(t) \/ Fail(t)

Moves(t) ==
  /\ \A t2 \in Tasks : t2 # t => req'[t2] = req[t2]
  /\ turn' = IF Suspends(req'[t].step) THEN {} ELSE {t}

LEMMA ContinueMoves ==
  ASSUME TypeOK, NEW t \in Tasks, NEW q, Continue(t, q)
  PROVE  Moves(t) /\ req'[t] = q
BY DEF TypeOK, Continue, Moves

LEMMA CallsMove ==
  ASSUME TypeOK, NEW t \in Tasks,
         \/ End(t) \/ Raise(t) \/ CallStore(t)
         \/ \E step \in Steps : Goto(t, step)
         \/ \E q, sid, ret : CallDelete(t, q, sid, ret)
  PROVE  Moves(t)
BY ContinueMoves DEF End, Raise, CallStore, Goto, CallDelete

LEMMA BeginMoves ==
  ASSUME TypeOK, NEW t \in Tasks, Begins(t)
  PROVE  Moves(t) /\ turn \subseteq {t} /\ req[t].step = "idle" /\ Cardinality(Busy) < MaxActive
<1>1. turn \subseteq {t} /\ req[t].step = "idle" /\ Cardinality(Busy) < MaxActive
  BY DEF Begins, BeginLogin, BeginRequest, BeginDeleteUser, BeginClear, MayBegin, At
<1>2. CASE BeginLogin(t)
  BY <1>1, <1>2, ContinueMoves DEF BeginLogin
<1>3. CASE BeginRequest(t)
  BY <1>1, <1>3, ContinueMoves DEF BeginRequest
<1>4. CASE BeginDeleteUser(t)
  BY <1>1, <1>4, ContinueMoves DEF BeginDeleteUser
<1>5. CASE BeginClear(t)
  BY <1>1, <1>5, ContinueMoves DEF BeginClear
<1> QED
  BY <1>2, <1>3, <1>4, <1>5 DEF Begins

LEMMA StepMoves ==
  ASSUME TypeOK, Shapes, NEW t \in Tasks, Step(t)
  PROVE  Moves(t) /\ turn \subseteq {t} /\ req[t].step \notin {"idle", "dead"}
<1>0. turn \subseteq {t} /\ req[t].step \notin {"idle", "dead"}
  BY DEF Step, GetUser, Authenticate, Scan, ScanNext, Refresh, Store, Add, Restore, RestoreNext, Admit,
         Recheck, Sweep, SweepNext, DeleteGet, DeleteRemove, Auth, Handler, RemoveUser, DeleteSessions,
         List, ListNext, At
<1> SUFFICES Moves(t)
  BY <1>0
<1>1. {"known", "removed", "scan", "add", "restore", "admit", "recheck", "restore_next", "handler", "list"} \subseteq Steps
  BY DEF Steps, StoreSteps, OtherWaits, SyncSteps
<1>2. CASE \/ GetUser(t) \/ Authenticate(t) \/ Refresh(t) \/ Store(t) \/ Handler(t) \/ RemoveUser(t)
           \/ DeleteSessions(t)
  BY <1>1, <1>2, CallsMove
     DEF GetUser, Authenticate, Refresh, Store, Handler, RemoveUser, DeleteSessions
<1>3. CASE Scan(t) \/ Restore(t) \/ Sweep(t) \/ List(t)
  BY <1>3, ContinueMoves DEF Scan, Restore, Sweep, List
<1>4. CASE ScanNext(t)
  BY <1>1, <1>4, ContinueMoves, CallsMove DEF ScanNext
<1>5. CASE Add(t)
  BY <1>1, <1>5, AddSteps, CallsMove
<1>6. CASE RestoreNext(t)
  BY <1>6, ContinueMoves, CallsMove DEF RestoreNext
<1>7. CASE Admit(t)
  BY <1>1, <1>7, ContinueMoves, CallsMove DEF Admit
<1>8. CASE Recheck(t)
  <2>1. Goto(t, "restore_next") \/ Raise(t) \/ CallStore(t)
    BY <1>8 DEF Recheck
  <2> QED
    BY <1>1, <2>1, CallsMove
<1>9. CASE SweepNext(t)
  <2>1. req[t].after \in Steps
    BY TaskFields DEF TaskType
  <2> QED
    BY <1>9, <2>1, ContinueMoves, CallsMove DEF SweepNext
<1>10. CASE DeleteGet(t)
  BY <1>10, ContinueMoves, CallsMove DEF DeleteGet
<1>11. CASE DeleteRemove(t)
  BY <1>11, ContinueMoves, CallsMove DEF DeleteRemove
<1>12. CASE Auth(t)
  BY <1>1, <1>12, CallsMove DEF Auth
<1>13. CASE ListNext(t)
  BY <1>13, CallsMove DEF ListNext
<1> QED
  BY <1>2, <1>3, <1>4, <1>5, <1>6, <1>7, <1>8, <1>9, <1>10, <1>11, <1>12, <1>13 DEF Step

LEMMA FailMoves ==
  ASSUME TypeOK, NEW t \in Tasks, Fail(t)
  PROVE  Moves(t) /\ turn = {} /\ Raise(t)
BY CallsMove DEF Fail, Abort, AbortLate

\* In any step at most one task moves, unless the agent is restarted.
LEMMA OneMoves ==
  ASSUME TypeOK, Shapes, Next
  PROVE  \/ \E t \in Tasks : Acts(t) /\ Moves(t) /\ turn \subseteq {t}
         \/ Restart
         \/ Tick
         \/ \E u \in Users : CreateUser(u)
BY NextCases, BeginMoves, StepMoves, FailMoves DEF Acts, Begins

-----------------------------------------------------------------------------
(***************************************************************************)
(* What becomes of the record of the task that acts.                       *)
(***************************************************************************)
\* The task keeps what it is about.
SameTask(t) ==
  req'[t].op = req[t].op /\ req'[t].user = req[t].user /\ req'[t].sid = req[t].sid
SameReturns(t) == req'[t].ret = req[t].ret /\ req'[t].after = req[t].after
SameLists(t) == req'[t].todo = req[t].todo /\ req'[t].outer = req[t].outer
SameVictim(t) == req'[t].del = req[t].del /\ req'[t].victim = req[t].victim

LEMMA GotoFields ==
  ASSUME TypeOK, Shapes, NEW t \in Tasks, NEW step, Goto(t, step)
  PROVE  /\ SameTask(t) /\ SameReturns(t) /\ SameLists(t) /\ SameVictim(t)
         /\ req'[t].step = step /\ req'[t].adding = req[t].adding
<1> DEFINE r == [req[t] EXCEPT !.step = step]
<1>0. req[t] \in TaskType
  BY TaskFields
<1>1. /\ r.op = req[t].op /\ r.user = req[t].user /\ r.sid = req[t].sid /\ r.step = step
      /\ r.todo = req[t].todo /\ r.outer = req[t].outer /\ r.ret = req[t].ret
      /\ r.after = req[t].after /\ r.adding = req[t].adding /\ r.del = req[t].del
      /\ r.victim = req[t].victim
  BY <1>0 DEF TaskType
<1> HIDE DEF r
<1>2. req'[t] = r
  BY ContinueMoves DEF Goto, r
<1> QED
  BY <1>1, <1>2 DEF SameTask, SameReturns, SameLists, SameVictim

LEMMA ListFields ==
  ASSUME TypeOK, Shapes, NEW t \in Tasks, NEW step, NEW todo,
         Continue(t, [req[t] EXCEPT !.step = step, !.todo = todo])
  PROVE  /\ SameTask(t) /\ SameReturns(t) /\ req'[t].todo = todo /\ req'[t].outer = req[t].outer
         /\ SameVictim(t) /\ req'[t].step = step /\ req'[t].adding = req[t].adding
<1> DEFINE r == [req[t] EXCEPT !.step = step, !.todo = todo]
<1>0. req[t] \in TaskType
  BY TaskFields
<1>1. /\ r.op = req[t].op /\ r.user = req[t].user /\ r.sid = req[t].sid /\ r.step = step
      /\ r.todo = todo /\ r.outer = req[t].outer /\ r.ret = req[t].ret /\ r.after = req[t].after
      /\ r.adding = req[t].adding /\ r.del = req[t].del /\ r.victim = req[t].victim
  BY <1>0 DEF TaskType
<1> HIDE DEF r
<1>2. req'[t] = r
  BY ContinueMoves DEF r
<1> QED
  BY <1>1, <1>2 DEF SameTask, SameReturns, SameLists, SameVictim

LEMMA SkipFields ==
  ASSUME TypeOK, Shapes, NEW t \in Tasks, NEW x,
         Continue(t, [req[t] EXCEPT !.todo = @ \ {x}])
  PROVE  /\ SameTask(t) /\ SameReturns(t) /\ req'[t].todo = req[t].todo \ {x}
         /\ req'[t].outer = req[t].outer /\ SameVictim(t) /\ req'[t].step = req[t].step
         /\ req'[t].adding = req[t].adding
<1> DEFINE r == [req[t] EXCEPT !.todo = @ \ {x}]
<1>0. req[t] \in TaskType
  BY TaskFields
<1>1. /\ r.op = req[t].op /\ r.user = req[t].user /\ r.sid = req[t].sid /\ r.step = req[t].step
      /\ r.todo = req[t].todo \ {x} /\ r.outer = req[t].outer /\ r.ret = req[t].ret
      /\ r.after = req[t].after /\ r.adding = req[t].adding /\ r.del = req[t].del
      /\ r.victim = req[t].victim
  BY <1>0 DEF TaskType
<1> HIDE DEF r
<1>2. req'[t] = r
  BY ContinueMoves DEF r
<1> QED
  BY <1>1, <1>2 DEF SameTask, SameReturns, SameLists, SameVictim

LEMMA OuterFields ==
  ASSUME TypeOK, Shapes, NEW t \in Tasks, NEW step, NEW outer,
         Continue(t, [req[t] EXCEPT !.step = step, !.outer = outer])
  PROVE  /\ SameTask(t) /\ SameReturns(t) /\ req'[t].todo = req[t].todo /\ req'[t].outer = outer
         /\ SameVictim(t) /\ req'[t].step = step /\ req'[t].adding = req[t].adding
<1> DEFINE r == [req[t] EXCEPT !.step = step, !.outer = outer]
<1>0. req[t] \in TaskType
  BY TaskFields
<1>1. /\ r.op = req[t].op /\ r.user = req[t].user /\ r.sid = req[t].sid /\ r.step = step
      /\ r.todo = req[t].todo /\ r.outer = outer /\ r.ret = req[t].ret /\ r.after = req[t].after
      /\ r.adding = req[t].adding /\ r.del = req[t].del /\ r.victim = req[t].victim
  BY <1>0 DEF TaskType
<1> HIDE DEF r
<1>2. req'[t] = r
  BY ContinueMoves DEF r
<1> QED
  BY <1>1, <1>2 DEF SameTask, SameReturns, SameLists, SameVictim

LEMMA RestoredFields ==
  ASSUME TypeOK, Shapes, NEW t \in Tasks,
         Continue(t, [req[t] EXCEPT !.step = "admit", !.adding = NoUser])
  PROVE  /\ SameTask(t) /\ SameReturns(t) /\ SameLists(t) /\ SameVictim(t)
         /\ req'[t].step = "admit" /\ req'[t].adding = NoUser
<1> DEFINE r == [req[t] EXCEPT !.step = "admit", !.adding = NoUser]
<1>0. req[t] \in TaskType
  BY TaskFields
<1>1. /\ r.op = req[t].op /\ r.user = req[t].user /\ r.sid = req[t].sid /\ r.step = "admit"
      /\ r.todo = req[t].todo /\ r.outer = req[t].outer /\ r.ret = req[t].ret
      /\ r.after = req[t].after /\ r.adding = NoUser /\ r.del = req[t].del
      /\ r.victim = req[t].victim
  BY <1>0 DEF TaskType
<1> HIDE DEF r
<1>2. req'[t] = r
  BY ContinueMoves DEF r
<1> QED
  BY <1>1, <1>2 DEF SameTask, SameReturns, SameLists, SameVictim

LEMMA NestedFields ==
  ASSUME TypeOK, Shapes, NEW t \in Tasks, NEW x,
         Continue(t, [[req[t] EXCEPT !.outer = @ \ {x}] EXCEPT !.step = "admit", !.adding = x.user])
  PROVE  /\ SameTask(t) /\ SameReturns(t) /\ req'[t].todo = req[t].todo
         /\ req'[t].outer = req[t].outer \ {x} /\ SameVictim(t) /\ req'[t].step = "admit"
         /\ req'[t].adding = x.user
<1> DEFINE r == [[req[t] EXCEPT !.outer = @ \ {x}] EXCEPT !.step = "admit", !.adding = x.user]
<1>0. req[t] \in TaskType
  BY TaskFields
<1>1. /\ r.op = req[t].op /\ r.user = req[t].user /\ r.sid = req[t].sid /\ r.step = "admit"
      /\ r.todo = req[t].todo /\ r.outer = req[t].outer \ {x} /\ r.ret = req[t].ret
      /\ r.after = req[t].after /\ r.adding = x.user /\ r.del = req[t].del
      /\ r.victim = req[t].victim
  BY <1>0 DEF TaskType
<1> HIDE DEF r
<1>2. req'[t] = r
  BY ContinueMoves DEF r
<1> QED
  BY <1>1, <1>2 DEF SameTask, SameReturns, SameLists, SameVictim

LEMMA FullFields ==
  ASSUME TypeOK, Shapes, NEW t \in Tasks,
         Continue(t, [req[t] EXCEPT !.step = "sweep", !.after = "recheck"])
  PROVE  /\ SameTask(t) /\ req'[t].ret = req[t].ret /\ req'[t].after = "recheck" /\ SameLists(t)
         /\ SameVictim(t) /\ req'[t].step = "sweep" /\ req'[t].adding = req[t].adding
<1> DEFINE r == [req[t] EXCEPT !.step = "sweep", !.after = "recheck"]
<1>0. req[t] \in TaskType
  BY TaskFields
<1>1. /\ r.op = req[t].op /\ r.user = req[t].user /\ r.sid = req[t].sid /\ r.step = "sweep"
      /\ r.todo = req[t].todo /\ r.outer = req[t].outer /\ r.ret = req[t].ret
      /\ r.after = "recheck" /\ r.adding = req[t].adding /\ r.del = req[t].del
      /\ r.victim = req[t].victim
  BY <1>0 DEF TaskType
<1> HIDE DEF r
<1>2. req'[t] = r
  BY ContinueMoves DEF r
<1> QED
  BY <1>1, <1>2 DEF SameTask, SameReturns, SameLists, SameVictim

LEMMA VictimFields ==
  ASSUME TypeOK, Shapes, NEW t \in Tasks, NEW u,
         Continue(t, [req[t] EXCEPT !.step = "del_rm", !.victim = u])
  PROVE  /\ SameTask(t) /\ SameReturns(t) /\ SameLists(t) /\ req'[t].del = req[t].del
         /\ req'[t].victim = u /\ req'[t].step = "del_rm" /\ req'[t].adding = req[t].adding
<1> DEFINE r == [req[t] EXCEPT !.step = "del_rm", !.victim = u]
<1>0. req[t] \in TaskType
  BY TaskFields
<1>1. /\ r.op = req[t].op /\ r.user = req[t].user /\ r.sid = req[t].sid /\ r.step = "del_rm"
      /\ r.todo = req[t].todo /\ r.outer = req[t].outer /\ r.ret = req[t].ret
      /\ r.after = req[t].after /\ r.adding = req[t].adding /\ r.del = req[t].del /\ r.victim = u
  BY <1>0 DEF TaskType
<1> HIDE DEF r
<1>2. req'[t] = r
  BY ContinueMoves DEF r
<1> QED
  BY <1>1, <1>2 DEF SameTask, SameReturns, SameLists, SameVictim

LEMMA ReturnFields ==
  ASSUME TypeOK, Shapes, NEW t \in Tasks,
         Continue(t, [req[t] EXCEPT !.step = req[t].ret, !.del = NoSid, !.victim = NoUser])
  PROVE  /\ SameTask(t) /\ SameReturns(t) /\ SameLists(t) /\ req'[t].del = NoSid
         /\ req'[t].victim = NoUser /\ req'[t].step = req[t].ret
         /\ req'[t].adding = req[t].adding
<1> DEFINE r == [req[t] EXCEPT !.step = req[t].ret, !.del = NoSid, !.victim = NoUser]
<1>0. req[t] \in TaskType
  BY TaskFields
<1>1. /\ r.op = req[t].op /\ r.user = req[t].user /\ r.sid = req[t].sid /\ r.step = req[t].ret
      /\ r.todo = req[t].todo /\ r.outer = req[t].outer /\ r.ret = req[t].ret
      /\ r.after = req[t].after /\ r.adding = req[t].adding /\ r.del = NoSid /\ r.victim = NoUser
  BY <1>0 DEF TaskType
<1> HIDE DEF r
<1>2. req'[t] = r
  BY ContinueMoves DEF r
<1> QED
  BY <1>1, <1>2 DEF SameTask, SameReturns, SameLists, SameVictim

LEMMA StoreFields ==
  ASSUME TypeOK, Shapes, NEW t \in Tasks, CallStore(t)
  PROVE  /\ SameTask(t) /\ SameReturns(t)
         /\ req'[t].todo = {[sid |-> req[t].sid, user |-> req[t].user, expiry |-> ExpiryTime]}
         /\ req'[t].outer = req[t].outer /\ SameVictim(t) /\ req'[t].step = "store"
         /\ req'[t].adding = NoUser
<1> DEFINE r == [req[t] EXCEPT !.step = "store", !.adding = NoUser,
                  !.todo = {[sid |-> req[t].sid, user |-> req[t].user, expiry |-> ExpiryTime]}]
<1>0. req[t] \in TaskType
  BY TaskFields
<1>1. /\ r.op = req[t].op /\ r.user = req[t].user /\ r.sid = req[t].sid /\ r.step = "store"
      /\ r.todo = {[sid |-> req[t].sid, user |-> req[t].user, expiry |-> ExpiryTime]}
      /\ r.outer = req[t].outer /\ r.ret = req[t].ret /\ r.after = req[t].after
      /\ r.adding = NoUser /\ r.del = req[t].del /\ r.victim = req[t].victim
  BY <1>0 DEF TaskType
<1> HIDE DEF r
<1>2. req'[t] = r
  BY ContinueMoves DEF CallStore, r
<1> QED
  BY <1>1, <1>2 DEF SameTask, SameReturns, SameLists, SameVictim

LEMMA DeleteFields ==
  ASSUME TypeOK, Shapes, NEW t \in Tasks, NEW sid, NEW ret, CallDelete(t, req[t], sid, ret)
  PROVE  /\ SameTask(t) /\ req'[t].ret = ret /\ req'[t].after = req[t].after /\ SameLists(t)
         /\ req'[t].del = sid /\ req'[t].victim = req[t].victim /\ req'[t].step = "del_get"
         /\ req'[t].adding = req[t].adding
<1> DEFINE r == [req[t] EXCEPT !.step = "del_get", !.del = sid, !.ret = ret]
<1>0. req[t] \in TaskType
  BY TaskFields
<1>1. /\ r.op = req[t].op /\ r.user = req[t].user /\ r.sid = req[t].sid /\ r.step = "del_get"
      /\ r.todo = req[t].todo /\ r.outer = req[t].outer /\ r.ret = ret /\ r.after = req[t].after
      /\ r.adding = req[t].adding /\ r.del = sid /\ r.victim = req[t].victim
  BY <1>0 DEF TaskType
<1> HIDE DEF r
<1>2. req'[t] = r
  BY ContinueMoves DEF CallDelete, r
<1> QED
  BY <1>1, <1>2 DEF SameTask, SameReturns, SameLists, SameVictim

LEMMA DeleteTodoFields ==
  ASSUME TypeOK, Shapes, NEW t \in Tasks, NEW x, NEW sid, NEW ret,
         CallDelete(t, [req[t] EXCEPT !.todo = @ \ {x}], sid, ret)
  PROVE  /\ SameTask(t) /\ req'[t].ret = ret /\ req'[t].after = req[t].after
         /\ req'[t].todo = req[t].todo \ {x} /\ req'[t].outer = req[t].outer
         /\ req'[t].del = sid /\ req'[t].victim = req[t].victim /\ req'[t].step = "del_get"
         /\ req'[t].adding = req[t].adding
<1> DEFINE r == [[req[t] EXCEPT !.todo = @ \ {x}] EXCEPT !.step = "del_get", !.del = sid, !.ret = ret]
<1>0. req[t] \in TaskType
  BY TaskFields
<1>1. /\ r.op = req[t].op /\ r.user = req[t].user /\ r.sid = req[t].sid /\ r.step = "del_get"
      /\ r.todo = req[t].todo \ {x} /\ r.outer = req[t].outer /\ r.ret = ret
      /\ r.after = req[t].after /\ r.adding = req[t].adding /\ r.del = sid
      /\ r.victim = req[t].victim
  BY <1>0 DEF TaskType
<1> HIDE DEF r
<1>2. req'[t] = r
  BY ContinueMoves DEF CallDelete, r
<1> QED
  BY <1>1, <1>2 DEF SameTask, SameReturns, SameLists, SameVictim

LEMMA DeleteOuterFields ==
  ASSUME TypeOK, Shapes, NEW t \in Tasks, NEW x, NEW sid, NEW ret,
         CallDelete(t, [req[t] EXCEPT !.outer = @ \ {x}], sid, ret)
  PROVE  /\ SameTask(t) /\ req'[t].ret = ret /\ req'[t].after = req[t].after
         /\ req'[t].todo = req[t].todo /\ req'[t].outer = req[t].outer \ {x}
         /\ req'[t].del = sid /\ req'[t].victim = req[t].victim /\ req'[t].step = "del_get"
         /\ req'[t].adding = req[t].adding
<1> DEFINE r == [[req[t] EXCEPT !.outer = @ \ {x}] EXCEPT !.step = "del_get", !.del = sid, !.ret = ret]
<1>0. req[t] \in TaskType
  BY TaskFields
<1>1. /\ r.op = req[t].op /\ r.user = req[t].user /\ r.sid = req[t].sid /\ r.step = "del_get"
      /\ r.todo = req[t].todo /\ r.outer = req[t].outer \ {x} /\ r.ret = ret
      /\ r.after = req[t].after /\ r.adding = req[t].adding /\ r.del = sid
      /\ r.victim = req[t].victim
  BY <1>0 DEF TaskType
<1> HIDE DEF r
<1>2. req'[t] = r
  BY ContinueMoves DEF CallDelete, r
<1> QED
  BY <1>1, <1>2 DEF SameTask, SameReturns, SameLists, SameVictim

LEMMA DeleteExpiredFields ==
  ASSUME TypeOK, Shapes, NEW t \in Tasks, NEW sid, NEW ret,
         CallDelete(t, [req[t] EXCEPT !.op = "request"], sid, ret)
  PROVE  /\ req'[t].op = "request" /\ req'[t].user = req[t].user /\ req'[t].sid = req[t].sid
         /\ req'[t].ret = ret /\ req'[t].after = req[t].after /\ SameLists(t)
         /\ req'[t].del = sid /\ req'[t].victim = req[t].victim /\ req'[t].step = "del_get"
         /\ req'[t].adding = req[t].adding
<1> DEFINE r == [[req[t] EXCEPT !.op = "request"] EXCEPT !.step = "del_get", !.del = sid, !.ret = ret]
<1>0. req[t] \in TaskType
  BY TaskFields
<1>1. /\ r.op = "request" /\ r.user = req[t].user /\ r.sid = req[t].sid /\ r.step = "del_get"
      /\ r.todo = req[t].todo /\ r.outer = req[t].outer /\ r.ret = ret /\ r.after = req[t].after
      /\ r.adding = req[t].adding /\ r.del = sid /\ r.victim = req[t].victim
  BY <1>0 DEF TaskType
<1> HIDE DEF r
<1>2. req'[t] = r
  BY ContinueMoves DEF CallDelete, r
<1> QED
  BY <1>1, <1>2 DEF SameTask, SameReturns, SameLists, SameVictim

LEMMA EndFields ==
  ASSUME TypeOK, NEW t \in Tasks
  PROVE  /\ End(t) => req'[t] = Idle /\ req'[t].step = "idle"
         /\ Raise(t) => req'[t].step \in {"idle", "dead"} /\ req'[t].op = "none"
<1>1. /\ Idle.step = "idle" /\ [Idle EXCEPT !.step = "dead"].step = "dead"
      /\ Idle.op = "none" /\ [Idle EXCEPT !.step = "dead"].op = "none"
  BY DEF Idle
<1> QED
  BY <1>1, ContinueMoves DEF End, Raise

\* What each step makes of it.
LEMMA ScanFields ==
  ASSUME TypeOK, Shapes, NEW t \in Tasks, Scan(t) \/ List(t)
  PROVE  /\ SameTask(t) /\ SameReturns(t) /\ SameVictim(t)
         /\ req'[t].todo = {x \in sessions : x.user = req[t].user} /\ req'[t].outer = req[t].outer
         /\ Scan(t) => req[t].step = "scan" /\ req'[t].step = "scan_next"
         /\ List(t) => req[t].step = "list" /\ req'[t].step = "list_next"
         /\ req'[t].adding = req[t].adding
<1> DEFINE todo == {x \in sessions : x.user = req[t].user}
<1>1. /\ Scan(t) => Continue(t, [req[t] EXCEPT !.step = "scan_next", !.todo = todo])
      /\ List(t) => Continue(t, [req[t] EXCEPT !.step = "list_next", !.todo = todo])
  BY DEF Scan, List
<1>2. (Scan(t) => req[t].step = "scan") /\ (List(t) => req[t].step = "list")
  BY DEF Scan, List, At
<1>3. (Scan(t) \/ List(t)) /\ ~(Scan(t) /\ List(t))
  BY <1>2
<1> HIDE DEF todo
<1>4. CASE Scan(t)
  BY <1>1, <1>2, <1>3, <1>4, ListFields DEF todo
<1>5. CASE List(t)
  BY <1>1, <1>2, <1>3, <1>5, ListFields DEF todo
<1> QED
  BY <1>4, <1>5

LEMMA SweepFields ==
  ASSUME TypeOK, Shapes, NEW t \in Tasks, Sweep(t)
  PROVE  /\ SameTask(t) /\ SameReturns(t) /\ SameVictim(t)
         /\ req'[t].todo = sessions /\ req'[t].outer = req[t].outer
         /\ req[t].step = "sweep" /\ req'[t].step = "sweep_next" /\ req'[t].adding = req[t].adding
<1>1. Continue(t, [req[t] EXCEPT !.step = "sweep_next", !.todo = sessions]) /\ req[t].step = "sweep"
  BY DEF Sweep, At
<1> QED
  BY <1>1, ListFields

LEMMA RestoreFields ==
  ASSUME TypeOK, Shapes, NEW t \in Tasks, Restore(t)
  PROVE  /\ SameTask(t) /\ SameReturns(t) /\ SameVictim(t)
         /\ req'[t].outer = sessions /\ req'[t].todo = req[t].todo
         /\ req[t].step = "restore" /\ req'[t].step = "restore_next" /\ req'[t].adding = req[t].adding
<1>1. Continue(t, [req[t] EXCEPT !.step = "restore_next", !.outer = sessions]) /\ req[t].step = "restore"
  BY DEF Restore, At
<1> QED
  BY <1>1, OuterFields

LEMMA ScanNextFields ==
  ASSUME TypeOK, Shapes, NEW t \in Tasks, ScanNext(t)
  PROVE  /\ req[t].step = "scan_next" /\ SameTask(t)
         /\ req'[t].outer = req[t].outer /\ req'[t].adding = req[t].adding
         /\ \/ req[t].todo = {} /\ req'[t].step = "add" /\ req'[t].todo = {}
            \/ \E x \in req[t].todo :
                 /\ req'[t].step = "del_get" /\ req'[t].del = x.sid /\ req'[t].ret = "scan_next"
                 /\ req'[t].todo = req[t].todo \ {x}
            \/ \E x \in req[t].todo :
                 /\ req'[t].step = "refresh"
                 /\ req'[t].todo = {[x EXCEPT !.expiry = ExpiryTime]}
<1>0. req[t].step = "scan_next"
  BY DEF ScanNext, At
<1>1. CASE req[t].todo = {} /\ Goto(t, "add")
  BY <1>0, <1>1, GotoFields DEF SameLists
<1>2. CASE \E x \in req[t].todo : CallDelete(t, [req[t] EXCEPT !.todo = @ \ {x}], x.sid, "scan_next")
  <2>1. PICK x \in req[t].todo : CallDelete(t, [req[t] EXCEPT !.todo = @ \ {x}], x.sid, "scan_next")
    BY <1>2
  <2> QED
    BY <1>0, <2>1, DeleteTodoFields
<1>3. CASE \E x \in req[t].todo : Continue(t, [req[t] EXCEPT !.step = "refresh",
                                                    !.todo = {[x EXCEPT !.expiry = ExpiryTime]}])
  <2>1. PICK x \in req[t].todo : Continue(t, [req[t] EXCEPT !.step = "refresh",
                                                    !.todo = {[x EXCEPT !.expiry = ExpiryTime]}])
    BY <1>3
  <2>2. PICK todo : /\ todo = {[x EXCEPT !.expiry = ExpiryTime]}
                    /\ Continue(t, [req[t] EXCEPT !.step = "refresh", !.todo = todo])
    BY <2>1
  <2>3. /\ SameTask(t) /\ req'[t].outer = req[t].outer /\ req'[t].adding = req[t].adding
        /\ req'[t].step = "refresh" /\ req'[t].todo = todo
    <3>1. Continue(t, [req[t] EXCEPT !.step = "refresh", !.todo = todo])
      BY <2>2, Zenon
    <3>2. /\ SameTask(t) /\ SameReturns(t) /\ req'[t].todo = todo /\ req'[t].outer = req[t].outer
          /\ SameVictim(t) /\ req'[t].step = "refresh" /\ req'[t].adding = req[t].adding
      BY <3>1, ListFields, Zenon
    <3> QED
      BY <3>2
  <2> QED
    BY <1>0, <2>2, <2>3
<1> QED
  BY <1>1, <1>2, <1>3 DEF ScanNext

LEMMA RestoreNextFields ==
  ASSUME TypeOK, Shapes, NEW t \in Tasks, RestoreNext(t)
  PROVE  /\ req[t].step = "restore_next" /\ SameTask(t) /\ req'[t].todo = req[t].todo
         /\ \/ /\ req[t].outer = {} /\ req'[t].outer = {}
               /\ req'[t].step = "admit" /\ req'[t].adding = NoUser
            \/ \E x \in req[t].outer :
                 /\ req'[t].step = "del_get" /\ req'[t].del = x.sid /\ req'[t].ret = "restore_next"
                 /\ req'[t].outer = req[t].outer \ {x} /\ req'[t].adding = req[t].adding
            \/ \E x \in req[t].outer :
                 /\ req'[t].step = "admit" /\ req'[t].adding = x.user
                 /\ req'[t].outer = req[t].outer \ {x}
<1>0. req[t].step = "restore_next"
  BY DEF RestoreNext, At
<1>1. CASE req[t].outer = {} /\ Continue(t, [req[t] EXCEPT !.step = "admit", !.adding = NoUser])
  BY <1>0, <1>1, RestoredFields DEF SameLists
<1>2. CASE \E x \in req[t].outer : CallDelete(t, [req[t] EXCEPT !.outer = @ \ {x}], x.sid, "restore_next")
  <2>1. PICK x \in req[t].outer : CallDelete(t, [req[t] EXCEPT !.outer = @ \ {x}], x.sid, "restore_next")
    BY <1>2
  <2> QED
    BY <1>0, <2>1, DeleteOuterFields
<1>3. CASE \E x \in req[t].outer :
             Continue(t, [[req[t] EXCEPT !.outer = @ \ {x}] EXCEPT !.step = "admit", !.adding = x.user])
  <2>1. PICK x \in req[t].outer :
             Continue(t, [[req[t] EXCEPT !.outer = @ \ {x}] EXCEPT !.step = "admit", !.adding = x.user])
    BY <1>3
  <2> QED
    BY <1>0, <2>1, NestedFields
<1> QED
  BY <1>1, <1>2, <1>3 DEF RestoreNext

LEMMA AdmitFields ==
  ASSUME TypeOK, Shapes, NEW t \in Tasks, Admit(t)
  PROVE  /\ req[t].step = "admit" /\ SameTask(t) /\ SameLists(t) /\ req'[t].adding = req[t].adding
         /\ \/ Cardinality(ActiveUsers) >= ActiveUsersQuota /\ req'[t].step = "sweep"
            \/ req'[t].step = "recheck"
<1>0. req[t].step = "admit"
  BY DEF Admit, At
<1>1. CASE Goto(t, "recheck")
  BY <1>0, <1>1, GotoFields
<1>2. CASE /\ Cardinality(ActiveUsers) >= ActiveUsersQuota
           /\ Continue(t, [req[t] EXCEPT !.step = "sweep", !.after = "recheck"])
  BY <1>0, <1>2, FullFields
<1> QED
  BY <1>1, <1>2 DEF Admit

LEMMA SweepNextFields ==
  ASSUME TypeOK, Shapes, NEW t \in Tasks, SweepNext(t)
  PROVE  /\ req[t].step = "sweep_next" /\ SameTask(t)
         /\ req'[t].outer = req[t].outer /\ req'[t].adding = req[t].adding
         /\ \/ /\ req[t].todo = {} /\ req'[t].todo = {} /\ req'[t].step = req[t].after
               /\ req'[t].step \in {"idle", "recheck"}
            \/ \E x \in req[t].todo :
                 /\ req'[t].step = "del_get" /\ req'[t].del = x.sid /\ req'[t].ret = "sweep_next"
                 /\ req'[t].todo = req[t].todo \ {x}
            \/ \E x \in req[t].todo :
                 req'[t].step = "sweep_next" /\ req'[t].todo = req[t].todo \ {x}
<1>0. req[t].step = "sweep_next" /\ req[t].after \in {"idle", "recheck"}
  BY TaskFields DEF SweepNext, At, Shape, SweepReturns
<1>1. CASE req[t].todo = {} /\ Goto(t, req[t].after)
  BY <1>0, <1>1, GotoFields DEF SameLists
<1>2. CASE \E x \in req[t].todo : CallDelete(t, [req[t] EXCEPT !.todo = @ \ {x}], x.sid, "sweep_next")
  <2>1. PICK x \in req[t].todo : CallDelete(t, [req[t] EXCEPT !.todo = @ \ {x}], x.sid, "sweep_next")
    BY <1>2
  <2> QED
    BY <1>0, <2>1, DeleteTodoFields
<1>3. CASE \E x \in req[t].todo : Continue(t, [req[t] EXCEPT !.todo = @ \ {x}])
  <2>1. PICK x \in req[t].todo : Continue(t, [req[t] EXCEPT !.todo = @ \ {x}])
    BY <1>3
  <2> QED
    BY <1>0, <2>1, SkipFields
<1> QED
  BY <1>1, <1>2, <1>3 DEF SweepNext

\* What the return of a deletion does to the history.
ListReturns(t) ==
  /\ deleted' = deleted \cup ({req[t].user} \ account)
  /\ outrun' = outrun \cup LoginsBehind(req[t].user)

LEMMA ListNextFields ==
  ASSUME TypeOK, Shapes, NEW t \in Tasks, ListNext(t)
  PROVE  /\ req[t].step = "list_next"
         /\ \/ req[t].todo = {} /\ req'[t] = Idle /\ ListReturns(t)
            \/ \E x \in req[t].todo :
                 /\ req'[t].step = "del_get" /\ req'[t].del = x.sid /\ req'[t].ret = "list_next"
                 /\ req'[t].todo = req[t].todo \ {x} /\ SameTask(t)
                 /\ req'[t].outer = req[t].outer /\ req'[t].adding = req[t].adding
                 /\ UNCHANGED <<deleted, outrun>>
<1>0. req[t].step = "list_next"
  BY DEF ListNext, At
<1>1. CASE req[t].todo = {} /\ End(t) /\ ListReturns(t)
  BY <1>0, <1>1, EndFields
<1>2. CASE \E x \in req[t].todo :
             /\ CallDelete(t, [req[t] EXCEPT !.todo = @ \ {x}], x.sid, "list_next")
             /\ UNCHANGED <<deleted, outrun>>
  <2>1. PICK x \in req[t].todo : /\ CallDelete(t, [req[t] EXCEPT !.todo = @ \ {x}], x.sid, "list_next")
                                 /\ UNCHANGED <<deleted, outrun>>
    BY <1>2
  <2> QED
    BY <1>0, <2>1, DeleteTodoFields
<1> QED
  BY <1>1, <1>2 DEF ListNext, ListReturns

LEMMA DeleteGetFields ==
  ASSUME TypeOK, Shapes, NEW t \in Tasks, DeleteGet(t)
  PROVE  /\ req[t].step = "del_get"
         /\ \/ Lookup(req[t].del) = {} /\ Raise(t)
            \/ \E x \in Lookup(req[t].del) :
                 /\ SameTask(t) /\ SameReturns(t) /\ SameLists(t) /\ req'[t].adding = req[t].adding
                 /\ req'[t].step = "del_rm" /\ req'[t].del = req[t].del /\ req'[t].victim = x.user
<1>0. req[t].step = "del_get"
  BY DEF DeleteGet, At
<1>1. CASE \E x \in Lookup(req[t].del) :
             Continue(t, [req[t] EXCEPT !.step = "del_rm", !.victim = x.user])
  <2>1. PICK x \in Lookup(req[t].del) :
             Continue(t, [req[t] EXCEPT !.step = "del_rm", !.victim = x.user])
    BY <1>1
  <2> QED
    BY <1>0, <2>1, VictimFields, ZenonT(60)
<1> QED
  BY <1>0, <1>1 DEF DeleteGet

LEMMA DeleteRemoveFields ==
  ASSUME TypeOK, Shapes, NEW t \in Tasks, DeleteRemove(t)
  PROVE  /\ req[t].step = "del_rm"
         /\ \/ req[t].ret = "idle" /\ req'[t] = Idle
            \/ /\ req[t].ret # "idle" /\ req'[t].step = req[t].ret
               /\ SameTask(t) /\ SameReturns(t) /\ SameLists(t) /\ req'[t].adding = req[t].adding
<1>0. req[t].step = "del_rm"
  BY DEF DeleteRemove, At
<1>1. CASE req[t].ret = "idle" /\ End(t)
  BY <1>0, <1>1, EndFields
<1>2. CASE /\ req[t].ret # "idle"
           /\ Continue(t, [req[t] EXCEPT !.step = req[t].ret, !.del = NoSid, !.victim = NoUser])
  BY <1>0, <1>2, ReturnFields
<1> QED
  BY <1>1, <1>2 DEF DeleteRemove

LEMMA AuthFields ==
  ASSUME TypeOK, Shapes, NEW t \in Tasks, Auth(t)
  PROVE  /\ req[t].step = "auth"
         /\ \/ Lookup(req[t].sid) = {} /\ req'[t] = Idle /\ sessions' = sessions
            \/ \E x \in Lookup(req[t].sid) :
                 /\ SameLists(t) /\ req'[t].adding = req[t].adding
                 /\ req'[t].user = req[t].user /\ req'[t].sid = req[t].sid
                 /\ \/ /\ sessions' = sessions /\ req'[t].op = "request"
                       /\ req'[t].step = "del_get" /\ req'[t].del = x.sid /\ req'[t].ret = "idle"
                    \/ /\ ~Expired(x) /\ sessions' = Refreshed(x) /\ req'[t].op = req[t].op
                       /\ \/ req'[t].step = "del_get" /\ req'[t].del = x.sid /\ req'[t].ret = "idle"
                          \/ req'[t].step = "handler"
<1>0. req[t].step = "auth"
  BY DEF Auth, At
<1>1. CASE Lookup(req[t].sid) = {} /\ End(t) /\ sessions' = sessions
  BY <1>0, <1>1, EndFields
<1>2. ASSUME NEW x \in Lookup(req[t].sid), sessions' = sessions,
             CallDelete(t, [req[t] EXCEPT !.op = "request"], x.sid, "idle")
      PROVE  /\ SameLists(t) /\ req'[t].adding = req[t].adding
             /\ req'[t].user = req[t].user /\ req'[t].sid = req[t].sid
             /\ req'[t].op = "request" /\ req'[t].step = "del_get"
             /\ req'[t].del = x.sid /\ req'[t].ret = "idle"
  BY <1>2, DeleteExpiredFields
<1>3. ASSUME NEW x \in Lookup(req[t].sid), CallDelete(t, req[t], x.sid, "idle")
      PROVE  /\ SameLists(t) /\ req'[t].adding = req[t].adding /\ SameTask(t)
             /\ req'[t].step = "del_get" /\ req'[t].del = x.sid /\ req'[t].ret = "idle"
  BY <1>3, DeleteFields, SMTT(60)
<1>4. ASSUME Goto(t, "handler")
      PROVE  /\ SameLists(t) /\ req'[t].adding = req[t].adding /\ SameTask(t)
             /\ req'[t].step = "handler"
  BY <1>4, GotoFields
<1>5. CASE \E x \in Lookup(req[t].sid) :
             IF Expired(x)
             THEN CallDelete(t, [req[t] EXCEPT !.op = "request"], x.sid, "idle") /\ sessions' = sessions
             ELSE /\ sessions' = Refreshed(x)
                  /\ IF req[t].op = "logout" THEN CallDelete(t, req[t], x.sid, "idle")
                                             ELSE Goto(t, "handler")
  <2>1. PICK x \in Lookup(req[t].sid) :
             IF Expired(x)
             THEN CallDelete(t, [req[t] EXCEPT !.op = "request"], x.sid, "idle") /\ sessions' = sessions
             ELSE /\ sessions' = Refreshed(x)
                  /\ IF req[t].op = "logout" THEN CallDelete(t, req[t], x.sid, "idle")
                                             ELSE Goto(t, "handler")
    BY <1>5
  <2>2. CASE Expired(x)
    BY <1>0, <1>2, <2>1, <2>2
  <2>3. CASE ~Expired(x)
    BY <1>0, <1>3, <1>4, <2>1, <2>3 DEF SameTask
  <2> QED
    BY <2>2, <2>3
<1> QED
  BY <1>1, <1>5 DEF Auth

-----------------------------------------------------------------------------
(***************************************************************************)
(* Handlers and sessions.                                                  *)
(***************************************************************************)
\* A handler is entered from session_middleware only.
LEMMA StepTargets ==
  ASSUME TypeOK, Shapes, NEW t \in Tasks, Step(t), ~Auth(t)
  PROVE  req'[t].step # "handler"
<1>0. Shape(req[t])
  BY TaskFields
<1>1. CASE \/ GetUser(t) \/ Authenticate(t) \/ Refresh(t) \/ Store(t) \/ Handler(t) \/ RemoveUser(t)
           \/ DeleteSessions(t)
  BY <1>1, GotoFields, EndFields
     DEF GetUser, Authenticate, Refresh, Store, Handler, RemoveUser, DeleteSessions
<1>2. CASE Scan(t) \/ List(t)
  BY <1>2, ScanFields
<1>3. CASE Sweep(t) \/ Restore(t)
  BY <1>3, SweepFields, RestoreFields
<1>4. CASE ScanNext(t)
  BY <1>4, ScanNextFields
<1>5. CASE Add(t)
  <2>1. Goto(t, "restore") \/ Goto(t, "admit") \/ CallStore(t)
    BY <1>5, AddSteps
  <2> QED
    BY <2>1, GotoFields, StoreFields
<1>6. CASE RestoreNext(t)
  BY <1>6, RestoreNextFields
<1>7. CASE Admit(t)
  BY <1>7, AdmitFields
<1>8. CASE Recheck(t)
  <2>1. Goto(t, "restore_next") \/ Raise(t) \/ CallStore(t)
    BY <1>8 DEF Recheck
  <2> QED
    BY <2>1, GotoFields, EndFields, StoreFields
<1>9. CASE SweepNext(t)
  BY <1>9, SweepNextFields
<1>10. CASE DeleteGet(t)
  BY <1>10, EndFields, DeleteGetFields
<1>11. CASE DeleteRemove(t)
  <2>1. req[t].ret # "handler"
    BY <1>0, <1>11 DEF DeleteRemove, At, Shape, DeleteSteps, DeleteReturns
  <2> QED
    BY <1>11, <2>1, DeleteRemoveFields DEF Idle
<1>12. CASE ListNext(t)
  BY <1>12, ListNextFields DEF Idle
<1> QED
  BY <1>1, <1>2, <1>3, <1>4, <1>5, <1>6, <1>7, <1>8, <1>9, <1>10, <1>11, <1>12 DEF Step

\* The record with which a task begins.
LEMMA BeginFields ==
  ASSUME TypeOK, NEW t \in Tasks
  PROVE  /\ BeginLogin(t) =>
              /\ req'[t].op = "login" /\ req'[t].step = "user"
              /\ req'[t].user \in Users /\ req'[t].sid \in Fresh
         /\ BeginRequest(t) =>
              req'[t].op \in {"request", "logout"} /\ req'[t].step = "auth" /\ req'[t].sid \in issued
         /\ BeginDeleteUser(t) =>
              req'[t].op = "delete_user" /\ req'[t].step = "remove_user" /\ req'[t].user \in account
         /\ BeginClear(t) =>
              req'[t].op = "clear" /\ req'[t].step = "sweep"
         /\ Begins(t) =>
              req'[t].todo = {} /\ req'[t].outer = {} /\ req'[t].adding = NoUser
<1> DEFINE Fresh1(u, sid) == [Idle EXCEPT !.op = "login", !.step = "user", !.user = u, !.sid = sid]
           Fresh2(op, sid) == [Idle EXCEPT !.op = op, !.step = "auth", !.sid = sid]
           Fresh3(u) == [Idle EXCEPT !.op = "delete_user", !.step = "remove_user", !.user = u]
           Fresh4 == [Idle EXCEPT !.op = "clear", !.step = "sweep"]
<1>1. ASSUME NEW u, NEW sid
      PROVE  /\ Fresh1(u, sid).op = "login" /\ Fresh1(u, sid).step = "user"
             /\ Fresh1(u, sid).user = u /\ Fresh1(u, sid).sid = sid /\ Fresh1(u, sid).todo = {}
             /\ Fresh1(u, sid).outer = {} /\ Fresh1(u, sid).adding = NoUser
  BY DEF Idle
<1>2. ASSUME NEW op, NEW sid
      PROVE  /\ Fresh2(op, sid).op = op /\ Fresh2(op, sid).step = "auth"
             /\ Fresh2(op, sid).sid = sid /\ Fresh2(op, sid).todo = {}
             /\ Fresh2(op, sid).outer = {} /\ Fresh2(op, sid).adding = NoUser
  BY DEF Idle
<1>3. ASSUME NEW u
      PROVE  /\ Fresh3(u).op = "delete_user" /\ Fresh3(u).step = "remove_user"
             /\ Fresh3(u).user = u /\ Fresh3(u).todo = {}
             /\ Fresh3(u).outer = {} /\ Fresh3(u).adding = NoUser
  BY DEF Idle
<1>4. /\ Fresh4.op = "clear" /\ Fresh4.step = "sweep" /\ Fresh4.todo = {}
      /\ Fresh4.outer = {} /\ Fresh4.adding = NoUser
  BY DEF Idle
<1>5. ASSUME BeginLogin(t)
      PROVE  \E u \in Users, sid \in Fresh : req'[t] = Fresh1(u, sid)
  <2>1. PICK u \in Users, sid \in Fresh : Continue(t, Fresh1(u, sid))
    BY <1>5 DEF BeginLogin
  <2> HIDE DEF Fresh1
  <2> QED
    BY <2>1, ContinueMoves
<1>6. ASSUME BeginRequest(t)
      PROVE  \E sid \in issued, op \in {"request", "logout"} : req'[t] = Fresh2(op, sid)
  BY <1>6, ContinueMoves DEF BeginRequest
<1>7. ASSUME BeginDeleteUser(t)
      PROVE  \E u \in account : req'[t] = Fresh3(u)
  BY <1>7, ContinueMoves DEF BeginDeleteUser
<1>8. ASSUME BeginClear(t)
      PROVE  req'[t] = Fresh4
  BY <1>8, ContinueMoves DEF BeginClear
<1> HIDE DEF Fresh1, Fresh2, Fresh3, Fresh4
<1> QED
  BY <1>1, <1>2, <1>3, <1>4, <1>5, <1>6, <1>7, <1>8 DEF Begins

LEMMA OnlyAuthHandles ==
  ASSUME TypeOK, Shapes, NEW t \in Tasks, Next, req[t].step # "handler", req'[t].step = "handler"
  PROVE  Auth(t)
<1>1. ASSUME Begins(t)
      PROVE  req'[t].step # "handler"
  BY <1>1, BeginFields DEF Begins
<1>2. Fail(t) => req'[t].step # "handler"
  BY FailMoves, EndFields
<1>3. ~Restart
  BY DEF Restart, Idle
<1>4. ~Tick /\ ~\E u \in Users : CreateUser(u)
  BY DEF Tick, CreateUser
<1>5. PICK t2 \in Tasks : Acts(t2) /\ Moves(t2)
  BY <1>3, <1>4, OneMoves
<1>6. t2 = t
  BY <1>5 DEF Moves
<1> QED
  BY <1>1, <1>2, <1>5, <1>6, StepTargets DEF Acts

LEMMA AuthHandles ==
  ASSUME TypeOK, Shapes, NEW t \in Tasks, Auth(t), req'[t].step = "handler"
  PROVE  \E x \in Lookup(req[t].sid) : ~Expired(x) /\ sessions' = Refreshed(x)
BY AuthFields DEF Idle

\* With the sessions in memory the expiry time that auth_session sets is the
\* stored one's, so a request makes its session last another expiry interval.
THEOREM RequestsRefreshInMemory == Backend = "InMemory" => (Spec => RequestRefreshesSession)
<1> SUFFICES ASSUME Backend = "InMemory"
             PROVE  Spec => RequestRefreshesSession
  OBVIOUS
<1>1. ASSUME TypeOK, Shapes, NEW t \in Tasks, Next, req[t].step = "auth", req'[t].step = "handler"
      PROVE  \E x \in sessions' : x.sid = req[t].sid /\ x.expiry = ExpiryTime
  <2>1. PICK x \in Lookup(req[t].sid) : sessions' = Refreshed(x)
    BY <1>1, OnlyAuthHandles, AuthHandles
  <2>2. x \in Session /\ x.sid = req[t].sid
    BY <1>1 DEF Lookup, TypeOK
  <2> DEFINE y == [x EXCEPT !.expiry = ExpiryTime]
  <2>3. y.sid = x.sid /\ y.expiry = ExpiryTime
    BY <2>2 DEF Session
  <2>4. y \in sessions'
    BY <2>1 DEF Refreshed
  <2> QED
    BY <2>2, <2>3, <2>4
<1>2. TypeOK /\ Shapes /\ [Next]_vars =>
        [ \A t \in Requests : req[t].step = "auth" /\ req'[t].step = "handler" =>
            \E x \in sessions' : x.sid = req[t].sid /\ x.expiry = ExpiryTime ]_vars
  BY <1>1 DEF Tasks
<1> QED
  BY <1>2, TypesInvariant, PTL DEF Spec, RequestRefreshesSession

-----------------------------------------------------------------------------
(***************************************************************************)
(* Who may be between two suspensions.                                     *)
(***************************************************************************)
Inside(t) == req[t].step \notin OtherWaits

\* In memory, a task inside a session operation has the event loop.
LoopHeld == Backend = "InMemory" => \A t \in Tasks : Inside(t) => turn = {t}

\* What `disturbed' records.
Solitary == ~disturbed => \A t1, t2 \in Busy : t1 = t2

\* Nobody can have interfered with a session operation.
Calm == Backend = "InMemory" \/ ~disturbed

Scheduled == LoopHeld /\ Solitary

LEMMA LoopHeldStep ==
  ASSUME TypeOK, Shapes, LoopHeld, [Next]_vars
  PROVE  LoopHeld'
<1> SUFFICES ASSUME Backend = "InMemory", NEW t2 \in Tasks, req'[t2].step \notin OtherWaits
             PROVE  turn' = {t2}
  BY DEF LoopHeld, Inside
<1>1. CASE UNCHANGED vars
  BY <1>1 DEF vars, LoopHeld, Inside
<1>2. CASE Restart
  BY <1>2 DEF Restart, Idle, OtherWaits
<1>3. CASE Tick \/ \E u \in Users : CreateUser(u)
  BY <1>3 DEF Tick, CreateUser, LoopHeld, Inside
<1>4. ASSUME NEW t \in Tasks, Moves(t), turn \subseteq {t}
      PROVE  turn' = {t2}
  <2>1. CASE t2 = t
    BY <1>4, <2>1 DEF Moves, Suspends
  <2>2. CASE t2 # t
    BY <1>4, <2>2 DEF Moves, LoopHeld, Inside
  <2> QED
    BY <2>1, <2>2
<1> QED
  BY <1>1, <1>2, <1>3, <1>4, OneMoves

\* A history of no disturbance is one of no disturbance before.
LEMMA Undisturbed ==
  ASSUME TypeOK, [Next]_vars, ~disturbed'
  PROVE  ~disturbed
<1>1. CASE UNCHANGED vars
  BY <1>1 DEF vars
<1>2. CASE Overlapping
  BY <1>2, Zenon DEF Overlapping
<1>3. CASE \E u \in Users : CreateUser(u)
  BY <1>3, Zenon DEF CreateUser
<1> QED
  BY <1>1, <1>2, <1>3 DEF Next

LEMMA CalmBefore ==
  ASSUME TypeOK, [Next]_vars, Calm'
  PROVE  Calm
BY Undisturbed DEF Calm

LEMMA AtMostOne ==
  ASSUME NEW S, IsFiniteSet(S), ~(Cardinality(S) > 1)
  PROVE  \A x, y \in S : x = y
<1> SUFFICES ASSUME NEW x \in S, NEW y \in S, x # y
             PROVE  FALSE
  OBVIOUS
<1>1. IsFiniteSet({x}) /\ Cardinality({x}) = 1
  BY FS_Singleton
<1>2. {x} \in SUBSET S /\ Cardinality(S) \in Nat
  BY FS_CardinalityType
<1>3. Cardinality({x}) <= Cardinality(S) /\ (Cardinality(S) = Cardinality({x}) => S = {x})
  BY <1>2, FS_Subset
<1> QED
  BY <1>1, <1>2, <1>3

LEMMA SolitaryStep ==
  ASSUME TypeOK, Solitary, [Next]_vars
  PROVE  Solitary'
<1> SUFFICES ASSUME ~disturbed'
             PROVE  \A t1, t2 \in Busy' : t1 = t2
  BY DEF Solitary
<1>1. CASE UNCHANGED vars
  BY <1>1 DEF vars, Solitary, Busy
<1>2. CASE Overlapping
  <2>1. ~(Cardinality(Busy') > 1)
    BY <1>2, Zenon DEF Overlapping
  <2>2. IsFiniteSet(Tasks)
    BY SessionAssumption, FS_Union DEF Tasks
  <2>3. Busy' \in SUBSET Tasks
    BY DEF Busy
  <2>4. IsFiniteSet(Busy')
    BY <2>2, <2>3, FS_Subset
  <2> QED
    BY <2>1, <2>4, AtMostOne
<1>3. CASE \E u \in Users : CreateUser(u)
  <2>1. ~disturbed /\ Busy' = Busy
    BY <1>3, Undisturbed DEF CreateUser, Busy
  <2> QED
    BY <2>1 DEF Solitary
<1> QED
  BY <1>1, <1>2, <1>3 DEF Next

\* No other task is inside a session operation, or moves.
Alone(t) == \A t2 \in Tasks : t2 # t => req[t2].step \in OtherWaits /\ req'[t2] = req[t2]

\* While it is calm, no task acts while another is inside a session operation.
LEMMA OthersOutside ==
  ASSUME TypeOK, Shapes, Scheduled, Solitary', Calm', ~disturbed' => ~disturbed,
         NEW t \in Tasks, Moves(t), turn \subseteq {t},
         Begins(t) \/ Step(t) \/ (Fail(t) /\ disturbed')
  PROVE  Alone(t)
<1> SUFFICES ASSUME NEW t2 \in Tasks, t2 # t, req[t2].step \notin OtherWaits
             PROVE  FALSE
  BY DEF Moves, Alone
<1>1. CASE Backend = "InMemory"
  BY <1>1 DEF Scheduled, LoopHeld, Inside
<1>2. CASE ~disturbed'
  <2>1. req'[t2] = req[t2]
    BY DEF Moves
  <2>2. t2 \in Busy /\ t2 \in Busy'
    BY <2>1 DEF Busy, OtherWaits
  <2>3. ASSUME Begins(t)
        PROVE  req'[t].step \notin {"idle", "dead"}
    BY <2>3, BeginFields DEF Begins
  <2>4. CASE Begins(t)
    <3>1. t \in Busy'
      BY <2>3, <2>4 DEF Busy
    <3> QED
      BY <1>2, <2>2, <3>1 DEF Solitary
  <2>5. CASE Step(t)
    <3>1. t \in Busy
      BY <2>5, StepMoves DEF Busy
    <3> QED
      BY <1>2, <2>2, <3>1 DEF Scheduled, Solitary
  <2> QED
    BY <1>2, <2>4, <2>5
<1> QED
  BY <1>1, <1>2 DEF Calm

-----------------------------------------------------------------------------
(***************************************************************************)
(* Deletions and the logins they overtake.                                 *)
(***************************************************************************)
DeletedAreGone == deleted \cap account = {}

\* A login whose user is deleted had read it before the deletion returned.
ReadBeforeDeletion ==
  \A t \in Busy : req[t].op = "login" /\ req[t].step # "user" /\ req[t].user \in deleted
                    => req[t].sid \in outrun

OutrunByOverlap == ~disturbed => outrun = {}

Deletions == DeletedAreGone /\ ReadBeforeDeletion /\ OutrunByOverlap

\* Past its reading of the user a login stays what it is until it ends.
LEMMA LoginKept ==
  ASSUME TypeOK, Shapes, NEW t \in Tasks, Step(t), ~GetUser(t)
  PROVE  req[t].step # "user" /\ (SameTask(t) \/ req'[t].op \in {"none", "request", "logout"})
<1>0. Shape(req[t])
  BY TaskFields
<1> USE DEF Idle
<1>1. CASE \/ Authenticate(t) \/ Refresh(t) \/ Store(t) \/ Handler(t) \/ RemoveUser(t)
           \/ DeleteSessions(t)
  BY <1>1, GotoFields, EndFields
     DEF Authenticate, Refresh, Store, Handler, RemoveUser, DeleteSessions, At
<1>2. CASE Scan(t) \/ List(t)
  BY <1>2, ScanFields
<1>3. CASE Sweep(t) \/ Restore(t)
  BY <1>3, SweepFields, RestoreFields
<1>4. CASE ScanNext(t)
  BY <1>4, ScanNextFields
<1>5. CASE Add(t)
  <2>1. Goto(t, "restore") \/ Goto(t, "admit") \/ CallStore(t)
    BY <1>5, AddSteps
  <2> QED
    BY <1>5, <2>1, GotoFields, StoreFields DEF Add, At
<1>6. CASE RestoreNext(t)
  BY <1>6, RestoreNextFields
<1>7. CASE Admit(t)
  BY <1>7, AdmitFields
<1>8. CASE Recheck(t)
  <2>1. Goto(t, "restore_next") \/ Raise(t) \/ CallStore(t)
    BY <1>8 DEF Recheck
  <2>2. req[t].step = "recheck"
    BY <1>8 DEF Recheck, At
  <2> QED
    BY <2>1, <2>2, GotoFields, EndFields, StoreFields
<1>9. CASE SweepNext(t)
  BY <1>9, SweepNextFields
<1>10. CASE DeleteGet(t)
  BY <1>10, EndFields, DeleteGetFields
<1>11. CASE DeleteRemove(t)
  BY <1>11, DeleteRemoveFields
<1>12. CASE ListNext(t)
  BY <1>12, ListNextFields
<1>13. CASE Auth(t)
  BY <1>0, <1>13, AuthFields DEF Shape
<1> QED
  BY <1>1, <1>2, <1>3, <1>4, <1>5, <1>6, <1>7, <1>8, <1>9, <1>10, <1>11, <1>12, <1>13 DEF Step

\* Only the return of a deletion and the creation of a user are recorded.
LEMMA DeletionsRecorded ==
  ASSUME NEW t \in Tasks, Acts(t), ~ListNext(t)
  PROVE  UNCHANGED <<deleted, outrun>> /\ account' \subseteq account
<1>1. CASE Begins(t)
  BY <1>1 DEF Begins, BeginLogin, BeginRequest, BeginDeleteUser, BeginClear, stores, history
<1>2. CASE Fail(t)
  BY <1>2 DEF Fail, Abort, AbortLate, stores, history
<1>3. CASE Step(t)
  BY <1>3 DEF Step, GetUser, Authenticate, Scan, ScanNext, Refresh, Store, Add, Restore, RestoreNext, Admit,
              Recheck, Sweep, SweepNext, DeleteGet, DeleteRemove, Auth, Handler, RemoveUser,
              DeleteSessions, List, stores, history
<1> QED
  BY <1>1, <1>2, <1>3 DEF Acts

LEMMA ReadStep ==
  ASSUME TypeOK, Shapes, Deletions, NEW t \in Tasks, Acts(t), Moves(t), ~ListNext(t)
  PROVE  ReadBeforeDeletion'
<1>0. UNCHANGED <<deleted, outrun>> /\ account' \subseteq account
  BY DeletionsRecorded
<1>1. ASSUME req'[t].op = "login", req'[t].step # "user", req'[t].user \in deleted
      PROVE  req'[t].sid \in outrun
  <2>1. CASE Begins(t)
    BY <1>1, <2>1, BeginFields DEF Begins
  <2>2. CASE Fail(t)
    BY <1>1, <2>2, FailMoves, EndFields DEF Idle
  <2>3. CASE GetUser(t)
    <3>1. CASE End(t)
      BY <1>1, <3>1, EndFields DEF Idle
    <3>2. CASE req[t].user \in account /\ Goto(t, "known")
      BY <1>1, <3>2, GotoFields DEF SameTask, Deletions, DeletedAreGone
    <3> QED
      BY <2>3, <3>1, <3>2 DEF GetUser
  <2>4. CASE Step(t) /\ ~GetUser(t)
    <3>1. t \in Busy
      BY <2>4, StepMoves DEF Busy
    <3>2. SameTask(t) /\ req[t].step # "user"
      BY <1>1, <2>4, LoginKept
    <3> QED
      BY <1>1, <3>1, <3>2 DEF SameTask, Deletions, ReadBeforeDeletion
  <2> QED
    BY <2>1, <2>2, <2>3, <2>4 DEF Acts
<1> QED
  BY <1>0, <1>1 DEF Moves, Busy, Deletions, ReadBeforeDeletion

LEMMA ListNextDeletions ==
  ASSUME TypeOK, Shapes, Scheduled, Deletions, NEW t \in Tasks, ListNext(t), Moves(t),
         ~disturbed' => ~disturbed
  PROVE  Deletions'
<1>0. account' = account /\ req[t].step = "list_next" /\ req[t].op = "delete_user" /\ t \in Busy
  BY TaskFields DEF ListNext, At, stores, Shape, Busy
<1>1. CASE UNCHANGED <<deleted, outrun>> /\ SameTask(t)
  BY <1>0, <1>1 DEF Moves, Busy, Deletions, DeletedAreGone, ReadBeforeDeletion, OutrunByOverlap, SameTask
<1>2. CASE req'[t] = Idle /\ ListReturns(t)
  <2>1. DeletedAreGone'
    BY <1>0, <1>2 DEF ListReturns, Deletions, DeletedAreGone
  <2>2. ASSUME NEW t2 \in Busy', req'[t2].op = "login", req'[t2].step # "user", req'[t2].user \in deleted'
        PROVE  req'[t2].sid \in outrun'
    <3>1. req'[t2] = req[t2] /\ t2 \in Busy
      BY <1>2, <2>2 DEF Moves, Idle, Busy
    <3>2. CASE req[t2].user \in deleted
      BY <1>2, <2>2, <3>1, <3>2 DEF ListReturns, Deletions, ReadBeforeDeletion
    <3>3. CASE req[t2].user = req[t].user
      BY <1>2, <2>2, <3>1, <3>3 DEF ListReturns, LoginsBehind
    <3> QED
      BY <1>2, <2>2, <3>1, <3>2, <3>3 DEF ListReturns
  <2>3. ASSUME ~disturbed'
        PROVE  outrun' = {}
    <3>1. \A t2 \in Busy : t2 = t
      BY <1>0, <2>3 DEF Scheduled, Solitary
    <3>2. LoginsBehind(req[t].user) = {}
      BY <1>0, <3>1 DEF LoginsBehind
    <3> QED
      BY <1>2, <2>3, <3>2 DEF ListReturns, Deletions, OutrunByOverlap
  <2> QED
    BY <2>1, <2>2, <2>3 DEF Deletions, ReadBeforeDeletion, OutrunByOverlap
<1> QED
  BY <1>1, <1>2, ListNextFields

LEMMA DeletionsStep ==
  ASSUME TypeOK, Shapes, Scheduled, Deletions, [Next]_vars
  PROVE  Deletions'
<1>0. ~disturbed' => ~disturbed
  BY Undisturbed
<1>1. CASE UNCHANGED vars
  BY <1>1 DEF vars, Busy, Deletions, DeletedAreGone, ReadBeforeDeletion, OutrunByOverlap
<1>2. CASE Restart
  BY <1>0, <1>2 DEF Restart, Idle, Busy, history, Deletions, DeletedAreGone, ReadBeforeDeletion, OutrunByOverlap
<1>3. CASE Tick
  BY <1>0, <1>3 DEF Tick, Busy, stores, history, Deletions, DeletedAreGone, ReadBeforeDeletion, OutrunByOverlap
<1>4. ASSUME NEW u \in Users, CreateUser(u)
      PROVE  Deletions'
  BY <1>0, <1>4 DEF CreateUser, Busy, Deletions, DeletedAreGone, ReadBeforeDeletion, OutrunByOverlap
<1>5. ASSUME NEW t \in Tasks, Acts(t), Moves(t), ~ListNext(t)
      PROVE  Deletions'
  <2>1. UNCHANGED <<deleted, outrun>> /\ account' \subseteq account
    BY <1>5, DeletionsRecorded
  <2>2. ReadBeforeDeletion'
    BY <1>5, ReadStep
  <2> QED
    BY <1>0, <2>1, <2>2 DEF Deletions, DeletedAreGone, OutrunByOverlap
<1>6. ASSUME NEW t \in Tasks, Moves(t), ListNext(t)
      PROVE  Deletions'
  BY <1>0, <1>6, ListNextDeletions
<1> QED
  BY <1>1, <1>2, <1>3, <1>4, <1>5, <1>6, OneMoves

LEMMA DeletionsInit ==
  ASSUME Init
  PROVE  Deletions
BY DEF Init, Idle, Busy, Deletions, DeletedAreGone, ReadBeforeDeletion, OutrunByOverlap

-----------------------------------------------------------------------------
(***************************************************************************)
(* What holds while it is calm: of the stores, of a task q that finds the  *)
(* sessions S, and of the counters.                                        *)
(***************************************************************************)
Stored(S, u) == \E x \in S : x.user = u
UsersOf(S) == {x.user : x \in S}
Having(S, sid) == {x \in S : x.sid = sid}

\* Session ids.
UniqueIds == \A x, y \in sessions : x.sid = y.sid => x = y
IdsIssued == (\A x \in sessions : x.sid \in issued) /\ loggedOut \subseteq issued
FreshIds ==
  /\ \A t \in Tasks : req[t].op = "login" => req[t].sid \notin issued
  /\ \A t1, t2 \in Tasks : req[t1].op = "login" /\ req[t2].op = "login" /\ req[t1].sid = req[t2].sid
                             => t1 = t2
  /\ \A t \in Tasks : req[t].op \in {"request", "logout"} => req[t].sid \in issued

StoredWithinQuota == ActiveUsersQuota > 0 => Cardinality(UsersOf(sessions)) <= ActiveUsersQuota

\* _restore_active_users is in progress.
Restoring(q) ==
  \/ q.step \in {"restore", "restore_next"}
  \/ q.step \in {"admit", "recheck"} /\ q.adding # NoUser
  \/ q.step \in DeleteSteps /\ q.ret = "restore_next"

\* A login that has found no session of its user.
Entering(q) ==
  /\ q.op = "login"
  /\ \/ q.step \in {"add", "restore", "restore_next", "admit", "recheck", "store", "sweep", "sweep_next"}
     \/ q.step \in DeleteSteps /\ q.ret \in {"restore_next", "sweep_next"}

\* The users of stored sessions that the restore has still to count.
Pending(q, S) ==
  CASE q.step = "restore" -> UsersOf(S)
    [] q.step = "restore_next" -> UsersOf(q.outer)
    [] q.step \in {"admit", "recheck"} /\ q.adding # NoUser -> UsersOf(q.outer) \cup {q.adding}
    [] q.step \in DeleteSteps /\ q.ret = "restore_next" -> UsersOf(q.outer) \cup UsersOf(Having(S, q.del))
    [] OTHER -> {}

\* The user that is counted and whose session is about to be stored.
Reserved(q) == IF q.step = "store" THEN {q.user} ELSE {}

\* The lists of the loops, and the session that is being deleted.
ListsStored(q, S) ==
  /\ q.step \notin OtherWaits \cup {"refresh", "store"} => q.todo \subseteq S
  /\ q.outer \subseteq S
  /\ q.step \in {"user", "known", "remove_user", "removed", "auth", "add"} => q.todo = {}
  /\ ~Restoring(q) => q.outer = {} /\ q.adding = NoUser
  /\ Restoring(q) => q.todo = {}
  /\ q.step = "restore" => q.outer = {}
  /\ q.step \in {"admit", "recheck"} /\ q.adding # NoUser =>
       Stored(S, q.adding) /\ q.adding \notin UsersOf(q.outer)

DeletesStored(q, S) ==
  q.step \in DeleteSteps =>
    /\ Having(S, q.del) # {}
    /\ \A x \in q.todo \cup q.outer : x.sid # q.del
    /\ q.step = "del_rm" => \A x \in Having(S, q.del) : x.user = q.victim
    /\ q.ret = "idle" => q.del = q.sid

LoginKnows(q, S) ==
  /\ q.step = "scan_next" => \A x \in S : x.user = q.user => x \in q.todo
  /\ q.step \in DeleteSteps /\ q.ret = "scan_next" =>
       \A x \in S : x.user = q.user => x \in q.todo \/ x.sid = q.del
  /\ q.step = "refresh" =>
       \A x \in q.todo : \E y \in S : y.sid = x.sid /\ y.user = x.user
  /\ q.step = "store" => \A x \in q.todo : x.sid = q.sid /\ x.user = q.user
  /\ Entering(q) => ~Stored(S, q.user)
  /\ Entering(q) /\ q.step \notin {"add", "store"} => ActiveUsersQuota > 0

DeletionKnows(q, S) ==
  /\ q.step = "list_next" => \A x \in S : x.user = q.user => x \in q.todo
  /\ q.step \in DeleteSteps /\ q.ret = "list_next" =>
       \A x \in S : x.user = q.user => x \in q.todo \/ x.sid = q.del

Knows(q, S) == ListsStored(q, S) /\ DeletesStored(q, S) /\ LoginKnows(q, S) /\ DeletionKnows(q, S)
TasksKnow == \A t \in Tasks : Knows(req[t], sessions)

\* Past the first check of the quota the counters are, or are being, restored.
CountersRead(q) == Entering(q) /\ q.step # "add" /\ ActiveUsersQuota > 0

\* A user is counted once, if it has a session or is about to get one and the restore,
\* if one is needed, has come to it.
Tracked ==
  /\ restored => ActiveUsersQuota > 0
  /\ \A t \in Tasks : CountersRead(req[t]) => restored
  /\ \A u \in Users :
       activeUsers[u] =
         IF /\ restored
            /\ Stored(sessions, u) \/ \E t \in Tasks : u \in Reserved(req[t])
            /\ \A t \in Tasks : u \notin Pending(req[t], sessions)
         THEN 1 ELSE 0

\* The same when no other task than q is inside.
Counted(q, S, u) == (Stored(S, u) \/ u \in Reserved(q)) /\ u \notin Pending(q, S)
TrackedBy(q) ==
  /\ restored => ActiveUsersQuota > 0
  /\ CountersRead(q) => restored
  /\ \A u \in Users : activeUsers[u] = IF restored /\ Counted(q, sessions, u) THEN 1 ELSE 0

StoresConsistent ==
  /\ UniqueIds /\ IdsIssued
  /\ OneSessionPerUser /\ LogoutEndsSession
  /\ OnlyOutrunLoginsSurvive
  /\ StoredWithinQuota

Consistent == StoresConsistent /\ FreshIds /\ TasksKnow /\ Tracked

CalmInv == Calm => Consistent

-----------------------------------------------------------------------------
(***************************************************************************)
(* One task at a time: what the others know does not change.               *)
(***************************************************************************)
LEMMA PendingValues ==
  ASSUME NEW q, NEW S
  PROVE  /\ q.step = "restore" => Pending(q, S) = UsersOf(S)
         /\ q.step = "restore_next" => Pending(q, S) = UsersOf(q.outer)
         /\ q.step \in {"admit", "recheck"} /\ q.adding # NoUser =>
              Pending(q, S) = UsersOf(q.outer) \cup {q.adding}
         /\ q.step \in DeleteSteps /\ q.ret = "restore_next" =>
              Pending(q, S) = UsersOf(q.outer) \cup UsersOf(Having(S, q.del))
         /\ ~Restoring(q) => Pending(q, S) = {}
BY DEF Pending, Restoring, DeleteSteps

LEMMA OutsideKnows ==
  ASSUME NEW q, NEW S, q.step \in OtherWaits
  PROVE  /\ ~Restoring(q) /\ Pending(q, S) = {} /\ Reserved(q) = {} /\ ~CountersRead(q)
         /\ Knows(q, S) <=> /\ q.step \in {"user", "known", "remove_user", "removed"} => q.todo = {}
                            /\ q.outer = {} /\ q.adding = NoUser
<1>1. q.step \in {"idle", "dead", "user", "known", "handler", "remove_user", "removed"}
  BY DEF OtherWaits
<1>2. ~Restoring(q) /\ ~Entering(q) /\ q.step \notin DeleteSteps
  BY <1>1 DEF Restoring, Entering, DeleteSteps
<1>3. Pending(q, S) = {} /\ Reserved(q) = {} /\ ~CountersRead(q)
  BY <1>1, <1>2, PendingValues DEF Reserved, CountersRead
<1>4. DeletesStored(q, S) /\ LoginKnows(q, S) /\ DeletionKnows(q, S)
  BY <1>1, <1>2 DEF DeletesStored, LoginKnows, DeletionKnows
<1>5. ListsStored(q, S) <=> /\ q.step \in {"user", "known", "remove_user", "removed"} => q.todo = {}
                            /\ q.outer = {} /\ q.adding = NoUser
  BY <1>1, <1>2 DEF ListsStored
<1> QED
  BY <1>2, <1>3, <1>4, <1>5 DEF Knows

LEMMA Focus ==
  ASSUME Consistent, NEW t \in Tasks, \A t2 \in Tasks : t2 # t => req[t2].step \in OtherWaits
  PROVE  Knows(req[t], sessions) /\ TrackedBy(req[t])
<1>1. Knows(req[t], sessions)
  BY DEF Consistent, TasksKnow
<1>2. \A t2 \in Tasks : t2 # t => Pending(req[t2], sessions) = {} /\ Reserved(req[t2]) = {}
  BY OutsideKnows
<1>3. ASSUME NEW u \in Users
      PROVE  Counted(req[t], sessions, u) <=>
               /\ Stored(sessions, u) \/ \E t2 \in Tasks : u \in Reserved(req[t2])
               /\ \A t2 \in Tasks : u \notin Pending(req[t2], sessions)
  BY <1>2 DEF Counted
<1>4. ASSUME NEW u \in Users
      PROVE  activeUsers[u] = IF restored /\ Counted(req[t], sessions, u) THEN 1 ELSE 0
  BY <1>3 DEF Consistent, Tracked
<1> QED
  BY <1>1, <1>4 DEF Consistent, Tracked, TrackedBy

LEMMA Reassemble ==
  ASSUME Consistent, NEW t \in Tasks,
         Alone(t),
         Knows(req'[t], sessions'), TrackedBy(req[t])'
  PROVE  TasksKnow' /\ Tracked'
<1>1. ASSUME NEW t2 \in Tasks, t2 # t
      PROVE  /\ Knows(req'[t2], sessions')
             /\ Pending(req'[t2], sessions') = {} /\ Reserved(req'[t2]) = {} /\ ~CountersRead(req'[t2])
  <2>1. Knows(req[t2], sessions) /\ req[t2].step \in OtherWaits /\ req'[t2] = req[t2]
    BY <1>1 DEF Consistent, TasksKnow, Alone
  <2> QED
    BY <2>1, OutsideKnows
<1>2. TasksKnow'
  BY <1>1 DEF TasksKnow
<1>3. ASSUME NEW u \in Users
      PROVE  Counted(req'[t], sessions', u) <=>
               /\ Stored(sessions', u) \/ \E t2 \in Tasks : u \in Reserved(req'[t2])
               /\ \A t2 \in Tasks : u \notin Pending(req'[t2], sessions')
  BY <1>1 DEF Counted
<1>4. ASSUME NEW u \in Users
      PROVE  activeUsers'[u] =
               IF /\ restored'
                  /\ Stored(sessions', u) \/ \E t2 \in Tasks : u \in Reserved(req'[t2])
                  /\ \A t2 \in Tasks : u \notin Pending(req'[t2], sessions')
               THEN 1 ELSE 0
  BY <1>3 DEF TrackedBy
<1>5. (restored' => ActiveUsersQuota > 0) /\ \A t2 \in Tasks : CountersRead(req'[t2]) => restored'
  BY <1>1 DEF TrackedBy
<1> QED
  BY <1>2, <1>4, <1>5 DEF Tracked

\* The task is about the same session id, or done.
Resumes(t) ==
  \/ req'[t].op = "none"
  \/ /\ req'[t].sid = req[t].sid
     /\ req'[t].op = req[t].op \/ {req'[t].op, req[t].op} \subseteq {"request", "logout"}

LEMMA FreshKept ==
  ASSUME FreshIds, NEW t \in Tasks, issued' = issued, Resumes(t), Alone(t)
  PROVE  FreshIds'
BY DEF FreshIds, Resumes, Alone

LEMMA StoresKept ==
  ASSUME StoresConsistent, UNCHANGED <<sessions, issued, loggedOut, deleted, outrun>>
  PROVE  StoresConsistent'
BY DEF StoresConsistent, UniqueIds, IdsIssued, OneSessionPerUser, LogoutEndsSession,
       OnlyOutrunLoginsSurvive, StoredWithinQuota

\* A step that only moves the task keeps what is consistent, if the task knows
\* what it should and the same users are to be counted.
LEMMA QuietStep ==
  ASSUME Consistent, NEW t \in Tasks,
         Alone(t),
         UNCHANGED <<sessions, issued, loggedOut, deleted, outrun, activeUsers, restored>>,
         FreshIds',
         Knows(req'[t], sessions),
         CountersRead(req'[t]) => CountersRead(req[t]) \/ restored,
         restored => \A u \in Users : Counted(req'[t], sessions, u) <=> Counted(req[t], sessions, u)
  PROVE  Consistent'
<1>1. TrackedBy(req[t])
  BY Focus DEF Alone
<1>2. TrackedBy(req[t])'
  BY <1>1 DEF TrackedBy
<1>3. TasksKnow' /\ Tracked'
  BY <1>2, Reassemble
<1> QED
  BY <1>3, StoresKept DEF Consistent

LEMMA PlainCount ==
  ASSUME NEW q, NEW S, ~Restoring(q), q.step # "store"
  PROVE  \A u : Counted(q, S, u) <=> Stored(S, u)
BY PendingValues DEF Counted, Reserved

\* A step outside _restore_active_users and the storing of a new session.
LEMMA PlainStep ==
  ASSUME Consistent, NEW t \in Tasks, Alone(t),
         UNCHANGED <<sessions, issued, loggedOut, deleted, outrun, activeUsers, restored>>,
         FreshIds',
         Knows(req'[t], sessions),
         CountersRead(req'[t]) => CountersRead(req[t]) \/ restored,
         ~Restoring(req[t]), req[t].step # "store", ~Restoring(req'[t]), req'[t].step # "store"
  PROVE  Consistent'
<1>1. \A u : Counted(req'[t], sessions, u) <=> Stored(sessions, u)
  BY PlainCount
<1>2. \A u : Counted(req[t], sessions, u) <=> Stored(sessions, u)
  BY PlainCount
<1> QED
  BY <1>1, <1>2, QuietStep

LEMMA IdleKnows ==
  ASSUME NEW q, q \in {Idle, [Idle EXCEPT !.step = "dead"]}, NEW S
  PROVE  /\ Knows(q, S) /\ ~Restoring(q) /\ ~CountersRead(q) /\ q.op = "none"
         /\ q.step \in {"idle", "dead"} /\ Reserved(q) = {} /\ Pending(q, S) = {}
<1>1. /\ q.op = "none" /\ q.step \in {"idle", "dead"} /\ q.todo = {}
      /\ q.outer = {} /\ q.adding = NoUser
  BY DEF Idle
<1> QED
  BY <1>1, OutsideKnows DEF OtherWaits

LEMMA PlainEnd ==
  ASSUME TypeOK, Consistent, NEW t \in Tasks, Alone(t),
         UNCHANGED <<sessions, issued, loggedOut, deleted, outrun, activeUsers, restored>>,
         End(t) \/ Raise(t), ~Restoring(req[t]), req[t].step # "store"
  PROVE  Consistent'
<1>1. req'[t] \in {Idle, [Idle EXCEPT !.step = "dead"]}
  BY ContinueMoves DEF End, Raise
<1>2. /\ Knows(req'[t], sessions) /\ ~Restoring(req'[t]) /\ ~CountersRead(req'[t])
      /\ req'[t].op = "none" /\ req'[t].step \in {"idle", "dead"}
  BY <1>1, IdleKnows
<1>3. FreshIds'
  BY <1>2, FreshKept DEF Consistent, Resumes
<1> QED
  BY <1>2, <1>3, PlainStep

-----------------------------------------------------------------------------
(***************************************************************************)
(* Every operation keeps it so.                                            *)
(***************************************************************************)
LEMMA BeginConsistent ==
  ASSUME TypeOK, Shapes, Consistent, NEW t \in Tasks, Alone(t), Begins(t)
  PROVE  Consistent'
<1>0. UNCHANGED <<sessions, issued, loggedOut, deleted, outrun, activeUsers, restored>>
  BY DEF Begins, BeginLogin, BeginRequest, BeginDeleteUser, BeginClear, stores, counters, history
<1>1. ~Restoring(req[t]) /\ req[t].step = "idle"
  BY BeginMoves, OutsideKnows DEF OtherWaits
<1>2. /\ req'[t].step \in {"user", "auth", "remove_user", "sweep"}
      /\ req'[t].step = "auth" => req'[t].op \in {"request", "logout"}
      /\ req'[t].step = "sweep" => req'[t].op = "clear"
      /\ req'[t].todo = {} /\ req'[t].outer = {} /\ req'[t].adding = NoUser
  BY BeginFields DEF Begins
<1>3. ~Restoring(req'[t]) /\ ~Entering(req'[t]) /\ req'[t].step \notin DeleteSteps
  BY <1>2 DEF Restoring, Entering, DeleteSteps
<1>4. Knows(req'[t], sessions)
  BY <1>2, <1>3 DEF Knows, ListsStored, DeletesStored, LoginKnows, DeletionKnows, OtherWaits, DeleteSteps
<1>5. FreshIds'
  <2>1. CASE BeginLogin(t)
    <3>1. req'[t].op = "login" /\ req'[t].sid \in Fresh
      BY <2>1, BeginFields
    <3> QED
      BY <1>0, <3>1 DEF Consistent, FreshIds, Fresh, Alone
  <2>2. CASE BeginRequest(t)
    <3>1. req'[t].op \in {"request", "logout"} /\ req'[t].sid \in issued
      BY <2>2, BeginFields
    <3> QED
      BY <1>0, <3>1 DEF Consistent, FreshIds, Alone
  <2>3. CASE BeginDeleteUser(t) \/ BeginClear(t)
    <3>1. req'[t].op \in {"delete_user", "clear"}
      BY <2>3, BeginFields
    <3> QED
      BY <1>0, <3>1 DEF Consistent, FreshIds, Alone
  <2> QED
    BY <2>1, <2>2, <2>3 DEF Begins
<1> QED
  BY <1>0, <1>1, <1>2, <1>3, <1>4, <1>5, PlainStep DEF CountersRead

\* What a task knows where it stands.
LEMMA Standing ==
  ASSUME TypeOK, Shapes, Consistent, NEW t \in Tasks, Alone(t)
  PROVE  /\ Knows(req[t], sessions) /\ TrackedBy(req[t])
         /\ Shape(req[t]) /\ req[t] \in TaskType
BY Focus, TaskFields DEF Alone

\* The calls of the user store, and their answers.
LEMMA WaitsConsistent ==
  ASSUME TypeOK, Shapes, Consistent, NEW t \in Tasks, Alone(t), NEW step, Goto(t, step),
         req[t].step \in {"user", "known", "remove_user", "removed"},
         step \in {"known", "scan", "removed", "list"},
         UNCHANGED <<sessions, issued, loggedOut, deleted, outrun, activeUsers, restored>>
  PROVE  Consistent'
<1>1. /\ req[t].todo = {} /\ req[t].outer = {} /\ req[t].adding = NoUser /\ ~Restoring(req[t])
  BY Standing, OutsideKnows DEF OtherWaits
<1>2. /\ req'[t].step = step /\ req'[t].op = req[t].op /\ req'[t].todo = {} /\ req'[t].outer = {}
      /\ req'[t].adding = NoUser /\ req'[t].sid = req[t].sid
  BY <1>1, GotoFields DEF SameTask, SameLists
<1>3. ~Restoring(req'[t]) /\ ~Entering(req'[t]) /\ req'[t].step \notin DeleteSteps
  BY <1>2 DEF Restoring, Entering, DeleteSteps
<1>4. Knows(req'[t], sessions)
  BY <1>2, <1>3 DEF Knows, ListsStored, DeletesStored, LoginKnows, DeletionKnows, OtherWaits, DeleteSteps
<1>5. FreshIds'
  BY <1>1, <1>2, FreshKept DEF Consistent, Resumes
<1> QED
  BY <1>1, <1>2, <1>3, <1>4, <1>5, PlainStep DEF CountersRead

LEMMA UserCallsConsistent ==
  ASSUME TypeOK, Shapes, Consistent, NEW t \in Tasks, Alone(t),
         GetUser(t) \/ Authenticate(t) \/ RemoveUser(t) \/ DeleteSessions(t)
  PROVE  Consistent'
<1>0. UNCHANGED <<sessions, issued, loggedOut, deleted, outrun, activeUsers, restored>>
  BY DEF GetUser, Authenticate, RemoveUser, DeleteSessions, stores, counters, history
<1>1. req[t].step \in {"user", "known", "remove_user", "removed"} /\ ~Restoring(req[t])
  BY OutsideKnows DEF GetUser, Authenticate, RemoveUser, DeleteSessions, At, OtherWaits
<1>2. CASE End(t)
  BY <1>0, <1>1, <1>2, PlainEnd
<1>3. CASE \E step \in {"known", "scan", "removed", "list"} : Goto(t, step)
  BY <1>0, <1>1, <1>3, WaitsConsistent
<1> QED
  BY <1>2, <1>3 DEF GetUser, Authenticate, RemoveUser, DeleteSessions

LEMMA ScanConsistent ==
  ASSUME TypeOK, Shapes, Consistent, NEW t \in Tasks, Alone(t), Scan(t) \/ List(t)
  PROVE  Consistent'
<1>0. UNCHANGED <<sessions, issued, loggedOut, deleted, outrun, activeUsers, restored>>
  BY DEF Scan, List, stores, counters, history
<1>1. req[t].step \in {"scan", "list"} /\ ~Restoring(req[t])
  BY ScanFields DEF Restoring, DeleteSteps
<1>2. /\ req[t].outer = {} /\ req[t].adding = NoUser
      /\ req[t].step = "scan" => req[t].op = "login"
      /\ req[t].step = "list" => req[t].op = "delete_user"
  BY <1>1, Standing DEF Knows, ListsStored, LoginKnows, DeletionKnows, Shape, LoginSteps, OtherWaits
<1>3. /\ req[t].step = "scan" => req'[t].step = "scan_next"
      /\ req[t].step = "list" => req'[t].step = "list_next"
      /\ req'[t].op = req[t].op /\ req'[t].user = req[t].user /\ req'[t].sid = req[t].sid
      /\ req'[t].todo = {x \in sessions : x.user = req[t].user}
      /\ req'[t].outer = {} /\ req'[t].adding = NoUser
  BY <1>2, ScanFields DEF SameTask
<1>4. ~Restoring(req'[t]) /\ ~Entering(req'[t]) /\ req'[t].step \notin DeleteSteps
  BY <1>1, <1>3 DEF Restoring, Entering, DeleteSteps
<1>5. Knows(req'[t], sessions)
  BY <1>1, <1>2, <1>3, <1>4
     DEF Knows, ListsStored, DeletesStored, LoginKnows, DeletionKnows, OtherWaits, DeleteSteps
<1>6. FreshIds'
  BY <1>0, <1>3, FreshKept DEF Consistent, Resumes
<1> QED
  BY <1>0, <1>1, <1>3, <1>4, <1>5, <1>6, PlainStep DEF CountersRead

LEMMA ScanNextConsistent ==
  ASSUME TypeOK, Shapes, Consistent, NEW t \in Tasks, Alone(t), ScanNext(t)
  PROVE  Consistent'
<1>0. UNCHANGED <<sessions, issued, loggedOut, deleted, outrun, activeUsers, restored>>
  BY DEF ScanNext, stores, counters, history
<1>1. req[t].step = "scan_next" /\ ~Restoring(req[t])
  BY ScanNextFields DEF Restoring, DeleteSteps
<1>2. /\ req[t].outer = {} /\ req[t].adding = NoUser /\ req[t].todo \subseteq sessions
      /\ req[t].op = "login"
      /\ \A x \in sessions : x.user = req[t].user => x \in req[t].todo
  BY <1>1, Standing DEF Knows, ListsStored, LoginKnows, Shape, LoginSteps, OtherWaits
<1>3. /\ req'[t].op = "login" /\ req'[t].user = req[t].user /\ req'[t].sid = req[t].sid
      /\ req'[t].outer = {} /\ req'[t].adding = NoUser
  BY <1>2, ScanNextFields DEF SameTask
<1>4. FreshIds'
  BY <1>0, <1>2, <1>3, FreshKept DEF Consistent, Resumes
<1>5. CASE req[t].todo = {} /\ req'[t].step = "add" /\ req'[t].todo = {}
  <2>1. ~Restoring(req'[t]) /\ req'[t].step \notin DeleteSteps /\ ~Stored(sessions, req'[t].user)
    BY <1>2, <1>3, <1>5 DEF Restoring, DeleteSteps, Stored
  <2>2. Knows(req'[t], sessions)
    BY <1>2, <1>3, <1>5, <2>1
       DEF Knows, ListsStored, DeletesStored, LoginKnows, DeletionKnows, DeleteSteps
  <2> QED
    BY <1>0, <1>1, <1>4, <1>5, <2>1, <2>2, PlainStep DEF CountersRead
<1>6. ASSUME NEW x \in req[t].todo,
             req'[t].step = "del_get", req'[t].del = x.sid, req'[t].ret = "scan_next",
             req'[t].todo = req[t].todo \ {x}
      PROVE  Consistent'
  <2>1. ~Restoring(req'[t]) /\ ~Entering(req'[t])
    BY <1>6 DEF Restoring, Entering
  <2>2. ListsStored(req'[t], sessions)
    BY <1>2, <1>3, <1>6, <2>1 DEF ListsStored
  <2>3. DeletesStored(req'[t], sessions)
    BY <1>2, <1>3, <1>6 DEF DeletesStored, Having, Consistent, StoresConsistent, UniqueIds
  <2>4. LoginKnows(req'[t], sessions) /\ DeletionKnows(req'[t], sessions)
    BY <1>2, <1>3, <1>6, <2>1 DEF LoginKnows, DeletionKnows
  <2> QED
    BY <1>0, <1>1, <1>4, <1>6, <2>1, <2>2, <2>3, <2>4, PlainStep DEF CountersRead, Knows
<1>7. ASSUME NEW x \in req[t].todo,
             req'[t].step = "refresh", req'[t].todo = {[x EXCEPT !.expiry = ExpiryTime]}
      PROVE  Consistent'
  <2>1. ~Restoring(req'[t]) /\ ~Entering(req'[t]) /\ req'[t].step \notin DeleteSteps
    BY <1>7 DEF Restoring, Entering, DeleteSteps
  <2>2. x \in sessions /\ x \in Session
    BY <1>2 DEF TypeOK
  <2>3. [x EXCEPT !.expiry = ExpiryTime].sid = x.sid /\ [x EXCEPT !.expiry = ExpiryTime].user = x.user
    BY <2>2 DEF Session
  <2>4. \A z \in req'[t].todo : \E y \in sessions : y.sid = z.sid /\ y.user = z.user
    BY <1>7, <2>2, <2>3
  <2>5. Knows(req'[t], sessions)
    BY <1>2, <1>3, <1>7, <2>1, <2>4
       DEF Knows, ListsStored, DeletesStored, LoginKnows, DeletionKnows, DeleteSteps
  <2> QED
    BY <1>0, <1>1, <1>4, <1>7, <2>1, <2>5, PlainStep DEF CountersRead
<1> QED
  BY <1>5, <1>6, <1>7, ScanNextFields

LEMMA SweepConsistent ==
  ASSUME TypeOK, Shapes, Consistent, NEW t \in Tasks, Alone(t), Sweep(t)
  PROVE  Consistent'
<1>0. UNCHANGED <<sessions, issued, loggedOut, deleted, outrun, activeUsers, restored>>
  BY DEF Sweep, stores, counters, history
<1>1. req[t].step = "sweep" /\ ~Restoring(req[t])
  BY SweepFields DEF Restoring, DeleteSteps
<1>2. /\ req'[t].op = req[t].op /\ req'[t].user = req[t].user /\ req'[t].sid = req[t].sid
      /\ req'[t].step = "sweep_next" /\ req'[t].todo = sessions
      /\ req'[t].outer = req[t].outer /\ req'[t].adding = req[t].adding
  BY SweepFields DEF SameTask
<1>3. ~Restoring(req'[t]) /\ (Entering(req'[t]) <=> Entering(req[t])) /\ req'[t].step \notin DeleteSteps
  BY <1>1, <1>2 DEF Restoring, Entering, DeleteSteps
<1>4. Knows(req'[t], sessions)
  BY <1>1, <1>2, <1>3, Standing
     DEF Knows, ListsStored, DeletesStored, LoginKnows, DeletionKnows, OtherWaits, DeleteSteps
<1>5. FreshIds'
  BY <1>0, <1>2, FreshKept DEF Consistent, Resumes
<1> QED
  BY <1>0, <1>1, <1>2, <1>3, <1>4, <1>5, PlainStep DEF CountersRead

LEMMA SweepNextConsistent ==
  ASSUME TypeOK, Shapes, Consistent, NEW t \in Tasks, Alone(t), SweepNext(t)
  PROVE  Consistent'
<1>0. UNCHANGED <<sessions, issued, loggedOut, deleted, outrun, activeUsers, restored>>
  BY DEF SweepNext, stores, counters, history
<1>1. req[t].step = "sweep_next" /\ ~Restoring(req[t])
  BY SweepNextFields DEF Restoring, DeleteSteps
<1>2. /\ req[t].outer = {} /\ req[t].adding = NoUser /\ req[t].todo \subseteq sessions
      /\ SweepReturns(req[t])
      /\ req[t].op = "login" => /\ Entering(req[t])
                                /\ ~Stored(sessions, req[t].user) /\ ActiveUsersQuota > 0
  BY <1>1, Standing DEF Knows, ListsStored, LoginKnows, Shape, Entering, OtherWaits
<1>3. /\ req'[t].op = req[t].op /\ req'[t].user = req[t].user /\ req'[t].sid = req[t].sid
      /\ req'[t].outer = {} /\ req'[t].adding = NoUser
  BY <1>2, SweepNextFields DEF SameTask
<1>4. FreshIds'
  BY <1>0, <1>2, <1>3, FreshKept DEF Consistent, Resumes
<1>5. CASE /\ req[t].todo = {} /\ req'[t].todo = {} /\ req'[t].step = req[t].after
           /\ req'[t].step \in {"idle", "recheck"}
  <2>1. req'[t].step = "recheck" => req'[t].op = "login"
    BY <1>2, <1>3, <1>5 DEF SweepReturns
  <2>2. /\ ~Restoring(req'[t]) /\ req'[t].step \notin DeleteSteps
        /\ Entering(req'[t]) => Entering(req[t])
    BY <1>1, <1>3, <1>5, <2>1 DEF Restoring, Entering, DeleteSteps
  <2>3. Knows(req'[t], sessions)
    BY <1>2, <1>3, <1>5, <2>1, <2>2
       DEF Knows, ListsStored, DeletesStored, LoginKnows, DeletionKnows, DeleteSteps, OtherWaits, Entering
  <2> QED
    BY <1>0, <1>1, <1>4, <1>5, <2>2, <2>3, PlainStep DEF CountersRead
<1>6. ASSUME NEW x \in req[t].todo,
             req'[t].step = "del_get", req'[t].del = x.sid, req'[t].ret = "sweep_next",
             req'[t].todo = req[t].todo \ {x}
      PROVE  Consistent'
  <2>1. ~Restoring(req'[t]) /\ (Entering(req'[t]) => Entering(req[t]))
    BY <1>1, <1>3, <1>6 DEF Restoring, Entering
  <2>2. ListsStored(req'[t], sessions)
    BY <1>2, <1>3, <1>6, <2>1 DEF ListsStored
  <2>3. DeletesStored(req'[t], sessions)
    BY <1>2, <1>3, <1>6 DEF DeletesStored, Having, Consistent, StoresConsistent, UniqueIds
  <2>4. LoginKnows(req'[t], sessions) /\ DeletionKnows(req'[t], sessions)
    BY <1>2, <1>3, <1>6, <2>1 DEF LoginKnows, DeletionKnows, SweepReturns, Entering
  <2> QED
    BY <1>0, <1>1, <1>4, <1>6, <2>1, <2>2, <2>3, <2>4, PlainStep DEF CountersRead, Knows
<1>7. ASSUME NEW x \in req[t].todo, req'[t].step = "sweep_next", req'[t].todo = req[t].todo \ {x}
      PROVE  Consistent'
  <2>1. /\ ~Restoring(req'[t]) /\ req'[t].step \notin DeleteSteps
        /\ Entering(req'[t]) => Entering(req[t])
    BY <1>1, <1>3, <1>7 DEF Restoring, Entering, DeleteSteps
  <2>2. Knows(req'[t], sessions)
    BY <1>2, <1>3, <1>7, <2>1
       DEF Knows, ListsStored, DeletesStored, LoginKnows, DeletionKnows, DeleteSteps, SweepReturns, Entering
  <2> QED
    BY <1>0, <1>1, <1>4, <1>7, <2>1, <2>2, PlainStep DEF CountersRead
<1> QED
  BY <1>5, <1>6, <1>7, SweepNextFields

\* The session is there: nobody has deleted it meanwhile.
LEMMA DeleteGetConsistent ==
  ASSUME TypeOK, Shapes, Consistent, NEW t \in Tasks, Alone(t), DeleteGet(t)
  PROVE  Consistent'
<1>0. UNCHANGED <<sessions, issued, loggedOut, deleted, outrun, activeUsers, restored>>
  BY DEF DeleteGet, stores, counters, history
<1>1. req[t].step = "del_get" /\ Knows(req[t], sessions)
  BY DeleteGetFields, Standing
<1>2. Having(sessions, req[t].del) # {}
  BY <1>1 DEF Knows, DeletesStored, DeleteSteps
<1>3. PICK x \in Having(sessions, req[t].del) :
        /\ SameTask(t) /\ SameReturns(t) /\ SameLists(t) /\ req'[t].adding = req[t].adding
        /\ req'[t].step = "del_rm" /\ req'[t].del = req[t].del /\ req'[t].victim = x.user
  BY <1>2, DeleteGetFields DEF Having, Lookup
<1>4. /\ req'[t].op = req[t].op /\ req'[t].user = req[t].user /\ req'[t].sid = req[t].sid
      /\ req'[t].ret = req[t].ret /\ req'[t].todo = req[t].todo /\ req'[t].outer = req[t].outer
  BY <1>3 DEF SameTask, SameReturns, SameLists
<1>5. \A y \in Having(sessions, req[t].del) : y.user = req'[t].victim
  BY <1>3 DEF Having, Consistent, StoresConsistent, UniqueIds
<1>6. /\ Restoring(req'[t]) <=> Restoring(req[t])
      /\ Entering(req'[t]) <=> Entering(req[t])
  BY <1>1, <1>3, <1>4 DEF Restoring, Entering, DeleteSteps
<1>7. ListsStored(req'[t], sessions)
  BY <1>1, <1>3, <1>4, <1>6 DEF Knows, ListsStored, OtherWaits
<1>8. DeletesStored(req'[t], sessions)
  BY <1>1, <1>3, <1>4, <1>5 DEF Knows, DeletesStored, DeleteSteps
<1>9. LoginKnows(req'[t], sessions) /\ DeletionKnows(req'[t], sessions)
  BY <1>1, <1>3, <1>4, <1>6 DEF Knows, LoginKnows, DeletionKnows, OtherWaits, DeleteSteps
<1>10. FreshIds'
  BY <1>0, <1>4, FreshKept DEF Consistent, Resumes
<1>11. Pending(req'[t], sessions) = Pending(req[t], sessions) /\ Reserved(req'[t]) = Reserved(req[t])
  <2>1. CASE req[t].ret = "restore_next"
    <3>1. /\ Pending(req[t], sessions) =
               UsersOf(req[t].outer) \cup UsersOf(Having(sessions, req[t].del))
          /\ Pending(req'[t], sessions) =
               UsersOf(req'[t].outer) \cup UsersOf(Having(sessions, req'[t].del))
      BY <1>1, <1>3, <1>4, <2>1, PendingValues DEF DeleteSteps
    <3>2. Reserved(req'[t]) = Reserved(req[t])
      BY <1>1, <1>3 DEF Reserved
    <3> QED
      BY <1>3, <1>4, <3>1, <3>2
  <2>2. CASE req[t].ret # "restore_next"
    <3>1. ~Restoring(req[t]) /\ ~Restoring(req'[t])
      BY <1>1, <1>6, <2>2 DEF Restoring
    <3> QED
      BY <1>1, <1>3, <3>1, PendingValues DEF Reserved
  <2> QED
    BY <2>1, <2>2
<1>12. \A u \in Users : Counted(req'[t], sessions, u) <=> Counted(req[t], sessions, u)
  BY <1>11 DEF Counted
<1>13. CountersRead(req'[t]) => CountersRead(req[t])
  BY <1>1, <1>6 DEF CountersRead
<1> QED
  BY <1>0, <1>7, <1>8, <1>9, <1>10, <1>12, <1>13, QuietStep DEF Knows

LEMMA HandlerConsistent ==
  ASSUME TypeOK, Shapes, Consistent, NEW t \in Tasks, Alone(t), Handler(t)
  PROVE  Consistent'
<1>0. UNCHANGED <<sessions, issued, loggedOut, deleted, outrun, activeUsers, restored>>
  BY DEF Handler, stores, counters, history
<1>1. req[t].step = "handler" /\ ~Restoring(req[t])
  BY OutsideKnows DEF Handler, At, OtherWaits
<1> QED
  BY <1>0, <1>1, PlainEnd DEF Handler

\* The deletion of a user returns, or goes on with its next session.
LEMMA ListNextConsistent ==
  ASSUME TypeOK, Shapes, Consistent, NEW t \in Tasks, Alone(t), ListNext(t)
  PROVE  Consistent'
<1>0. UNCHANGED <<sessions, issued, loggedOut, activeUsers, restored>>
  BY DEF ListNext, stores, counters
<1>1. req[t].step = "list_next" /\ ~Restoring(req[t])
  BY ListNextFields DEF Restoring, DeleteSteps
<1>2. /\ req[t].outer = {} /\ req[t].adding = NoUser /\ req[t].todo \subseteq sessions
      /\ req[t].op = "delete_user"
      /\ \A x \in sessions : x.user = req[t].user => x \in req[t].todo
  BY <1>1, Standing DEF Knows, ListsStored, DeletionKnows, Shape, OtherWaits
<1>3. CASE req[t].todo = {} /\ req'[t] = Idle /\ ListReturns(t)
  <2>1. /\ Knows(req'[t], sessions') /\ ~Restoring(req'[t]) /\ ~CountersRead(req'[t])
        /\ req'[t].op = "none" /\ req'[t].step \in {"idle", "dead"}
    BY <1>3, IdleKnows
  <2>2. FreshIds'
    BY <1>0, <2>1, FreshKept DEF Consistent, Resumes
  <2>3. \A x \in sessions : x.user # req[t].user
    BY <1>2, <1>3
  <2>4. StoresConsistent'
    BY <1>0, <1>2, <1>3, <2>3
       DEF Consistent, StoresConsistent, UniqueIds, IdsIssued, OneSessionPerUser, LogoutEndsSession,
           OnlyOutrunLoginsSurvive, StoredWithinQuota, ListReturns
  <2>5. \A u : Counted(req'[t], sessions, u) <=> Counted(req[t], sessions, u)
    BY <1>1, <2>1, PlainCount
  <2>6. TrackedBy(req[t])'
    BY <1>0, <2>1, <2>5, Standing DEF TrackedBy
  <2> QED
    BY <2>1, <2>2, <2>4, <2>6, Reassemble DEF Consistent
<1>4. ASSUME NEW x \in req[t].todo,
             req'[t].step = "del_get", req'[t].del = x.sid, req'[t].ret = "list_next",
             req'[t].todo = req[t].todo \ {x}, SameTask(t),
             req'[t].outer = req[t].outer, req'[t].adding = req[t].adding,
             UNCHANGED <<deleted, outrun>>
      PROVE  Consistent'
  <2>0. req'[t].op = "delete_user" /\ req'[t].user = req[t].user /\ req'[t].sid = req[t].sid
    BY <1>2, <1>4 DEF SameTask
  <2>1. ~Restoring(req'[t]) /\ ~Entering(req'[t])
    BY <1>4, <2>0 DEF Restoring, Entering
  <2>2. ListsStored(req'[t], sessions)
    BY <1>2, <1>4, <2>1 DEF ListsStored
  <2>3. DeletesStored(req'[t], sessions)
    BY <1>2, <1>4 DEF DeletesStored, Having, Consistent, StoresConsistent, UniqueIds
  <2>4. LoginKnows(req'[t], sessions) /\ DeletionKnows(req'[t], sessions)
    BY <1>2, <1>4, <2>0, <2>1 DEF LoginKnows, DeletionKnows
  <2>5. FreshIds'
    BY <1>0, <1>2, <2>0, FreshKept DEF Consistent, Resumes
  <2> QED
    BY <1>0, <1>1, <1>4, <2>1, <2>2, <2>3, <2>4, <2>5, PlainStep DEF CountersRead, Knows
<1> QED
  BY <1>3, <1>4, ListNextFields

\* The quota: what a login has to do before its user may be counted.
LEMMA AddConsistent ==
  ASSUME TypeOK, Shapes, Consistent, NEW t \in Tasks, Alone(t), Add(t)
  PROVE  Consistent'
<1>0. UNCHANGED <<sessions, issued, loggedOut, deleted, outrun, activeUsers>>
  BY DEF Add, stores, history
<1>1. req[t].step = "add" /\ ~Restoring(req[t])
  BY DEF Add, At, Restoring, DeleteSteps
<1>2. /\ req[t].outer = {} /\ req[t].adding = NoUser /\ req[t].todo \subseteq sessions
      /\ req[t].op = "login" /\ ~Stored(sessions, req[t].user)
  BY <1>1, Standing DEF Knows, ListsStored, LoginKnows, Shape, LoginSteps, OtherWaits, Entering
<1>3. TrackedBy(req[t]) /\ (restored => ActiveUsersQuota > 0)
  BY Standing DEF TrackedBy
<1>4. ASSUME SameTask(t)
      PROVE  FreshIds' /\ req'[t].op = "login" /\ req'[t].user = req[t].user /\ req'[t].sid = req[t].sid
  BY <1>0, <1>2, <1>4, FreshKept DEF Consistent, Resumes, SameTask
<1>5. CASE ActiveUsersQuota <= 0 /\ CallStore(t) /\ restored' = restored
  <2>1. /\ SameTask(t) /\ req'[t].outer = {} /\ req'[t].step = "store" /\ req'[t].adding = NoUser
        /\ req'[t].todo = {[sid |-> req[t].sid, user |-> req[t].user, expiry |-> ExpiryTime]}
    BY <1>2, <1>5, StoreFields
  <2>2. \A x \in req'[t].todo : x.sid = req'[t].sid /\ x.user = req'[t].user
    BY <1>4, <2>1
  <2>3. ~(ActiveUsersQuota > 0)
    BY <1>5, SessionAssumption
  <2>4. ~Restoring(req'[t]) /\ req'[t].step \notin DeleteSteps
    BY <2>1 DEF Restoring, DeleteSteps
  <2>5. Knows(req'[t], sessions)
    BY <1>2, <1>4, <2>1, <2>2, <2>4
       DEF Knows, ListsStored, DeletesStored, LoginKnows, DeletionKnows, DeleteSteps
  <2>6. ~CountersRead(req'[t]) /\ ~restored
    BY <1>3, <2>3 DEF CountersRead
  <2> QED
    BY <1>0, <1>4, <1>5, <2>1, <2>5, <2>6, QuietStep
<1>6. CASE ActiveUsersQuota > 0 /\ ~restored /\ restored' = TRUE /\ Goto(t, "restore")
  <2>1. /\ SameTask(t) /\ req'[t].outer = {} /\ req'[t].adding = NoUser
        /\ req'[t].step = "restore" /\ req'[t].todo = req[t].todo
    BY <1>2, <1>6, GotoFields DEF SameLists
  <2>2. Restoring(req'[t]) /\ req'[t].step \notin DeleteSteps
    BY <2>1 DEF Restoring, DeleteSteps
  <2>3. req[t].todo = {}
    BY <1>1, Standing DEF Knows, ListsStored
  <2>4. Knows(req'[t], sessions')
    BY <1>0, <1>2, <1>4, <1>6, <2>1, <2>2, <2>3
       DEF Knows, ListsStored, DeletesStored, LoginKnows, DeletionKnows, DeleteSteps
  <2>5. ASSUME NEW u
        PROVE  ~Counted(req'[t], sessions, u)
    BY <2>1, PendingValues DEF Counted, Reserved, UsersOf, Stored
  <2>6. TrackedBy(req[t])'
    BY <1>0, <1>3, <1>6, <2>5 DEF TrackedBy
  <2> QED
    BY <1>0, <1>4, <2>1, <2>4, <2>6, Reassemble, StoresKept DEF Consistent
<1>7. CASE ActiveUsersQuota > 0 /\ restored /\ Goto(t, "admit") /\ restored' = restored
  <2>1. /\ SameTask(t) /\ req'[t].outer = {} /\ req'[t].adding = NoUser
        /\ req'[t].step = "admit" /\ req'[t].todo = req[t].todo
    BY <1>2, <1>7, GotoFields DEF SameLists
  <2>2. ~Restoring(req'[t]) /\ req'[t].step \notin DeleteSteps
    BY <2>1 DEF Restoring, DeleteSteps
  <2>3. Knows(req'[t], sessions)
    BY <1>2, <1>4, <1>7, <2>1, <2>2
       DEF Knows, ListsStored, DeletesStored, LoginKnows, DeletionKnows, DeleteSteps
  <2> QED
    BY <1>0, <1>1, <1>4, <1>7, <2>1, <2>2, <2>3, PlainStep
<1> QED
  BY <1>5, <1>6, <1>7, AddSteps

LEMMA RestoreConsistent ==
  ASSUME TypeOK, Shapes, Consistent, NEW t \in Tasks, Alone(t), Restore(t)
  PROVE  Consistent'
<1>0. UNCHANGED <<sessions, issued, loggedOut, deleted, outrun, activeUsers, restored>>
  BY DEF Restore, stores, counters, history
<1>1. /\ req[t].step = "restore" /\ req'[t].step = "restore_next"
      /\ req'[t].op = req[t].op /\ req'[t].user = req[t].user /\ req'[t].sid = req[t].sid
      /\ req'[t].outer = sessions /\ req'[t].todo = req[t].todo /\ req'[t].adding = req[t].adding
  BY RestoreFields DEF SameTask
<1>2. /\ Restoring(req[t]) /\ Restoring(req'[t]) /\ req'[t].step \notin DeleteSteps
      /\ Entering(req'[t]) <=> Entering(req[t])
  BY <1>1 DEF Restoring, Entering, DeleteSteps
<1>3. Knows(req'[t], sessions)
  BY <1>1, <1>2, Standing
     DEF Knows, ListsStored, DeletesStored, LoginKnows, DeletionKnows, DeleteSteps, OtherWaits
<1>4. FreshIds'
  BY <1>0, <1>1, FreshKept DEF Consistent, Resumes
<1>5. Pending(req'[t], sessions) = Pending(req[t], sessions) /\ Reserved(req'[t]) = Reserved(req[t])
  BY <1>1, PendingValues DEF Reserved
<1>6. \A u \in Users : Counted(req'[t], sessions, u) <=> Counted(req[t], sessions, u)
  BY <1>5 DEF Counted
<1> QED
  BY <1>0, <1>1, <1>2, <1>3, <1>4, <1>6, QuietStep DEF CountersRead

LEMMA RestoreNextConsistent ==
  ASSUME TypeOK, Shapes, Consistent, NEW t \in Tasks, Alone(t), RestoreNext(t)
  PROVE  Consistent'
<1>0. UNCHANGED <<sessions, issued, loggedOut, deleted, outrun, activeUsers, restored>>
  BY DEF RestoreNext, stores, counters, history
<1>1. /\ req[t].step = "restore_next" /\ Restoring(req[t]) /\ req[t].op = "login" /\ Entering(req[t])
  BY RestoreNextFields, Standing DEF Restoring, Entering, Shape, LoginSteps
<1>2. /\ req[t].todo = {} /\ req[t].outer \subseteq sessions
      /\ ~Stored(sessions, req[t].user) /\ ActiveUsersQuota > 0
  BY <1>1, Standing DEF Knows, ListsStored, LoginKnows, OtherWaits
<1>3. /\ req'[t].op = "login" /\ req'[t].user = req[t].user /\ req'[t].sid = req[t].sid
      /\ req'[t].todo = {}
  BY <1>1, <1>2, RestoreNextFields DEF SameTask
<1>4. FreshIds'
  BY <1>0, <1>1, <1>3, FreshKept DEF Consistent, Resumes
<1>5. CountersRead(req[t]) /\ Pending(req[t], sessions) = UsersOf(req[t].outer) /\ Reserved(req[t]) = {}
  BY <1>1, <1>2, PendingValues DEF CountersRead, Reserved
<1>6. ASSUME Pending(req'[t], sessions) = UsersOf(req[t].outer), Reserved(req'[t]) = {},
             Knows(req'[t], sessions)
      PROVE  Consistent'
  <2>1. \A u \in Users : Counted(req'[t], sessions, u) <=> Counted(req[t], sessions, u)
    BY <1>5, <1>6 DEF Counted
  <2> QED
    BY <1>0, <1>4, <1>5, <1>6, <2>1, QuietStep
<1>7. ASSUME NEW x \in req[t].outer
      PROVE  /\ x \in sessions /\ x \in Session
             /\ UsersOf(req[t].outer) = UsersOf(req[t].outer \ {x}) \cup {x.user}
             /\ x.user \notin UsersOf(req[t].outer \ {x})
             /\ Having(sessions, x.sid) = {x} /\ UsersOf({x}) = {x.user}
             /\ \A y \in req[t].outer \ {x} : y.sid # x.sid
  <2>1. x \in sessions /\ x \in Session
    BY <1>2, <1>7 DEF TypeOK
  <2>2. UsersOf(req[t].outer) = UsersOf(req[t].outer \ {x}) \cup {x.user} /\ UsersOf({x}) = {x.user}
    BY <1>7 DEF UsersOf
  <2>3. x.user \notin UsersOf(req[t].outer \ {x})
    BY <1>2, <2>1 DEF UsersOf, Consistent, StoresConsistent, OneSessionPerUser
  <2>4. Having(sessions, x.sid) = {x} /\ \A y \in req[t].outer \ {x} : y.sid # x.sid
    BY <1>2, <2>1 DEF Having, Consistent, StoresConsistent, UniqueIds
  <2> QED
    BY <2>1, <2>2, <2>3, <2>4
<1>8. CASE req[t].outer = {} /\ req'[t].outer = {} /\ req'[t].step = "admit" /\ req'[t].adding = NoUser
  <2>1. ~Restoring(req'[t]) /\ req'[t].step \notin DeleteSteps
    BY <1>8 DEF Restoring, DeleteSteps
  <2>2. Pending(req'[t], sessions) = UsersOf(req[t].outer) /\ Reserved(req'[t]) = {}
    BY <1>8, <2>1, PendingValues DEF Reserved, UsersOf
  <2>3. Knows(req'[t], sessions)
    BY <1>2, <1>3, <1>8, <2>1
       DEF Knows, ListsStored, DeletesStored, LoginKnows, DeletionKnows, DeleteSteps
  <2> QED
    BY <1>6, <2>2, <2>3
<1>9. ASSUME NEW x \in req[t].outer,
             req'[t].step = "del_get", req'[t].del = x.sid, req'[t].ret = "restore_next",
             req'[t].outer = req[t].outer \ {x}, req'[t].adding = req[t].adding
      PROVE  Consistent'
  <2>0. /\ UsersOf(req[t].outer) = UsersOf(req[t].outer \ {x}) \cup {x.user}
        /\ Having(sessions, x.sid) = {x} /\ UsersOf({x}) = {x.user}
        /\ \A y \in req[t].outer \ {x} : y.sid # x.sid
    BY <1>7
  <2>1. Restoring(req'[t]) /\ req'[t].step \in DeleteSteps
    BY <1>9 DEF Restoring, DeleteSteps
  <2>2. Pending(req'[t], sessions) = UsersOf(req[t].outer) /\ Reserved(req'[t]) = {}
    <3>1. Pending(req'[t], sessions) = UsersOf(req'[t].outer) \cup UsersOf(Having(sessions, req'[t].del))
      BY <1>9, <2>1, PendingValues
    <3>2. Pending(req'[t], sessions) = UsersOf(req[t].outer \ {x}) \cup {x.user}
      BY <1>9, <2>0, <3>1
    <3> QED
      BY <1>9, <2>0, <3>2 DEF Reserved
  <2>3. ListsStored(req'[t], sessions)
    BY <1>2, <1>3, <1>9, <2>1 DEF ListsStored
  <2>4. DeletesStored(req'[t], sessions)
    BY <1>3, <1>9, <2>0 DEF DeletesStored
  <2>5. LoginKnows(req'[t], sessions) /\ DeletionKnows(req'[t], sessions)
    BY <1>2, <1>3, <1>9 DEF LoginKnows, DeletionKnows
  <2> QED
    BY <1>6, <2>2, <2>3, <2>4, <2>5 DEF Knows
<1>10. ASSUME NEW x \in req[t].outer,
              req'[t].step = "admit", req'[t].adding = x.user, req'[t].outer = req[t].outer \ {x}
       PROVE  Consistent'
  <2>a. /\ x \in sessions /\ x \in Session
        /\ UsersOf(req[t].outer) = UsersOf(req[t].outer \ {x}) \cup {x.user}
        /\ x.user \notin UsersOf(req[t].outer \ {x})
    BY <1>7
  <2>0. x.user # NoUser
    BY <2>a, SessionAssumption DEF Session
  <2>1. Restoring(req'[t]) /\ req'[t].step \notin DeleteSteps
    BY <1>10, <2>0 DEF Restoring, DeleteSteps
  <2>2. Pending(req'[t], sessions) = UsersOf(req[t].outer) /\ Reserved(req'[t]) = {}
    <3>1. Pending(req'[t], sessions) = UsersOf(req'[t].outer) \cup {req'[t].adding}
      BY <1>10, <2>0, PendingValues
    <3> QED
      BY <1>10, <2>a, <3>1 DEF Reserved
  <2>3. Stored(sessions, x.user)
    BY <2>a DEF Stored
  <2>4. ListsStored(req'[t], sessions)
    BY <1>2, <1>3, <1>10, <2>a, <2>1, <2>3 DEF ListsStored
  <2>5. DeletesStored(req'[t], sessions)
    BY <2>1 DEF DeletesStored
  <2>6. LoginKnows(req'[t], sessions) /\ DeletionKnows(req'[t], sessions)
    BY <1>2, <1>3, <1>10, <2>1 DEF LoginKnows, DeletionKnows
  <2> QED
    BY <1>6, <2>2, <2>4, <2>5, <2>6 DEF Knows
<1> QED
  BY <1>8, <1>9, <1>10, RestoreNextFields

\* The users that are counted while q is inside.
LEMMA ActiveAre ==
  ASSUME TypeOK, NEW q, TrackedBy(q)
  PROVE  ActiveUsers = {u \in Users : restored /\ Counted(q, sessions, u)}
<1>1. ASSUME NEW u \in Users
      PROVE  activeUsers[u] > 0 <=> restored /\ Counted(q, sessions, u)
  <2>1. activeUsers[u] = IF restored /\ Counted(q, sessions, u) THEN 1 ELSE 0
    BY DEF TrackedBy
  <2>2. CASE restored /\ Counted(q, sessions, u)
    BY <2>1, <2>2
  <2>3. CASE ~(restored /\ Counted(q, sessions, u))
    BY <2>1, <2>3
  <2> QED
    BY <2>2, <2>3
<1> QED
  BY <1>1 DEF ActiveUsers

LEMMA UsersOfSessions ==
  ASSUME TypeOK
  PROVE  UsersOf(sessions) \subseteq Users /\ IsFiniteSet(UsersOf(sessions))
<1>1. UsersOf(sessions) \subseteq Users
  BY DEF TypeOK, UsersOf, Session
<1> QED
  BY <1>1, SessionAssumption, FS_Subset

\* The restore always finds room: fewer users are counted than have sessions.
LEMMA RoomToRestore ==
  ASSUME TypeOK, Shapes, Consistent, NEW t \in Tasks, Alone(t),
         req[t].step \in {"admit", "recheck"}, req[t].adding # NoUser
  PROVE  /\ Cardinality(ActiveUsers) < ActiveUsersQuota
         /\ req[t].adding \in Users /\ activeUsers[req[t].adding] = 0 /\ restored
<1>1. /\ Knows(req[t], sessions) /\ TrackedBy(req[t])
      /\ Shape(req[t]) /\ req[t].adding \in Users
  BY Standing DEF TaskType
<1>2. Entering(req[t]) /\ req[t].step \notin {"add", "store"}
  BY <1>1 DEF Entering, Shape, LoginSteps
<1>3. ActiveUsersQuota > 0 /\ restored
  BY <1>1, <1>2 DEF Knows, LoginKnows, TrackedBy, CountersRead
<1>4. Stored(sessions, req[t].adding)
  BY <1>1 DEF Knows, ListsStored
<1>5. req[t].adding \in UsersOf(sessions)
  BY <1>4 DEF Stored, UsersOf
<1>6. req[t].adding \in Pending(req[t], sessions) /\ Reserved(req[t]) = {}
  BY PendingValues DEF Reserved
<1>7. ActiveUsers \in SUBSET (UsersOf(sessions) \ {req[t].adding})
  <2>1. ActiveUsers = {u \in Users : restored /\ Counted(req[t], sessions, u)}
    BY <1>1, ActiveAre
  <2> QED
    BY <1>6, <2>1 DEF Counted, Stored, UsersOf
<1>8. activeUsers[req[t].adding] = 0
  BY <1>1, <1>7 DEF ActiveUsers, TypeOK
<1>9. /\ IsFiniteSet(UsersOf(sessions) \ {req[t].adding})
      /\ Cardinality(UsersOf(sessions) \ {req[t].adding}) = Cardinality(UsersOf(sessions)) - 1
  BY <1>5, UsersOfSessions, FS_RemoveElement
<1>10. Cardinality(ActiveUsers) <= Cardinality(UsersOf(sessions) \ {req[t].adding})
  BY <1>7, <1>9, FS_Subset
<1>11. Cardinality(UsersOf(sessions)) <= ActiveUsersQuota /\ Cardinality(UsersOf(sessions)) \in Nat
  BY <1>3, UsersOfSessions, FS_CardinalityType DEF Consistent, StoresConsistent, StoredWithinQuota
<1>12. Cardinality(ActiveUsers) < ActiveUsersQuota
  BY <1>9, <1>10, <1>11, ActiveUsersFinite, SessionAssumption
<1> QED
  BY <1>1, <1>3, <1>8, <1>12

LEMMA AdmitConsistent ==
  ASSUME TypeOK, Shapes, Consistent, NEW t \in Tasks, Alone(t), Admit(t)
  PROVE  Consistent'
<1>0. UNCHANGED <<sessions, issued, loggedOut, deleted, outrun, activeUsers, restored>>
  BY DEF Admit, stores, counters, history
<1>1. /\ req[t].step = "admit" /\ req[t].op = "login" /\ Entering(req[t])
      /\ Knows(req[t], sessions)
  BY AdmitFields, Standing DEF Entering, Shape, LoginSteps
<1>2. /\ req'[t].op = "login" /\ req'[t].user = req[t].user /\ req'[t].sid = req[t].sid
      /\ req'[t].todo = req[t].todo /\ req'[t].outer = req[t].outer /\ req'[t].adding = req[t].adding
      /\ req'[t].step \in {"sweep", "recheck"}
  BY <1>1, AdmitFields DEF SameTask, SameLists
<1>3. FreshIds'
  BY <1>0, <1>1, <1>2, FreshKept DEF Consistent, Resumes
<1>4. Entering(req'[t]) /\ CountersRead(req'[t]) => CountersRead(req[t])
  BY <1>1, <1>2 DEF Entering, CountersRead
<1>5. LoginKnows(req'[t], sessions) /\ DeletionKnows(req'[t], sessions)
      /\ DeletesStored(req'[t], sessions)
  BY <1>1, <1>2, <1>4 DEF Knows, LoginKnows, DeletionKnows, DeletesStored, DeleteSteps, OtherWaits, Entering
<1>6. CASE req[t].adding = NoUser
  <2>1. ~Restoring(req[t]) /\ ~Restoring(req'[t])
    BY <1>1, <1>2, <1>6 DEF Restoring, DeleteSteps
  <2>2. ListsStored(req'[t], sessions)
    BY <1>1, <1>2, <1>6, <2>1 DEF Knows, ListsStored, OtherWaits
  <2> QED
    BY <1>0, <1>1, <1>2, <1>3, <1>4, <1>5, <2>1, <2>2, PlainStep DEF CountersRead, Knows
<1>7. CASE req[t].adding # NoUser
  <2>1. Cardinality(ActiveUsers) < ActiveUsersQuota
    BY <1>1, <1>7, RoomToRestore
  <2>2. req'[t].step = "recheck"
    BY <2>1, AdmitFields, ActiveUsersFinite, SessionAssumption
  <2>3. Restoring(req[t]) /\ Restoring(req'[t])
    BY <1>1, <1>2, <1>7, <2>2 DEF Restoring
  <2>4. ListsStored(req'[t], sessions)
    BY <1>1, <1>2, <1>7, <2>2, <2>3 DEF Knows, ListsStored, OtherWaits
  <2>5. Pending(req'[t], sessions) = Pending(req[t], sessions) /\ Reserved(req'[t]) = Reserved(req[t])
    BY <1>1, <1>2, <1>7, <2>2, PendingValues DEF Reserved
  <2>6. \A u \in Users : Counted(req'[t], sessions, u) <=> Counted(req[t], sessions, u)
    BY <2>5 DEF Counted
  <2> QED
    BY <1>0, <1>3, <1>4, <1>5, <2>4, <2>6, QuietStep DEF Knows, CountersRead, Entering
<1> QED
  BY <1>6, <1>7

LEMMA RecheckNested ==
  ASSUME NEW t \in Tasks, Recheck(t), req[t].adding # NoUser, ~QuotaFull(req[t].adding)
  PROVE  activeUsers' = [activeUsers EXCEPT ![req[t].adding] = @ + 1] /\ Goto(t, "restore_next")
BY DEF Recheck

LEMMA RecheckOwn ==
  ASSUME NEW t \in Tasks, Recheck(t), req[t].adding = NoUser
  PROVE  \/ QuotaFull(req[t].user) /\ activeUsers' = activeUsers /\ Raise(t)
         \/ /\ ~QuotaFull(req[t].user) /\ CallStore(t)
            /\ activeUsers' = [activeUsers EXCEPT ![req[t].user] = @ + 1]
BY DEF Recheck

LEMMA RecheckConsistent ==
  ASSUME TypeOK, Shapes, Consistent, NEW t \in Tasks, Alone(t), Recheck(t)
  PROVE  Consistent'
<1>0. UNCHANGED <<sessions, issued, loggedOut, deleted, outrun, restored>>
  BY DEF Recheck, stores, history
<1>1. /\ req[t].step = "recheck" /\ req[t].op = "login" /\ req[t].user \in Users /\ Entering(req[t])
      /\ Knows(req[t], sessions) /\ TrackedBy(req[t])
  BY Standing DEF Recheck, At, Entering, Shape, LoginSteps
<1>2. /\ ~Stored(sessions, req[t].user) /\ ActiveUsersQuota > 0 /\ restored
  BY <1>1 DEF Knows, LoginKnows, TrackedBy, CountersRead, OtherWaits
<1>3. ASSUME SameTask(t)
      PROVE  FreshIds' /\ req'[t].op = "login" /\ req'[t].user = req[t].user /\ req'[t].sid = req[t].sid
  BY <1>0, <1>1, <1>3, FreshKept DEF Consistent, Resumes, SameTask
<1>4. CASE req[t].adding # NoUser
  <2> DEFINE v == req[t].adding
  <2>1. Cardinality(ActiveUsers) < ActiveUsersQuota /\ v \in Users /\ activeUsers[v] = 0
    BY <1>1, <1>4, RoomToRestore
  <2>2. ~QuotaFull(v)
    BY <2>1, ActiveUsersFinite, SessionAssumption DEF QuotaFull
  <2>3. activeUsers' = [activeUsers EXCEPT ![v] = @ + 1] /\ Goto(t, "restore_next")
    BY <1>4, <2>2, RecheckNested
  <2>4. /\ SameTask(t) /\ req'[t].step = "restore_next"
        /\ req'[t].todo = req[t].todo /\ req'[t].outer = req[t].outer
    BY <2>3, GotoFields DEF SameLists
  <2>5. Restoring(req[t]) /\ Restoring(req'[t]) /\ req'[t].step \notin DeleteSteps
    BY <1>1, <1>4, <2>4 DEF Restoring, DeleteSteps
  <2>6. /\ req[t].todo = {} /\ req[t].outer \subseteq sessions /\ Stored(sessions, v)
        /\ v \notin UsersOf(req[t].outer)
    BY <1>1, <1>4, <2>5 DEF Knows, ListsStored
  <2>7. Knows(req'[t], sessions')
    BY <1>0, <1>2, <1>3, <2>4, <2>5, <2>6
       DEF Knows, ListsStored, DeletesStored, LoginKnows, DeletionKnows, DeleteSteps
  <2>8. /\ Pending(req[t], sessions) = UsersOf(req[t].outer) \cup {v} /\ Reserved(req[t]) = {}
        /\ Pending(req'[t], sessions) = UsersOf(req[t].outer) /\ Reserved(req'[t]) = {}
    BY <1>1, <1>4, <2>4, PendingValues DEF Reserved
  <2> HIDE DEF v
  <2>9. ASSUME NEW u \in Users
        PROVE  activeUsers'[u] = IF restored /\ Counted(req'[t], sessions, u) THEN 1 ELSE 0
    <3>1. CASE u = v
      <4>1. Counted(req'[t], sessions, u)
        BY <2>6, <2>8, <3>1 DEF Counted
      <4>2. activeUsers'[u] = 1
        BY <2>1, <2>3, <3>1 DEF TypeOK
      <4> QED
        BY <1>2, <4>1, <4>2
    <3>2. CASE u # v
      <4>1. Counted(req'[t], sessions, u) <=> Counted(req[t], sessions, u)
        BY <2>8, <3>2 DEF Counted
      <4>2. activeUsers'[u] = activeUsers[u]
        BY <2>1, <2>3, <3>2 DEF TypeOK
      <4> QED
        BY <1>1, <4>1, <4>2 DEF TrackedBy
    <3> QED
      BY <3>1, <3>2
  <2>10. TrackedBy(req[t])'
    BY <1>0, <1>2, <2>9 DEF TrackedBy
  <2> QED
    BY <1>0, <1>3, <2>4, <2>7, <2>10, Reassemble, StoresKept DEF Consistent
<1>5. CASE req[t].adding = NoUser
  <2>1. ~Restoring(req[t])
    BY <1>1, <1>5 DEF Restoring, DeleteSteps
  <2>2. CASE activeUsers' = activeUsers /\ Raise(t)
    BY <1>0, <1>1, <2>1, <2>2, PlainEnd
  <2>3. CASE CallStore(t) /\ activeUsers' = [activeUsers EXCEPT ![req[t].user] = @ + 1]
    <3>1. /\ SameTask(t) /\ req'[t].outer = req[t].outer /\ req'[t].step = "store" /\ req'[t].adding = NoUser
          /\ req'[t].todo = {[sid |-> req[t].sid, user |-> req[t].user, expiry |-> ExpiryTime]}
      BY <2>3, StoreFields
    <3>2. \A x \in req'[t].todo : x.sid = req'[t].sid /\ x.user = req'[t].user
      BY <1>3, <3>1
    <3>3. ~Restoring(req'[t]) /\ req'[t].step \notin DeleteSteps
      BY <3>1 DEF Restoring, DeleteSteps
    <3>4. req[t].outer = {}
      BY <1>1, <2>1 DEF Knows, ListsStored
    <3>5. Knows(req'[t], sessions')
      BY <1>0, <1>2, <1>3, <3>1, <3>2, <3>3, <3>4
         DEF Knows, ListsStored, DeletesStored, LoginKnows, DeletionKnows, DeleteSteps
    <3>6. /\ Pending(req'[t], sessions) = {} /\ Reserved(req'[t]) = {req[t].user}
          /\ Pending(req[t], sessions) = {} /\ Reserved(req[t]) = {}
      BY <1>1, <1>3, <2>1, <3>1, <3>3, PendingValues DEF Reserved
    <3>7. ASSUME NEW u \in Users
          PROVE  activeUsers'[u] = IF restored /\ Counted(req'[t], sessions, u) THEN 1 ELSE 0
      <4>1. CASE u = req[t].user
        <5>1. Counted(req'[t], sessions, u) /\ ~Counted(req[t], sessions, u)
          BY <1>2, <3>6, <4>1 DEF Counted
        <5>2. activeUsers[u] = 0
          BY <1>1, <5>1 DEF TrackedBy
        <5>3. activeUsers'[u] = 1
          BY <2>3, <4>1, <5>2 DEF TypeOK
        <5> QED
          BY <1>2, <5>1, <5>3
      <4>2. CASE u # req[t].user
        <5>1. Counted(req'[t], sessions, u) <=> Counted(req[t], sessions, u)
          BY <3>6, <4>2 DEF Counted
        <5>2. activeUsers'[u] = activeUsers[u]
          BY <1>1, <2>3, <4>2 DEF TypeOK
        <5> QED
          BY <1>1, <5>1, <5>2 DEF TrackedBy
      <4> QED
        BY <4>1, <4>2
    <3>8. TrackedBy(req[t])'
      BY <1>0, <1>2, <3>7 DEF TrackedBy
    <3> QED
      BY <1>0, <1>3, <3>1, <3>5, <3>8, Reassemble, StoresKept DEF Consistent
  <2> QED
    BY <1>5, <2>2, <2>3, RecheckOwn
<1> QED
  BY <1>4, <1>5

\* A session gets another expiry time.
LEMMA Replaced ==
  ASSUME StoresConsistent, NEW y \in sessions, NEW x, x.sid = y.sid, x.user = y.user,
         sessions' = (sessions \ {y}) \cup {x}, UNCHANGED <<issued, loggedOut, deleted, outrun>>
  PROVE  /\ StoresConsistent'
         /\ \A u : Stored(sessions', u) <=> Stored(sessions, u)
         /\ Having(sessions', x.sid) # {}
<1>1. UniqueIds' /\ IdsIssued' /\ OneSessionPerUser'
  BY DEF StoresConsistent, UniqueIds, IdsIssued, OneSessionPerUser
<1>2. LogoutEndsSession' /\ OnlyOutrunLoginsSurvive'
  BY DEF StoresConsistent, LogoutEndsSession, OnlyOutrunLoginsSurvive
<1>3. UsersOf(sessions') = UsersOf(sessions)
  BY DEF UsersOf
<1>4. StoredWithinQuota'
  BY <1>3 DEF StoresConsistent, StoredWithinQuota
<1>5. (\A u : Stored(sessions', u) <=> Stored(sessions, u)) /\ Having(sessions', x.sid) # {}
  BY DEF Stored, Having
<1> QED
  BY <1>1, <1>2, <1>4, <1>5 DEF StoresConsistent

LEMMA RefreshConsistent ==
  ASSUME TypeOK, Shapes, Consistent, NEW t \in Tasks, Alone(t), Refresh(t)
  PROVE  Consistent'
<1>0. UNCHANGED <<issued, loggedOut, deleted, outrun, activeUsers, restored>>
  BY DEF Refresh, counters, history
<1>1. req[t].step = "refresh" /\ ~Restoring(req[t]) /\ Knows(req[t], sessions) /\ TrackedBy(req[t])
  BY Standing DEF Refresh, At, Restoring, DeleteSteps
<1>2. PICK x \in req[t].todo : Put(x)
  BY DEF Refresh
<1>3. PICK y \in sessions : y.sid = x.sid /\ y.user = x.user
  BY <1>1 DEF Knows, LoginKnows
<1>4. sessions' = (sessions \ {y}) \cup {x}
  BY <1>2, <1>3 DEF Put, Consistent, StoresConsistent, UniqueIds
<1>5. StoresConsistent' /\ \A u : Stored(sessions', u) <=> Stored(sessions, u)
  BY <1>0, <1>3, <1>4, Replaced DEF Consistent
<1>6. req'[t] = Idle
  BY EndFields DEF Refresh
<1>7. /\ Knows(req'[t], sessions') /\ ~Restoring(req'[t]) /\ ~CountersRead(req'[t])
      /\ req'[t].op = "none" /\ req'[t].step \in {"idle", "dead"}
  BY <1>6, IdleKnows
<1>8. FreshIds'
  BY <1>0, <1>7, FreshKept DEF Consistent, Resumes
<1>9. \A u : Counted(req'[t], sessions', u) <=> Counted(req[t], sessions, u)
  <2>1. \A u : Counted(req'[t], sessions', u) <=> Stored(sessions', u)
    BY <1>7, PlainCount
  <2>2. \A u : Counted(req[t], sessions, u) <=> Stored(sessions, u)
    BY <1>1, PlainCount
  <2> QED
    BY <1>5, <2>1, <2>2
<1>10. TrackedBy(req[t])'
  BY <1>0, <1>1, <1>7, <1>9 DEF TrackedBy
<1> QED
  BY <1>5, <1>7, <1>8, <1>10, Reassemble DEF Consistent

LEMMA AuthConsistent ==
  ASSUME TypeOK, Shapes, Consistent, NEW t \in Tasks, Alone(t), Auth(t)
  PROVE  Consistent'
<1>0. UNCHANGED <<issued, loggedOut, deleted, outrun, activeUsers, restored>>
  BY DEF Auth, counters, history
<1>1. /\ req[t].step = "auth" /\ ~Restoring(req[t]) /\ req[t].op \in {"request", "logout"}
      /\ Knows(req[t], sessions) /\ TrackedBy(req[t])
  BY AuthFields, Standing DEF Restoring, DeleteSteps, Shape
<1>2. req[t].todo = {} /\ req[t].outer = {} /\ req[t].adding = NoUser
  BY <1>1 DEF Knows, ListsStored
<1>3. CASE req'[t] = Idle /\ sessions' = sessions
  <2>1. /\ Knows(req'[t], sessions) /\ ~Restoring(req'[t]) /\ ~CountersRead(req'[t])
        /\ req'[t].op = "none" /\ req'[t].step \in {"idle", "dead"}
    BY <1>3, IdleKnows
  <2>2. FreshIds'
    BY <1>0, <2>1, FreshKept DEF Consistent, Resumes
  <2> QED
    BY <1>0, <1>1, <1>3, <2>1, <2>2, PlainStep
<1>4. ASSUME NEW x \in Lookup(req[t].sid), SameLists(t), req'[t].adding = req[t].adding,
             req'[t].user = req[t].user, req'[t].sid = req[t].sid,
             req'[t].op \in {"request", "logout"},
             sessions' = sessions \/ sessions' = Refreshed(x),
             \/ req'[t].step = "del_get" /\ req'[t].del = x.sid /\ req'[t].ret = "idle"
             \/ req'[t].step = "handler"
      PROVE  Consistent'
  <2>1. x \in sessions /\ x \in Session /\ x.sid = req[t].sid
    BY <1>4 DEF Lookup, TypeOK
  <2>2. [x EXCEPT !.expiry = ExpiryTime].sid = x.sid /\ [x EXCEPT !.expiry = ExpiryTime].user = x.user
    BY <2>1 DEF Session
  <2>3. /\ StoresConsistent'
        /\ \A u : Stored(sessions', u) <=> Stored(sessions, u)
        /\ Having(sessions', x.sid) # {}
    <3>1. CASE sessions' = sessions
      <4>1. StoresConsistent'
        BY <1>0, <3>1, StoresKept DEF Consistent
      <4>2. (\A u : Stored(sessions', u) <=> Stored(sessions, u)) /\ Having(sessions', x.sid) # {}
        BY <2>1, <3>1 DEF Having
      <4> QED
        BY <4>1, <4>2
    <3>2. CASE sessions' = (sessions \ {x}) \cup {[x EXCEPT !.expiry = ExpiryTime]}
      <4>1. PICK z : z = [x EXCEPT !.expiry = ExpiryTime]
        OBVIOUS
      <4>2. z.sid = x.sid /\ z.user = x.user /\ sessions' = (sessions \ {x}) \cup {z}
        BY <2>2, <3>2, <4>1
      <4>3. /\ StoresConsistent'
            /\ \A u : Stored(sessions', u) <=> Stored(sessions, u)
            /\ Having(sessions', z.sid) # {}
        BY <1>0, <2>1, <4>2, Replaced DEF Consistent
      <4> QED
        BY <4>2, <4>3
    <3> QED
      BY <1>4, <3>1, <3>2 DEF Refreshed
  <2>4. req'[t].todo = {} /\ req'[t].outer = {} /\ req'[t].adding = NoUser
    BY <1>2, <1>4 DEF SameLists
  <2>5. ~Restoring(req'[t]) /\ ~Entering(req'[t])
    BY <1>4 DEF Restoring, Entering, DeleteSteps
  <2>6. ListsStored(req'[t], sessions')
    BY <1>4, <2>4, <2>5 DEF ListsStored
  <2>7. DeletesStored(req'[t], sessions')
    BY <1>4, <2>1, <2>3, <2>4 DEF DeletesStored, DeleteSteps
  <2>8. LoginKnows(req'[t], sessions') /\ DeletionKnows(req'[t], sessions')
    BY <1>4, <2>5 DEF LoginKnows, DeletionKnows, DeleteSteps
  <2>9. FreshIds'
    BY <1>0, <1>1, <1>4, FreshKept DEF Consistent, Resumes
  <2>10. \A u : Counted(req'[t], sessions', u) <=> Counted(req[t], sessions, u)
    <3>1. \A u : Counted(req'[t], sessions', u) <=> Stored(sessions', u)
      BY <1>4, <2>5, PlainCount
    <3>2. \A u : Counted(req[t], sessions, u) <=> Stored(sessions, u)
      BY <1>1, PlainCount
    <3> QED
      BY <2>3, <3>1, <3>2
  <2>11. TrackedBy(req[t])'
    BY <1>0, <1>1, <2>5, <2>10 DEF TrackedBy, CountersRead
  <2> QED
    BY <2>3, <2>6, <2>7, <2>8, <2>9, <2>11, Reassemble DEF Consistent, Knows
<1> QED
  BY <1>1, <1>3, <1>4, AuthFields

\* A new session: its user was counted within the quota, and has no other.
LEMMA StoreConsistent ==
  ASSUME TypeOK, Shapes, Deletions, Consistent, CountedUsersWithinQuota, NEW t \in Tasks, Alone(t), Store(t)
  PROVE  Consistent'
<1>0. UNCHANGED <<loggedOut, deleted, outrun, activeUsers, restored>>
  BY DEF Store, counters
<1>1. /\ req[t].step = "store" /\ req[t].op = "login" /\ req[t].user \in Users /\ ~Restoring(req[t])
      /\ Entering(req[t]) /\ Knows(req[t], sessions) /\ TrackedBy(req[t])
  BY Standing DEF Store, At, Restoring, Entering, DeleteSteps, Shape, LoginSteps
<1>2. ~Stored(sessions, req[t].user) /\ (ActiveUsersQuota > 0 => restored)
  BY <1>1 DEF Knows, LoginKnows, TrackedBy, CountersRead, OtherWaits
<1>3. PICK x \in req[t].todo : Put(x) /\ issued' = issued \cup {x.sid}
  BY DEF Store
<1>4. x.sid = req[t].sid /\ x.user = req[t].user
  BY <1>1, <1>3 DEF Knows, LoginKnows
<1>5. req[t].sid \notin issued
  BY <1>1 DEF Consistent, FreshIds
<1>6. sessions' = sessions \cup {x}
  BY <1>3, <1>4, <1>5 DEF Put, Consistent, StoresConsistent, IdsIssued
<1>7. UniqueIds' /\ IdsIssued' /\ OneSessionPerUser'
  BY <1>0, <1>2, <1>3, <1>4, <1>5, <1>6
     DEF Consistent, StoresConsistent, UniqueIds, IdsIssued, OneSessionPerUser, Stored
<1>8. LogoutEndsSession' /\ OnlyOutrunLoginsSurvive'
  BY <1>0, <1>1, <1>4, <1>5, <1>6
     DEF Consistent, StoresConsistent, IdsIssued, LogoutEndsSession, OnlyOutrunLoginsSurvive,
         Deletions, ReadBeforeDeletion, Busy
<1>9. Pending(req[t], sessions) = {} /\ Reserved(req[t]) = {req[t].user}
  BY <1>1, PendingValues DEF Reserved
<1>10. \A u : Counted(req[t], sessions, u) <=> Stored(sessions', u)
  BY <1>4, <1>6, <1>9 DEF Counted, Stored
<1>11. StoredWithinQuota'
  <2> SUFFICES ASSUME ActiveUsersQuota > 0
               PROVE  Cardinality(UsersOf(sessions')) <= ActiveUsersQuota
    BY DEF StoredWithinQuota
  <2>1. ActiveUsers = {u \in Users : restored /\ Counted(req[t], sessions, u)}
    BY <1>1, ActiveAre
  <2>2. UsersOf(sessions') \subseteq Users
    BY <1>1, <1>4, <1>6, UsersOfSessions DEF UsersOf
  <2>3. ActiveUsers = UsersOf(sessions')
    BY <1>2, <1>10, <2>1, <2>2 DEF Stored, UsersOf
  <2> QED
    BY <2>3 DEF CountedUsersWithinQuota
<1>12. req'[t] = Idle
  BY EndFields DEF Store
<1>13. /\ Knows(req'[t], sessions') /\ ~Restoring(req'[t]) /\ ~CountersRead(req'[t])
       /\ req'[t].op = "none" /\ req'[t].step \in {"idle", "dead"}
  BY <1>12, IdleKnows
<1>14. FreshIds'
  BY <1>1, <1>3, <1>4, <1>13 DEF Consistent, FreshIds, Alone
<1>15. \A u : Counted(req'[t], sessions', u) <=> Counted(req[t], sessions, u)
  BY <1>10, <1>13, PlainCount
<1>16. TrackedBy(req[t])'
  BY <1>0, <1>1, <1>13, <1>15 DEF TrackedBy
<1> QED
  BY <1>7, <1>8, <1>11, <1>13, <1>14, <1>16, Reassemble DEF Consistent, StoresConsistent

LEMMA DeleteRemoveConsistent ==
  ASSUME TypeOK, Shapes, Consistent, NEW t \in Tasks, Alone(t), DeleteRemove(t)
  PROVE  Consistent'
<1>0. /\ UNCHANGED <<restored, issued, deleted, outrun>>
      /\ sessions' = sessions \ Lookup(req[t].del) /\ activeUsers' = Decremented(req[t].victim)
      /\ loggedOut' = IF req[t].op = "logout" /\ req[t].ret = "idle"
                      THEN loggedOut \cup {req[t].sid} ELSE loggedOut
  BY DEF DeleteRemove
<1> DEFINE v == req[t].victim
           sid == req[t].del
<1>1. /\ req[t].step = "del_rm" /\ Knows(req[t], sessions) /\ TrackedBy(req[t])
      /\ DeleteReturns(req[t]) /\ v \in Users
  BY DeleteRemoveFields, Standing DEF Shape, DeleteSteps
<1>2. /\ Having(sessions, sid) # {} /\ \A x \in Having(sessions, sid) : x.user = v
      /\ \A x \in req[t].todo \cup req[t].outer : x.sid # sid
      /\ req[t].ret = "idle" => sid = req[t].sid
  BY <1>1 DEF Knows, DeletesStored, DeleteSteps
<1>3. PICK y \in sessions : y.sid = sid /\ y.user = v
  BY <1>2 DEF Having
<1>4. sessions' = sessions \ {y} /\ Having(sessions, sid) = {y}
  BY <1>0, <1>3 DEF Lookup, Having, Consistent, StoresConsistent, UniqueIds
<1> HIDE DEF v, sid
<1>5. \A x \in sessions : x.user = v => x = y
  BY <1>3 DEF Consistent, StoresConsistent, OneSessionPerUser
<1>6. \A u : Stored(sessions', u) <=> Stored(sessions, u) /\ u # v
  BY <1>3, <1>4, <1>5 DEF Stored
<1>7. StoresConsistent'
  <2>1. UniqueIds' /\ OneSessionPerUser' /\ OnlyOutrunLoginsSurvive'
    BY <1>0, <1>4 DEF Consistent, StoresConsistent, UniqueIds, OneSessionPerUser, OnlyOutrunLoginsSurvive
  <2>2. loggedOut' \subseteq loggedOut \cup {sid} /\ loggedOut' \subseteq issued
    BY <1>0, <1>2 DEF Consistent, StoresConsistent, IdsIssued, FreshIds
  <2>3. IdsIssued'
    BY <1>0, <1>4, <2>2 DEF Consistent, StoresConsistent, IdsIssued
  <2>4. \A x \in sessions' : x.sid # sid
    BY <1>3, <1>4 DEF Consistent, StoresConsistent, UniqueIds
  <2>5. LogoutEndsSession'
    BY <1>4, <2>2, <2>4 DEF Consistent, StoresConsistent, LogoutEndsSession
  <2>6. StoredWithinQuota'
    <3>1. UsersOf(sessions') \in SUBSET UsersOf(sessions)
      BY <1>4 DEF UsersOf
    <3>2. /\ Cardinality(UsersOf(sessions')) <= Cardinality(UsersOf(sessions))
          /\ Cardinality(UsersOf(sessions')) \in Nat /\ Cardinality(UsersOf(sessions)) \in Nat
      BY <3>1, UsersOfSessions, FS_Subset, FS_CardinalityType
    <3> QED
      BY <3>2, SessionAssumption DEF Consistent, StoresConsistent, StoredWithinQuota
  <2> QED
    BY <2>1, <2>3, <2>5, <2>6 DEF StoresConsistent
<1>8. ASSUME NEW u \in Users
      PROVE  activeUsers'[u] = IF u = v THEN 0 ELSE activeUsers[u]
  <2>1. activeUsers[v] = 0 \/ activeUsers[v] = 1
    BY <1>1 DEF TrackedBy
  <2>2. activeUsers' = Decremented(v)
    BY <1>0 DEF v
  <2> QED
    BY <1>1, <2>1, <2>2 DEF Decremented, TypeOK
<1>9. ASSUME Knows(req'[t], sessions'), FreshIds', Reserved(req'[t]) = {},
             CountersRead(req'[t]) => CountersRead(req[t]),
             \A u \in Users : u # v => (u \in Pending(req'[t], sessions') <=> u \in Pending(req[t], sessions))
      PROVE  Consistent'
  <2>1. ASSUME NEW u \in Users
        PROVE  activeUsers'[u] = IF restored /\ Counted(req'[t], sessions', u) THEN 1 ELSE 0
    <3>1. CASE u = v
      <4>1. ~Counted(req'[t], sessions', u)
        BY <1>6, <1>9, <3>1 DEF Counted
      <4> QED
        BY <1>8, <3>1, <4>1
    <3>2. CASE u # v
      <4>1. Reserved(req[t]) = {}
        BY <1>1 DEF Reserved
      <4>2. Counted(req'[t], sessions', u) <=> Counted(req[t], sessions, u)
        BY <1>6, <1>9, <3>2, <4>1 DEF Counted
      <4> QED
        BY <1>1, <1>8, <3>2, <4>2 DEF TrackedBy
    <3> QED
      BY <3>1, <3>2
  <2>2. TrackedBy(req[t])'
    BY <1>0, <1>1, <1>9, <2>1 DEF TrackedBy
  <2> QED
    BY <1>7, <1>9, <2>2, Reassemble DEF Consistent
<1>10. CASE req[t].ret = "idle" /\ req'[t] = Idle
  <2>1. /\ Knows(req'[t], sessions') /\ ~CountersRead(req'[t])
        /\ req'[t].op = "none" /\ Reserved(req'[t]) = {} /\ Pending(req'[t], sessions') = {}
    BY <1>10, IdleKnows
  <2>2. FreshIds'
    BY <1>0, <2>1, FreshKept DEF Consistent, Resumes
  <2>3. ~Restoring(req[t])
    BY <1>1, <1>10 DEF Restoring
  <2>4. Pending(req[t], sessions) = {}
    BY <2>3, PendingValues
  <2> QED
    BY <1>9, <2>1, <2>2, <2>4
<1>11. CASE /\ req[t].ret # "idle" /\ req'[t].step = req[t].ret
            /\ SameTask(t) /\ SameReturns(t) /\ SameLists(t) /\ req'[t].adding = req[t].adding
  <2>1. /\ req'[t].op = req[t].op /\ req'[t].user = req[t].user /\ req'[t].sid = req[t].sid
        /\ req'[t].ret = req[t].ret /\ req'[t].todo = req[t].todo /\ req'[t].outer = req[t].outer
    BY <1>11 DEF SameTask, SameReturns, SameLists
  <2>2. /\ req'[t].step \in {"scan_next", "restore_next", "sweep_next", "list_next"}
        /\ req'[t].step \notin DeleteSteps
        /\ req'[t].step \in {"scan_next", "restore_next"} => req[t].op = "login"
        /\ req'[t].step = "list_next" => req[t].op = "delete_user"
    BY <1>1, <1>11 DEF DeleteReturns, DeleteSteps
  <2>3. FreshIds'
    BY <1>0, <2>1, FreshKept DEF Consistent, Resumes
  <2>4. /\ Restoring(req'[t]) <=> Restoring(req[t])
        /\ Entering(req'[t]) <=> Entering(req[t])
    BY <1>1, <1>11, <2>1, <2>2 DEF Restoring, Entering, DeleteSteps
  <2>5. req[t].todo \subseteq sessions' /\ req[t].outer \subseteq sessions'
    BY <1>1, <1>2, <1>3, <1>4 DEF Knows, ListsStored, OtherWaits
  <2>6. ListsStored(req'[t], sessions')
    BY <1>1, <1>11, <2>1, <2>2, <2>4, <2>5 DEF Knows, ListsStored, OtherWaits
  <2>7. DeletesStored(req'[t], sessions')
    BY <2>2 DEF DeletesStored
  <2>8. LoginKnows(req'[t], sessions')
    <3>1. req'[t].step = "scan_next" => \A x \in sessions' : x.user = req[t].user => x \in req[t].todo
      BY <1>1, <1>3, <1>4, <1>11 DEF Knows, LoginKnows, DeleteSteps, Consistent, StoresConsistent, UniqueIds, sid
    <3>2. Entering(req'[t]) => ~Stored(sessions', req[t].user) /\ ActiveUsersQuota > 0
      BY <1>1, <1>6, <2>4 DEF Knows, LoginKnows
    <3> QED
      BY <2>1, <2>2, <3>1, <3>2 DEF LoginKnows
  <2>9. DeletionKnows(req'[t], sessions')
    <3>1. req'[t].step = "list_next" => \A x \in sessions' : x.user = req[t].user => x \in req[t].todo
      BY <1>1, <1>3, <1>4, <1>11 DEF Knows, DeletionKnows, DeleteSteps, Consistent, StoresConsistent, UniqueIds, sid
    <3> QED
      BY <2>1, <2>2, <3>1 DEF DeletionKnows
  <2>10. \A u : u # v => (u \in Pending(req'[t], sessions') <=> u \in Pending(req[t], sessions))
    <3>1. CASE req[t].ret = "restore_next"
      <4>1. Pending(req'[t], sessions') = UsersOf(req[t].outer)
        BY <1>11, <2>1, <3>1, PendingValues
      <4>2. Pending(req[t], sessions) = UsersOf(req[t].outer) \cup UsersOf(Having(sessions, sid))
        BY <1>1, <3>1, PendingValues DEF DeleteSteps, sid
      <4>3. UsersOf(Having(sessions, sid)) = {v}
        BY <1>3, <1>4 DEF UsersOf
      <4> QED
        BY <4>1, <4>2, <4>3
    <3>2. CASE req[t].ret # "restore_next"
      <4>1. ~Restoring(req[t]) /\ ~Restoring(req'[t])
        BY <1>1, <2>4, <3>2 DEF Restoring
      <4> QED
        BY <4>1, PendingValues
    <3> QED
      BY <3>1, <3>2
  <2>11. Reserved(req'[t]) = {} /\ (CountersRead(req'[t]) => CountersRead(req[t]))
    BY <1>1, <2>2, <2>4 DEF Reserved, CountersRead
  <2> QED
    BY <1>9, <2>3, <2>6, <2>7, <2>8, <2>9, <2>10, <2>11 DEF Knows
<1> QED
  BY <1>10, <1>11, DeleteRemoveFields

\* In memory a task can only fail where it is outside of a session operation.
LEMMA FailConsistent ==
  ASSUME TypeOK, Shapes, Consistent, NEW t \in Tasks, Alone(t), Fail(t), LoopHeld, Backend = "InMemory"
  PROVE  Consistent'
<1>1. turn = {} /\ req[t].step \in OtherWaits /\ Raise(t)
  BY FailMoves DEF LoopHeld, Inside
<1>2. Abort(t)
  BY <1>1 DEF Fail, AbortLate, At, OtherWaits
<1>3. ~Restoring(req[t]) /\ req[t].step # "store"
  BY <1>1, OutsideKnows DEF OtherWaits
<1>4. UNCHANGED <<sessions, issued, loggedOut, deleted, outrun, activeUsers, restored>>
  BY <1>2 DEF Abort, stores, counters, history
<1> QED
  BY <1>1, <1>3, <1>4, PlainEnd

LEMMA RestartConsistent ==
  ASSUME TypeOK, Consistent, Restart
  PROVE  Consistent'
<1>0. /\ UNCHANGED <<issued, loggedOut, deleted, outrun>> /\ req' = [t \in Tasks |-> Idle]
      /\ sessions' = {} \/ sessions' = sessions
      /\ activeUsers' = [u \in Users |-> 0] /\ restored' = FALSE
  BY DEF Restart, history
<1>1. ASSUME NEW t \in Tasks
      PROVE  /\ Knows(req'[t], sessions') /\ ~CountersRead(req'[t]) /\ req'[t].op = "none"
  <2>1. req'[t] = Idle
    BY <1>0
  <2> QED
    BY <2>1, IdleKnows
<1>2. TasksKnow' /\ FreshIds'
  BY <1>1 DEF TasksKnow, FreshIds
<1>3. Tracked'
  BY <1>0, <1>1 DEF Tracked
<1>4. StoresConsistent'
  <2>1. CASE sessions' = sessions
    BY <1>0, <2>1, StoresKept DEF Consistent
  <2>2. CASE sessions' = {}
    <3>1. Cardinality(UsersOf(sessions')) = 0
      BY <2>2, FS_EmptySet DEF UsersOf
    <3>2. StoredWithinQuota'
      BY <3>1, SessionAssumption DEF StoredWithinQuota
    <3> QED
      BY <1>0, <2>2, <3>2 DEF Consistent, StoresConsistent, UniqueIds, IdsIssued, OneSessionPerUser,
                              LogoutEndsSession, OnlyOutrunLoginsSurvive
  <2> QED
    BY <1>0, <2>1, <2>2
<1> QED
  BY <1>2, <1>3, <1>4 DEF Consistent

\* Nothing of it is about the time.
LEMMA TickConsistent ==
  ASSUME Consistent, UNCHANGED <<sessions, issued, loggedOut, deleted, outrun, activeUsers, restored, req>>
  PROVE  Consistent'
<1>1. StoresConsistent'
  BY StoresKept DEF Consistent
<1> QED
  BY <1>1 DEF Consistent, FreshIds, TasksKnow, Tracked

\* Nor is it about which users there are.
LEMMA CreateUserConsistent ==
  ASSUME Consistent, NEW u \in Users, CreateUser(u)
  PROVE  Consistent'
<1>1. UNCHANGED <<sessions, issued, loggedOut, outrun, activeUsers, restored, req>> /\ deleted' \subseteq deleted
  BY DEF CreateUser, counters
<1>2. StoresConsistent'
  BY <1>1 DEF Consistent, StoresConsistent, UniqueIds, IdsIssued, OneSessionPerUser, LogoutEndsSession,
              OnlyOutrunLoginsSurvive, StoredWithinQuota
<1> QED
  BY <1>1, <1>2 DEF Consistent, FreshIds, TasksKnow, Tracked

LEMMA StepConsistent ==
  ASSUME TypeOK, Shapes, Deletions, Consistent, CountedUsersWithinQuota, NEW t \in Tasks, Alone(t), Step(t)
  PROVE  Consistent'
BY UserCallsConsistent, ScanConsistent, ScanNextConsistent, RefreshConsistent, StoreConsistent,
   AddConsistent, RestoreConsistent, RestoreNextConsistent, AdmitConsistent, RecheckConsistent,
   SweepConsistent, SweepNextConsistent, DeleteGetConsistent, DeleteRemoveConsistent,
   AuthConsistent, HandlerConsistent, ListNextConsistent DEF Step

LEMMA CalmStep ==
  ASSUME TypeOK, Shapes, Scheduled, Solitary', Deletions, CountedUsersWithinQuota, CalmInv, [Next]_vars, Calm'
  PROVE  Consistent'
<1>0. Consistent /\ (~disturbed' => ~disturbed)
  BY CalmBefore, Undisturbed DEF CalmInv
<1>1. CASE UNCHANGED vars
  BY <1>0, <1>1, TickConsistent DEF vars
<1>2. CASE Restart
  BY <1>0, <1>2, RestartConsistent
<1>3. CASE Tick
  BY <1>0, <1>3, TickConsistent DEF Tick, stores, counters, history
<1>4. ASSUME NEW t \in Tasks, Begins(t)
      PROVE  Consistent'
  <2>1. Alone(t)
    BY <1>0, <1>4, BeginMoves, OthersOutside
  <2> QED
    BY <1>0, <1>4, <2>1, BeginConsistent
<1>5. ASSUME NEW t \in Tasks, Step(t)
      PROVE  Consistent'
  <2>1. Alone(t)
    BY <1>0, <1>5, StepMoves, OthersOutside
  <2> QED
    BY <1>0, <1>5, <2>1, StepConsistent
<1>6. ASSUME NEW t \in Tasks, Fail(t), disturbed' = TRUE
      PROVE  Consistent'
  <2>1. Alone(t)
    BY <1>0, <1>6, FailMoves, OthersOutside
  <2>2. Backend = "InMemory"
    BY <1>6 DEF Calm
  <2> QED
    BY <1>0, <1>6, <2>1, <2>2, FailConsistent DEF Scheduled
<1>7. ASSUME NEW u \in Users, CreateUser(u)
      PROVE  Consistent'
  BY <1>0, <1>7, CreateUserConsistent
<1> QED
  BY <1>1, <1>2, <1>3, <1>4, <1>5, <1>6, <1>7, NextCases DEF Begins

-----------------------------------------------------------------------------
(***************************************************************************)
(* The guarantees.                                                         *)
(***************************************************************************)
SessionInv == TypeOK /\ Shapes /\ Scheduled /\ Deletions /\ CountedUsersWithinQuota /\ CalmInv

LEMMA SessionInit ==
  ASSUME Init
  PROVE  SessionInv
<1>1. TypeOK /\ Shapes /\ Deletions /\ CountedUsersWithinQuota
  BY TypesInit, DeletionsInit, CountedInit
<1>2. ASSUME NEW t \in Tasks
      PROVE  /\ Knows(req[t], sessions) /\ ~CountersRead(req[t])
             /\ req[t].op = "none" /\ req[t].step \in {"idle", "dead"}
  <2>1. req[t] = Idle
    BY DEF Init
  <2> QED
    BY <2>1, IdleKnows
<1>3. Scheduled
  BY <1>2 DEF Scheduled, LoopHeld, Solitary, Inside, Busy, OtherWaits
<1>4. TasksKnow /\ FreshIds
  BY <1>2 DEF TasksKnow, FreshIds
<1>5. Tracked
  BY <1>2 DEF Init, Tracked
<1>6. StoresConsistent
  <2>1. Cardinality(UsersOf(sessions)) = 0
    BY FS_EmptySet DEF Init, UsersOf
  <2>2. StoredWithinQuota
    BY <2>1, SessionAssumption DEF StoredWithinQuota
  <2> QED
    BY <2>2 DEF Init, StoresConsistent, UniqueIds, IdsIssued, OneSessionPerUser, LogoutEndsSession,
                OnlyOutrunLoginsSurvive
<1> QED
  BY <1>1, <1>3, <1>4, <1>5, <1>6 DEF SessionInv, CalmInv, Consistent

LEMMA SessionStep ==
  ASSUME SessionInv, [Next]_vars
  PROVE  SessionInv'
<1>1. TypeOK' /\ Shapes'
  BY TypesStep DEF SessionInv
<1>2. Scheduled'
  BY LoopHeldStep, SolitaryStep DEF SessionInv, Scheduled
<1>3. CountedUsersWithinQuota'
  BY <1>1, CountedStep DEF SessionInv
<1>4. CalmInv'
  BY <1>2, CalmStep DEF SessionInv, CalmInv, Scheduled
<1>5. Deletions'
  BY DeletionsStep DEF SessionInv
<1> QED
  BY <1>1, <1>2, <1>3, <1>4, <1>5 DEF SessionInv

\* The invariant behind the guarantees: as long as no two tasks can have been
\* inside the session manager at a time, every loop, restore and delete in
\* progress agrees with the stores and every user is counted as it should be.
THEOREM ConsistentWhileCalm == Spec => [](CalmInv /\ Deletions)
<1>1. Init => SessionInv
  BY SessionInit
<1>2. SessionInv /\ [Next]_vars => SessionInv'
  BY SessionStep
<1>3. SessionInv => CalmInv /\ Deletions
  BY DEF SessionInv
<1> QED
  BY <1>1, <1>2, <1>3, PTL DEF Spec

LEMMA QuotaFollows ==
  ASSUME TypeOK, Consistent
  PROVE  SimultaneousUsersWithinQuota
<1> SUFFICES ASSUME ActiveUsersQuota > 0
             PROVE  Cardinality({x.user : x \in {y \in sessions : ~Expired(y)}}) <= ActiveUsersQuota
  BY DEF SimultaneousUsersWithinQuota
<1> DEFINE S == {x.user : x \in {y \in sessions : ~Expired(y)}}
<1>1. S \in SUBSET UsersOf(sessions)
  BY DEF UsersOf
<1> HIDE DEF S
<1>2. /\ Cardinality(S) <= Cardinality(UsersOf(sessions))
      /\ Cardinality(S) \in Nat /\ Cardinality(UsersOf(sessions)) \in Nat
  BY <1>1, UsersOfSessions, FS_Subset, FS_CardinalityType
<1>3. Cardinality(UsersOf(sessions)) <= ActiveUsersQuota
  BY DEF Consistent, StoresConsistent, StoredWithinQuota
<1>4. Cardinality(S) <= ActiveUsersQuota
  BY <1>2, <1>3, SessionAssumption
<1> QED
  BY <1>4 DEF S

LEMMA UsageFollows ==
  ASSUME TypeOK, Consistent
  PROVE  UsageTracked
<1> SUFFICES ASSUME restored, Busy = {}, NEW u \in Users
             PROVE  activeUsers[u] = Cardinality({x \in sessions : x.user = u})
  BY DEF UsageTracked
<1>1. \A t \in Tasks : Pending(req[t], sessions) = {} /\ Reserved(req[t]) = {}
  BY OutsideKnows DEF Busy, OtherWaits
<1>2. CASE Stored(sessions, u)
  <2>1. PICK y \in sessions : y.user = u
    BY <1>2 DEF Stored
  <2>2. {x \in sessions : x.user = u} = {y}
    BY <2>1 DEF Consistent, StoresConsistent, OneSessionPerUser
  <2>3. Cardinality({y}) = 1
    BY FS_Singleton
  <2>4. activeUsers[u] = 1
    BY <1>1, <1>2 DEF Consistent, Tracked
  <2> QED
    BY <2>2, <2>3, <2>4
<1>3. CASE ~Stored(sessions, u)
  <2>1. {x \in sessions : x.user = u} = {}
    BY <1>3 DEF Stored
  <2>2. Cardinality({}) = 0
    BY FS_EmptySet
  <2>3. activeUsers[u] = 0
    BY <1>1, <1>3 DEF Consistent, Tracked
  <2> QED
    BY <2>1, <2>2, <2>3
<1> QED
  BY <1>2, <1>3

\* What the guarantees come to, from the invariant alone.
LEMMA GuaranteesFollow ==
  ASSUME TypeOK, Consistent
  PROVE  /\ SimultaneousUsersWithinQuota /\ UsageTracked /\ OneSessionPerUser
         /\ LogoutEndsSession /\ OnlyOutrunLoginsSurvive
BY QuotaFollows, UsageFollows DEF Consistent, StoresConsistent

LEMMA CalmGuarantees == Spec => [](Calm => /\ SimultaneousUsersWithinQuota /\ UsageTracked
                                           /\ OneSessionPerUser /\ LogoutEndsSession
                                           /\ OnlyOutrunLoginsSurvive)
<1>1. TypeOK /\ Shapes /\ CalmInv /\ Deletions =>
        (Calm => /\ SimultaneousUsersWithinQuota /\ UsageTracked
                 /\ OneSessionPerUser /\ LogoutEndsSession
                 /\ OnlyOutrunLoginsSurvive)
  BY GuaranteesFollow DEF CalmInv
<1> QED
  BY <1>1, TypesInvariant, ConsistentWhileCalm, PTL

\* Over either store, as long as no two tasks have been in progress at a time and
\* none has failed: the quota on simultaneous users holds, usage is tracked, a
\* user has one session, logouts and deletions are final.  Expiry, restarts in
\* the middle of a task and the restoring of the counters do not break it.
THEOREM GuaranteedWithoutOverlap == Spec => []GuaranteesWithoutOverlap
<1>1. (Calm => /\ SimultaneousUsersWithinQuota /\ UsageTracked
               /\ OneSessionPerUser /\ LogoutEndsSession
               /\ OnlyOutrunLoginsSurvive) /\ Deletions => GuaranteesWithoutOverlap
  BY DEF Calm, GuaranteesWithoutOverlap, OnlyOutrunLoginsSurvive, DeletedUserHasNoSession, Deletions,
         OutrunByOverlap
<1> QED
  BY <1>1, CalmGuarantees, ConsistentWhileCalm, PTL

\* In memory they hold of any number of tasks in any order, cancelled and failing
\* ones included.  First: never more than active_users_quota users hold a session
\* that has not expired.
THEOREM QuotaInMemory == Backend = "InMemory" => (Spec => []SimultaneousUsersWithinQuota)
<1> SUFFICES ASSUME Backend = "InMemory"
             PROVE  Spec => []SimultaneousUsersWithinQuota
  OBVIOUS
<1>1. (Calm => /\ SimultaneousUsersWithinQuota /\ UsageTracked
               /\ OneSessionPerUser /\ LogoutEndsSession
               /\ OnlyOutrunLoginsSurvive) => SimultaneousUsersWithinQuota
  BY DEF Calm
<1> QED
  BY <1>1, CalmGuarantees, PTL

\* The session manager "tracks usage": at rest its counters are the numbers of
\* stored sessions, however tasks overlapped and failed before.
THEOREM UsageInMemory == Backend = "InMemory" => (Spec => []UsageTracked)
<1> SUFFICES ASSUME Backend = "InMemory"
             PROVE  Spec => []UsageTracked
  OBVIOUS
<1>1. (Calm => /\ SimultaneousUsersWithinQuota /\ UsageTracked
               /\ OneSessionPerUser /\ LogoutEndsSession
               /\ OnlyOutrunLoginsSurvive) => UsageTracked
  BY DEF Calm
<1> QED
  BY <1>1, CalmGuarantees, PTL

\* Two logins of a user, in any order and at any time, share one session.
THEOREM OneSessionInMemory == Backend = "InMemory" => (Spec => []OneSessionPerUser)
<1> SUFFICES ASSUME Backend = "InMemory"
             PROVE  Spec => []OneSessionPerUser
  OBVIOUS
<1>1. (Calm => /\ SimultaneousUsersWithinQuota /\ UsageTracked
               /\ OneSessionPerUser /\ LogoutEndsSession
               /\ OnlyOutrunLoginsSurvive) => OneSessionPerUser
  BY DEF Calm
<1> QED
  BY <1>1, CalmGuarantees, PTL

\* No refresh in another task brings back a session whose logout has returned.
THEOREM LogoutInMemory == Backend = "InMemory" => (Spec => []LogoutEndsSession)
<1> SUFFICES ASSUME Backend = "InMemory"
             PROVE  Spec => []LogoutEndsSession
  OBVIOUS
<1>1. (Calm => /\ SimultaneousUsersWithinQuota /\ UsageTracked
               /\ OneSessionPerUser /\ LogoutEndsSession
               /\ OnlyOutrunLoginsSurvive) => LogoutEndsSession
  BY DEF Calm
<1> QED
  BY <1>1, CalmGuarantees, PTL

\* Of a user whose deletion has returned there is no session but of a login that
\* had read the user before: the deletion misses no session there is, however
\* requests, sweeps and other deletions overlap it, no login that reads the user
\* later gets one, and none comes back by a refresh or with a new user of that
\* name.
THEOREM DeletionInMemory == Backend = "InMemory" => (Spec => []OnlyOutrunLoginsSurvive)
<1> SUFFICES ASSUME Backend = "InMemory"
             PROVE  Spec => []OnlyOutrunLoginsSurvive
  OBVIOUS
<1>1. (Calm => /\ SimultaneousUsersWithinQuota /\ UsageTracked
               /\ OneSessionPerUser /\ LogoutEndsSession
               /\ OnlyOutrunLoginsSurvive) => OnlyOutrunLoginsSurvive
  BY DEF Calm
<1> QED
  BY <1>1, CalmGuarantees, PTL
=============================================================================
