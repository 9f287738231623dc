--------------------------- MODULE SessionService ---------------------------
(***************************************************************************)
(* Sessions of the CSM agent: LoginService and QuotaSessionManager         *)
(* (csm/core/services/sessions.py) over one of the two session stores of   *)
(* csm/core/services/session/session_factory.py.                           *)
(*                                                                         *)
(* A task is a coroutine: a request, or the background task that clears    *)
(* expired sessions.  It runs without interruption between two suspension  *)
(* points, which `turn' expresses: while a task is in it, no other moves.  *)
(* Calls of the Database store suspend; those of the InMemory store do     *)
(* not, nor does any call of theirs to each other.  The user store is      *)
(* always a database, and its answer may be old when the task goes on with *)
(* it: at "known" and "removed" it has answered and the task waits.        *)
(*                                                                         *)
(* Subroutines: `todo' is the list a loop still has to visit (get_all      *)
(* gives no order, so any), `ret' the step QuotaSessionManager.delete      *)
(* returns to, `after' the step _remove_expired_sessions returns to, and   *)
(* `outer' the list of _restore_active_users while it calls the others.    *)
(***************************************************************************)
EXTENDS Integers, FiniteSets

CONSTANTS
  Users,            \* the users
  Sids,             \* the session ids uuid4 generates: the bound on new sessions
  Requests,         \* request tasks
  Sweepers,         \* {the background task}, or {} to leave it out
  MaxActive,        \* how many tasks may be in progress at a time
  Backend,          \* "InMemory" or "Database"
  ActiveUsersQuota, \* active_users_quota; no limit unless positive
  Interval,         \* _expiry_interval
  MaxTime,          \* bound on the clock
  MaxCount,         \* bound on a user's session count
  StoreFails,       \* whether store calls may fail and tasks be cancelled
  AgentRestarts,    \* whether the agent may be restarted
  UsersReturn,      \* whether a user that was deleted may be created again
  NoUser, NoSid

ASSUME SessionAssumption ==
  /\ IsFiniteSet(Users) /\ IsFiniteSet(Requests) /\ IsFiniteSet(Sweepers)
  /\ Requests \cap Sweepers = {}
  /\ MaxActive \in Nat
  /\ Backend \in {"InMemory", "Database"}
  /\ ActiveUsersQuota \in Int
  /\ Interval \in Nat /\ MaxTime \in Nat /\ MaxCount \in Nat
  /\ StoreFails \in BOOLEAN /\ AgentRestarts \in BOOLEAN /\ UsersReturn \in BOOLEAN
  /\ NoUser \notin Users /\ NoSid \notin Sids

Tasks == Requests \cup Sweepers

VARIABLES
  now,         \* the clock
  account,     \* the users the user store holds
  sessions,    \* the session store
  activeUsers, \* _active_users: number of sessions counted per user, 0 if no entry
  restored,    \* _active_users_restored
  req,         \* the tasks
  turn,        \* the task that is running, {} if all are suspended
  issued,      \* history: session ids that were stored
  loggedOut,   \* history: session ids whose logout returned
  deleted,     \* history: users whose deletion returned, unless created again
  outrun,      \* history: ids of the logins that were past the reading of their
               \* user when a deletion of this user returned
  disturbed    \* history: two tasks were in progress at a time, or one failed

stores == <<account, sessions>>
counters == <<activeUsers, restored>>
history == <<issued, loggedOut, deleted, outrun>>
vars == <<now, account, sessions, activeUsers, restored, req, turn, issued, loggedOut, deleted,
          outrun, disturbed>>

Session == [sid : Sids, user : Users, expiry : Nat]
Expired(x) == now > x.expiry
ExpiryTime == now + Interval

\* Steps that wait for the session store, for another suspension, and steps
\* that the running task goes through without suspending.
StoreSteps == {"scan", "refresh", "store", "auth", "list", "sweep", "restore", "del_get", "del_rm"}
OtherWaits == {"idle", "dead", "user", "known", "handler", "remove_user", "removed"}
SyncSteps == {"scan_next", "list_next", "sweep_next", "restore_next", "add", "admit", "recheck"}
Steps == StoreSteps \cup OtherWaits \cup SyncSteps
Ops == {"none", "login", "request", "logout", "delete_user", "clear"}

Idle == [op |-> "none", step |-> "idle", user |-> NoUser, sid |-> NoSid, todo |-> {},
         outer |-> {}, ret |-> "idle", after |-> "idle", adding |-> NoUser,
         del |-> NoSid, victim |-> NoUser]

TaskType ==
  [op : Ops, step : Steps, user : Users \cup {NoUser}, sid : Sids \cup {NoSid},
   todo : SUBSET Session, outer : SUBSET Session, ret : Steps, after : Steps,
   adding : Users \cup {NoUser}, del : Sids \cup {NoSid}, victim : Users \cup {NoUser}]

TypeOK ==
  /\ now \in Nat
  /\ account \in SUBSET Users
  /\ sessions \in SUBSET Session
  /\ activeUsers \in [Users -> Nat]
  /\ restored \in BOOLEAN
  /\ req \in [Tasks -> TaskType]
  /\ turn \in SUBSET Tasks
  /\ issued \in SUBSET Sids /\ loggedOut \in SUBSET Sids
  /\ deleted \in SUBSET Users /\ outrun \in SUBSET Sids
  /\ disturbed \in BOOLEAN

Init ==
  /\ now = 0
  /\ account = Users
  /\ sessions = {}
  /\ activeUsers = [u \in Users |-> 0]
  /\ restored = FALSE
  /\ req = [t \in Tasks |-> Idle]
  /\ turn = {}
  /\ issued = {} /\ loggedOut = {} /\ deleted = {} /\ outrun = {}
  /\ disturbed = FALSE

-----------------------------------------------------------------------------
Busy == {t \in Tasks : req[t].step \notin {"idle", "dead"}}

\* The task is at this step and may move.
At(t, step) == req[t].step = step /\ turn \subseteq {t}

Suspends(step) == step \in OtherWaits \/ (step \in StoreSteps /\ Backend = "Database")

\* The task goes on as q says: it keeps the loop unless q suspends.
Continue(t, q) ==
  /\ req' = [req EXCEPT ![t] = q]
  /\ turn' = IF Suspends(q.step) THEN {} ELSE {t}

Goto(t, step) == Continue(t, [req[t] EXCEPT !.step = step])
End(t) == Continue(t, Idle)

\* An exception leaves the task: a request is answered with an error, while
\* nothing catches it in the background task's loop.
Raise(t) == Continue(t, IF t \in Sweepers THEN [Idle EXCEPT !.step = "dead"] ELSE Idle)

Put(x) == sessions' = {y \in sessions : y.sid # x.sid} \cup {x}
Lookup(sid) == {x \in sessions : x.sid = sid}

ActiveUsers == {u \in Users : activeUsers[u] > 0}

-----------------------------------------------------------------------------
(***************************************************************************)
(* Tasks start.                                                            *)
(***************************************************************************)
MayBegin(t) == At(t, "idle") /\ Cardinality(Busy) < MaxActive

\* uuid4: an id that no session has, and that no other login drew.
Fresh == Sids \ (issued \cup {req[t].sid : t \in {p \in Tasks : req[p].op = "login"}})

BeginLogin(t) ==
  /\ MayBegin(t)
  /\ \E u \in Users, sid \in Fresh :
       /\ activeUsers[u] < MaxCount
       /\ Continue(t, [Idle EXCEPT !.op = "login", !.step = "user", !.user = u, !.sid = sid])
  /\ UNCHANGED <<now, stores, counters, history>>

\* A request with a bearer token; LogoutView is one.
BeginRequest(t) ==
  /\ MayBegin(t)
  /\ \E sid \in issued, op \in {"request", "logout"} :
       Continue(t, [Idle EXCEPT !.op = op, !.step = "auth", !.sid = sid])
  /\ UNCHANGED <<now, stores, counters, history>>

\* CsmUsersView.delete, from the point where delete_user deletes the user.
BeginDeleteUser(t) ==
  /\ MayBegin(t)
  /\ \E u \in account :
       Continue(t, [Idle EXCEPT !.op = "delete_user", !.step = "remove_user", !.user = u])
  /\ UNCHANGED <<now, stores, counters, history>>

\* _timer_task calls its handler.
BeginClear(t) ==
  /\ MayBegin(t)
  /\ Continue(t, [Idle EXCEPT !.op = "clear", !.step = "sweep"])
  /\ UNCHANGED <<now, stores, counters, history>>

-----------------------------------------------------------------------------
(***************************************************************************)
(* LoginService.login                                                      *)
(***************************************************************************)
\* The user store answers.
GetUser(t) ==
  /\ At(t, "user")
  /\ IF req[t].user \in account THEN Goto(t, "known") ELSE End(t)
  /\ UNCHANGED <<now, stores, counters, history>>

\* The login goes on with the user it got, who may be gone by now.  Abort stands
\* for a wrong password.
Authenticate(t) ==
  /\ At(t, "known")
  /\ Goto(t, "scan")
  /\ UNCHANGED <<now, stores, counters, history>>

\* Mutant of Scan: the user's own session is not found.
ScanMisses(t) ==
  /\ At(t, "scan")
  /\ Continue(t, [req[t] EXCEPT !.step = "scan_next", !.todo = {}])
  /\ UNCHANGED <<now, stores, counters, history>>

\* _is_valid_session_exists
Scan(t) ==
  /\ At(t, "scan")
  /\ Continue(t, [req[t] EXCEPT !.step = "scan_next",
                                !.todo = {x \in sessions : x.user = req[t].user}])
  /\ UNCHANGED <<now, stores, counters, history>>

\* QuotaSessionManager.delete(sid), to return to the step ret.
CallDelete(t, q, sid, ret) ==
  Continue(t, [q EXCEPT !.step = "del_get", !.del = sid, !.ret = ret])

ScanNext(t) ==
  /\ At(t, "scan_next")
  /\ \/ req[t].todo = {} /\ Goto(t, "add")
     \/ \E x \in req[t].todo :
          IF Expired(x)
          THEN CallDelete(t, [req[t] EXCEPT !.todo = @ \ {x}], x.sid, "scan_next")
          ELSE Continue(t, [req[t] EXCEPT !.step = "refresh",
                                          !.todo = {[x EXCEPT !.expiry = ExpiryTime]}])
  /\ UNCHANGED <<now, stores, counters, history>>

\* update_session_expiry_time stores the session it was given, be it still in
\* the store or not.
Refresh(t) ==
  /\ At(t, "refresh")
  /\ \E x \in req[t].todo : Put(x)
  /\ End(t)
  /\ UNCHANGED <<now, account, counters, history>>

\* SessionManager.create: the session is made and handed to the store.
CallStore(t) ==
  Continue(t, [req[t] EXCEPT !.step = "store", !.adding = NoUser,
                 !.todo = {[sid |-> req[t].sid, user |-> req[t].user, expiry |-> ExpiryTime]}])

Store(t) ==
  /\ At(t, "store")
  /\ \E x \in req[t].todo : Put(x) /\ issued' = issued \cup {x.sid}
  /\ End(t)
  /\ UNCHANGED <<now, account, counters, loggedOut, deleted, outrun>>

-----------------------------------------------------------------------------
(***************************************************************************)
(* QuotaSessionManager: _add_active_user_with_quota for the user of the    *)
(* login or, called by _restore_active_users, for that of a stored session.*)
(***************************************************************************)
Add(t) ==
  /\ At(t, "add")
  /\ CASE ActiveUsersQuota <= 0 -> CallStore(t) /\ UNCHANGED restored
       [] ActiveUsersQuota > 0 /\ ~restored -> restored' = TRUE /\ Goto(t, "restore")
       [] ActiveUsersQuota > 0 /\ restored -> Goto(t, "admit") /\ UNCHANGED restored
  /\ UNCHANGED <<now, stores, activeUsers, history>>

\* Mutant of Restore: the stored sessions are not counted after a restart.
RestoreNothing(t) ==
  /\ At(t, "restore")
  /\ Continue(t, [req[t] EXCEPT !.step = "restore_next", !.outer = {}])
  /\ UNCHANGED <<now, stores, counters, history>>

\* _restore_active_users
Restore(t) ==
  /\ At(t, "restore")
  /\ Continue(t, [req[t] EXCEPT !.step = "restore_next", !.outer = sessions])
  /\ UNCHANGED <<now, stores, counters, history>>

RestoreNext(t) ==
  /\ At(t, "restore_next")
  /\ \/ req[t].outer = {} /\ Continue(t, [req[t] EXCEPT !.step = "admit", !.adding = NoUser])
     \/ \E x \in req[t].outer :
          LET q == [req[t] EXCEPT !.outer = @ \ {x}] IN
          IF Expired(x)
          THEN CallDelete(t, q, x.sid, "restore_next")
          ELSE Continue(t, [q EXCEPT !.step = "admit", !.adding = x.user])
  /\ UNCHANGED <<now, stores, counters, history>>

\* Full: try to free space by removing expired sessions.
Admit(t) ==
  /\ At(t, "admit")
  /\ IF Cardinality(ActiveUsers) >= ActiveUsersQuota
     THEN Continue(t, [req[t] EXCEPT !.step = "sweep", !.after = "recheck"])
     ELSE Goto(t, "recheck")
  /\ UNCHANGED <<now, stores, counters, history>>

\* Mutant of QuotaFull: the last place is given to a new user.
QuotaFullOffByOne(u) == Cardinality(ActiveUsers) > ActiveUsersQuota

QuotaFull(u) ==
  \/ Cardinality(ActiveUsers) > ActiveUsersQuota
  \/ Cardinality(ActiveUsers) = ActiveUsersQuota /\ activeUsers[u] = 0

\* The verdict; _restore_active_users ignores it and takes its next session.
Recheck(t) ==
  /\ At(t, "recheck")
  /\ LET nested == req[t].adding # NoUser
         u == IF nested THEN req[t].adding ELSE req[t].user
     IN /\ activeUsers' = IF QuotaFull(u) THEN activeUsers ELSE [activeUsers EXCEPT ![u] = @ + 1]
        /\ CASE nested -> Goto(t, "restore_next")
             [] ~nested /\ QuotaFull(u) -> Raise(t)
             [] ~nested /\ ~QuotaFull(u) -> CallStore(t)
  /\ UNCHANGED <<now, stores, restored, history>>

\* _remove_expired_sessions
Sweep(t) ==
  /\ At(t, "sweep")
  /\ Continue(t, [req[t] EXCEPT !.step = "sweep_next", !.todo = sessions])
  /\ UNCHANGED <<now, stores, counters, history>>

\* Mutant of SweepNext: expired sessions are passed over.
SweepNextKeeps(t) ==
  /\ At(t, "sweep_next")
  /\ \/ req[t].todo = {} /\ Goto(t, req[t].after)
     \/ \E x \in req[t].todo : Continue(t, [req[t] EXCEPT !.todo = @ \ {x}])
  /\ UNCHANGED <<now, stores, counters, history>>

SweepNext(t) ==
  /\ At(t, "sweep_next")
  /\ \/ req[t].todo = {} /\ Goto(t, req[t].after)
     \/ \E x \in req[t].todo :
          LET q == [req[t] EXCEPT !.todo = @ \ {x}] IN
          IF Expired(x) THEN CallDelete(t, q, x.sid, "sweep_next") ELSE Continue(t, q)
  /\ UNCHANGED <<now, stores, counters, history>>

\* QuotaSessionManager.delete reads the session first, to know its user; the
\* access to a session that is gone raises.
DeleteGet(t) ==
  /\ At(t, "del_get")
  /\ IF Lookup(req[t].del) = {}
     THEN Raise(t)
     ELSE \E x \in Lookup(req[t].del) :
            Continue(t, [req[t] EXCEPT !.step = "del_rm", !.victim = x.user])
  /\ UNCHANGED <<now, stores, counters, history>>

\* Mutants of Decremented: no test for zero; no decrement.
DecrementedBelow(u) == [activeUsers EXCEPT ![u] = @ - 1]
DecrementedNever(u) == activeUsers

\* _remove_active_user
Decremented(u) == IF activeUsers[u] > 0 THEN [activeUsers EXCEPT ![u] = @ - 1] ELSE activeUsers

\* Mutant of DeleteRemove: only the count is updated.
DeleteKeepsSession(t) ==
  /\ At(t, "del_rm")
  /\ activeUsers' = Decremented(req[t].victim)
  /\ loggedOut' = IF req[t].op = "logout" /\ req[t].ret = "idle"
                  THEN loggedOut \cup {req[t].sid} ELSE loggedOut
  /\ IF req[t].ret = "idle"
     THEN End(t)
     ELSE Continue(t, [req[t] EXCEPT !.step = req[t].ret, !.del = NoSid, !.victim = NoUser])
  /\ UNCHANGED <<now, stores, restored, issued, deleted, outrun>>

DeleteRemove(t) ==
  /\ At(t, "del_rm")
  /\ sessions' = sessions \ Lookup(req[t].del)
  /\ activeUsers' = Decremented(req[t].victim)
  /\ loggedOut' = IF req[t].op = "logout" /\ req[t].ret = "idle"
                  THEN loggedOut \cup {req[t].sid} ELSE loggedOut
  /\ IF req[t].ret = "idle"
     THEN End(t)
     ELSE Continue(t, [req[t] EXCEPT !.step = req[t].ret, !.del = NoSid, !.victim = NoUser])
  /\ UNCHANGED <<now, account, restored, issued, deleted, outrun>>

-----------------------------------------------------------------------------
(***************************************************************************)
(* LoginService.auth_session, in session_middleware, then the handler.     *)
(***************************************************************************)
\* Mutant of Refreshed: the expiry time stays.
NotRefreshed(x) == sessions

\* "Refresh Expiry Time" sets it on the object auth_session got: the stored one
\* itself in memory, a copy of it from the database.
Refreshed(x) ==
  IF Backend = "InMemory" THEN (sessions \ {x}) \cup {[x EXCEPT !.expiry = ExpiryTime]}
                          ELSE sessions

Auth(t) ==
  /\ At(t, "auth")
  /\ \/ Lookup(req[t].sid) = {} /\ End(t) /\ UNCHANGED sessions
     \/ \E x \in Lookup(req[t].sid) :
          IF Expired(x)
          THEN CallDelete(t, [req[t] EXCEPT !.op = "request"], x.sid, "idle") /\ UNCHANGED sessions
          ELSE /\ sessions' = Refreshed(x)
               /\ IF req[t].op = "logout" THEN CallDelete(t, req[t], x.sid, "idle")
                                          ELSE Goto(t, "handler")
  /\ UNCHANGED <<now, account, counters, history>>

Handler(t) ==
  /\ At(t, "handler")
  /\ End(t)
  /\ UNCHANGED <<now, stores, counters, history>>

-----------------------------------------------------------------------------
(***************************************************************************)
(* CsmUsersView.delete: the user, then delete_all_sessions_for_user.       *)
(***************************************************************************)
RemoveUser(t) ==
  /\ At(t, "remove_user")
  /\ account' = account \ {req[t].user}
  /\ Goto(t, "removed")
  /\ UNCHANGED <<now, sessions, counters, history>>

\* delete_user returns and the view calls delete_all_sessions_for_user.
DeleteSessions(t) ==
  /\ At(t, "removed")
  /\ Goto(t, "list")
  /\ UNCHANGED <<now, stores, counters, history>>

\* Mutant of List: the user's sessions are not found.
ListMisses(t) ==
  /\ At(t, "list")
  /\ Continue(t, [req[t] EXCEPT !.step = "list_next", !.todo = {}])
  /\ UNCHANGED <<now, stores, counters, history>>

List(t) ==
  /\ At(t, "list")
  /\ Continue(t, [req[t] EXCEPT !.step = "list_next",
                                !.todo = {x \in sessions : x.user = req[t].user}])
  /\ UNCHANGED <<now, stores, counters, history>>

\* The logins of user u that are past the reading of their user.
LoginsBehind(u) ==
  {req[p].sid : p \in {q \in Busy : req[q].op = "login" /\ req[q].user = u /\ req[q].step # "user"}}

ListNext(t) ==
  /\ At(t, "list_next")
  /\ \/ /\ req[t].todo = {}
        /\ End(t)
        /\ deleted' = deleted \cup ({req[t].user} \ account)
        /\ outrun' = outrun \cup LoginsBehind(req[t].user)
     \/ \E x \in req[t].todo :
          /\ CallDelete(t, [req[t] EXCEPT !.todo = @ \ {x}], x.sid, "list_next")
          /\ UNCHANGED <<deleted, outrun>>
  /\ UNCHANGED <<now, stores, counters, issued, loggedOut>>

\* create_user stores a user, perhaps one of the name of a deleted user; the
\* module UserService has its steps.
CreateUser(u) ==
  /\ UsersReturn
  /\ turn = {}
  /\ u \notin account
  /\ account' = account \cup {u}
  /\ deleted' = deleted \ {u}
  /\ disturbed' = (disturbed \/ Busy # {})
  /\ UNCHANGED <<now, sessions, counters, req, turn, issued, loggedOut, outrun>>

-----------------------------------------------------------------------------
(***************************************************************************)
(* Failures, restarts and time.                                            *)
(***************************************************************************)
\* A store call fails for good after its retries, or the client disconnects and
\* the task is cancelled: only where the task is suspended.
Abort(t) ==
  /\ StoreFails
  /\ turn = {}
  /\ req[t].step \notin {"idle", "dead"}
  /\ Raise(t)
  /\ UNCHANGED <<now, stores, counters, history>>

\* The same when the store has carried out the call and only the answer is
\* lost: the task does not learn of it and goes no further.
AbortLate(t) ==
  /\ StoreFails
  /\ turn = {}
  /\ \/ /\ At(t, "store") \/ At(t, "refresh")
        /\ \E x \in req[t].todo : Put(x) /\ issued' = issued \cup {x.sid}
     \/ /\ At(t, "del_rm")
        /\ sessions' = sessions \ Lookup(req[t].del)
        /\ UNCHANGED issued
  /\ Raise(t)
  /\ UNCHANGED <<now, account, counters, loggedOut, deleted, outrun>>

Restart ==
  /\ AgentRestarts
  /\ turn = {}
  /\ req' = [t \in Tasks |-> Idle]
  /\ sessions' = IF Backend = "InMemory" THEN {} ELSE sessions
  /\ activeUsers' = [u \in Users |-> 0]
  /\ restored' = FALSE
  /\ UNCHANGED <<now, account, turn, history>>

Tick ==
  /\ turn = {}
  /\ now < MaxTime
  /\ now' = now + 1
  /\ UNCHANGED <<stores, counters, req, turn, history>>

-----------------------------------------------------------------------------
Step(t) ==
  \/ GetUser(t) \/ Authenticate(t) \/ Scan(t) \/ ScanNext(t) \/ Refresh(t) \/ Store(t)
  \/ Add(t) \/ Restore(t) \/ RestoreNext(t) \/ Admit(t) \/ Recheck(t)
  \/ Sweep(t) \/ SweepNext(t) \/ DeleteGet(t) \/ DeleteRemove(t)
  \/ Auth(t) \/ Handler(t)
  \/ RemoveUser(t) \/ DeleteSessions(t) \/ List(t) \/ ListNext(t)

Begin(t) == BeginLogin(t) \/ BeginRequest(t) \/ BeginDeleteUser(t)

Fail(t) == Abort(t) \/ AbortLate(t)

\* What the history variable records of a step.
Overlapping == disturbed' = (disturbed \/ Cardinality(Busy') > 1)

Next ==
  \/ /\ \/ \E t \in Requests : Begin(t)
        \/ \E t \in Sweepers : BeginClear(t)
        \/ \E t \in Tasks : Step(t)
        \/ Restart
        \/ Tick
     /\ Overlapping
  \/ \E u \in Users : CreateUser(u)
  \/ \E t \in Tasks : Fail(t) /\ disturbed' = TRUE

Spec == Init /\ [][Next]_vars

\* The event loop resumes ready tasks in the order they became ready, so none
\* waits forever for its turn, and the timer fires again and again.
Fairness ==
  /\ \A t \in Tasks : SF_vars(Step(t) /\ Overlapping)
  /\ \A t \in Sweepers : SF_vars(BeginClear(t) /\ Overlapping)

FairSpec == Spec /\ Fairness

-----------------------------------------------------------------------------
\* The check of _add_active_user_with_quota and its increment cannot be torn
\* apart: whatever the restore, sweeps and deletes around them do, the agent
\* never counts more users than active_users_quota.
CountedUsersWithinQuota == ActiveUsersQuota > 0 => Cardinality(ActiveUsers) <= ActiveUsersQuota

\* "active_users_quota: number of users that are allowed to simultaneously use
\* CSM": the users that hold a session that has not expired.
SimultaneousUsersWithinQuota ==
  ActiveUsersQuota > 0 =>
    Cardinality({x.user : x \in {y \in sessions : ~Expired(y)}}) <= ActiveUsersQuota

\* "Session manager that tracks usage": when no task is in progress and the
\* counters were restored, they are the numbers of stored sessions.
UsageTracked ==
  ActiveUsersQuota > 0 /\ restored /\ Busy = {} =>
    \A u \in Users : activeUsers[u] = Cardinality({x \in sessions : x.user = u})

\* A login takes over the session its user has, so a user has at most one.
OneSessionPerUser ==
  \A x, y \in sessions : x.user = y.user => x = y

\* A session is gone for good once its logout has returned.
LogoutEndsSession == \A x \in sessions : x.sid \notin loggedOut

\* A user whose deletion has returned has no session: "delete session for user"
\* in CsmUsersView.delete.
DeletedUserHasNoSession == \A x \in sessions : x.user \notin deleted

\* What CsmUsersView.delete achieves whatever overlaps it: if a deleted user has
\* a session, then a login made it that had read the user before the deletion
\* returned; no session from before the deletion and no later login is left,
\* also if a user of that name comes and goes again.
OnlyOutrunLoginsSurvive == \A x \in sessions : x.user \in deleted => x.sid \in outrun

\* What the Database store does promise: until two tasks overlap or one fails,
\* all of these hold, through expiry, restarts of the agent in the middle of a
\* task, and the restoring of the counters from the stored sessions.
GuaranteesWithoutOverlap ==
  ~disturbed =>
    /\ SimultaneousUsersWithinQuota
    /\ UsageTracked
    /\ OneSessionPerUser
    /\ LogoutEndsSession
    /\ DeletedUserHasNoSession

\* auth_session "refreshes expiry time": after a request the session lasts for
\* another expiry interval.
RequestRefreshesSession ==
  [][ \A t \in Requests : req[t].step = "auth" /\ req'[t].step = "handler" =>
        \E x \in sessions' : x.sid = req[t].sid /\ x.expiry = ExpiryTime ]_vars

\* The background task gets rid of every expired session.
ExpiredSessionsRemoved ==
  \A sid \in Sids : (\E x \in Lookup(sid) : Expired(x)) ~> ~(\E x \in Lookup(sid) : Expired(x))
=============================================================================
