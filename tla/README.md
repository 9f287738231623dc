# A TLA+ verification of the CSM agent

CORTX manager (CSM) is the management agent of a CORTX cluster: a Python process,
one asyncio event loop with an aiohttp server, that authenticates administrators,
keeps users and sessions in Consul, and turns REST requests into operations on the
cluster. The live code is `csm/`; `experiments/aio-py` is the web page and server the
agent's websocket interface was tried out with; `archive/` holds retired services
that nothing in `csm/` imports.

This directory models the parts of the agent that keep state under concurrency
and failure, checks them with TLC on small instances and proves the central
invariants with TLAPS for every instance. `PROJECT.json` maps every definition to
the source lines it stands for, and every run and theorem to its property.

## 1. Inventory

| component | state | operations | interactions | what is hard | what makes it correct |
|---|---|---|---|---|---|
| REST front end (`core/agent/api.py`) | request counters `__nreq`, `__nblocked`; `__is_shutting_down`; server.connections; one task per connection | middlewares (throttler, rest, session, permission), error replies, websocket, SIGINT/SIGTERM | calls every controller; sessions for authentication; runs the background task | cancellation at any suspension point; new connections while a SIGTERM waits; several signals; order of except clauses | counter exact and bounded, SIGTERM never cuts off a connected request, the agent stops, narrowest error clause answers |
| Websocket pages (`experiments/aio-py/client/client.js`, `aio_py.py`; `process_websocket` and the broadcast of `api.py`) | the page's socket and log; the set of clients, the push queue, the background task | load, send, close, leave; read a text, answer or ignore it, broadcast, push, shut down | browser events; frames in both directions; other threads push | sends that suspend while clients come and go, a broadcast given up halfway, cancellation swallowed by an except clause, closing handshakes | texts are read in order, a message is missed only when someone left, no message twice, sockets close, clients are forgotten, pushed messages go out |
| User management (`core/services/users.py`, its controller) | the user store, `CsmUserService.lock` | create, update, delete, get | called by controllers; deletion ends sessions; login reads users | reads become stale at each store call; only create_user is locked | quota, an administrator remains, only administrators make administrators, updates do not revive users |
| Sessions and login (`core/services/sessions.py`, `session/session_factory.py`, login controller) | the session store (memory or database), `_active_users`, `_restored` | login, authentication, logout, delete all of a user, background sweep | session middleware; users; timer task | overlapping loops over sessions, store failures, restarts, an exception in the timer loop | user quota, exact counters, a logout or deletion is final, expired sessions go away |
| Cluster shutdown signal (`core/services/cluster_management.py`, plugin, operations, `common/comm.py`) | the message bus object and its producer | POST shutdown_signal | view → service → plugin → operation → bus | retries of sends that may have succeeded; an initialisation given up halfway; blocking sleeps | only authorised requests emit the signal; a success means it was sent; retry loops end |
| Permissions and roles | predefined role table | set algebra on permission sets | permission middleware | – | lattice laws of merge and intersection |
| Activities | activity records | create, update, complete | clients poll them | – | completed is final, progress grows |
| Email queue | queue, worker task | enqueue, send, join | no caller in `csm/` | a worker that dies; join | every message is tried or dropped, join returns |
| File cache | cached files | store, get, delete | downloads and uploads | – | only the owner's file is returned |
| Setup (`conf/*.py`) | Consul configuration, administrator, service user | prepare, config, init, reset, cleanup, upgrade phases | provisioner | a crash between two steps, repeated phases | phases can be repeated; an administrator exists afterwards |
| RGW users and buckets | none (RGW keeps it) | users, keys, capabilities, quotas: create, get, modify, delete; bucket: link, unlink | signed HTTP to RGW | attempts whose answer is lost, a blocking sleep between attempts | the response tells whether the operation was carried out, never twice; everybody is answered |
| Software update status | one status record | update, poll | provisioner | late statuses | transitions of the status |
| Health, topology, capacity, statistics | none | read-only queries | HA service, Consul | – | pages partition the result |
| Command line, payload, configuration, validation, timeseries | none | parsing, formatting, I/O | – | – | – |

Hazards, that is the places where a test would hardly reach what can go wrong,
are listed with their lines in `PROJECT.json`.

## 2. Modules

* `ErrorResponses` – the hierarchy of exception classes and the except clauses of
  `rest_middleware` as data; `StatusOf` is the first clause that matches, and
  `NearestTable` the reference: the clause naming the nearest superclass.
  `ErrorResponsesProofs`.
* `RestApi` – middleware chain, throttler and shutdown. An action is what a task
  runs between two suspension points. `MCRestApi`, `RestApiProofs`.
* `UserService` – create, delete and update requests; an action is the answer of
  one store call and the code up to the next. `UserDirectory` is the abstract
  specification, `MCUserService` its instances, `UserServiceProofs` its proofs.
* `SessionService` – login, requests, logout, deletion of a user, background
  sweep and restart over either store. `MCSessionService`, `SessionServiceProofs`.
* `ClusterShutdown` – the shutdown signal and the message bus.
  `MCClusterShutdown`, `ClusterShutdownProofs`.
* `RgwRequest` – a request to RGW with its attempts.
* `AgentLoop` – `ClusterShutdown` and `RgwRequest` composed on the event loop that
  both block with `time.sleep`. `MCAgentLoop`, `AgentLoopProofs`.
* `WebsocketClient` – the page of `client.js`, with the browser's WebSocket and the
  connection as its external part.
* `Websockets` – pages composed with a server, the experiment's or the agent's.
  `MessageFeed` is the abstract specification of what pages see, `MCWebsockets` the
  instance, `WebsocketsProofs` the proofs.

### How state and actions correspond to the code

**RestApi.** `task[c]` is where the task of connection `c` is suspended: waiting
for a request (`idle`), in `request.json()` (`body`), in `auth_session` (`auth`),
in a controller (`handler`), in the receive loop of a websocket. `nreq` and
`nblocked` are the private counters, `shut[s]` is the `_shut_down` task that
signal `s` starts, `original[s]` its copy of `server.connections`, less those
closed since: a closed connection object never comes back. Under Python 3.6, for
which the package is built, `CancelledError` is an `Exception`, and the
`except Exception` around the body read swallows it (`SwallowCancel`). Elsewhere a
cancelled request is answered 499 and its connection stays open (`Cancelled`); a task
cancelled between two requests ends (`IdleCancelled`). Whether aiohttp cancels a
handler whose client has gone depends on its release: the comment at
`api.py:434` says it does, and later releases do not, so `ClientDisconnect` allows
both. `reply[c].raised` is the class of the exception, also when `error_response` fails
for it (`AnswerRaised`). `CommandTerminated` is a `KeyboardInterrupt`, which no clause
catches, and is not among the `Classes`.

**UserService.** `req[r]` holds what the coroutine of a request has in its local
variables; `seen` is the role of the user it read first. A session keeps the
permissions it got at login, so requests of users whose role has changed do reach
the service, and `Start` takes any present user as the actor. Passwords, e-mail
addresses and alert settings are left out: no property tells them apart, and a
wrong current password is one of the ways a request may end (`Abort`). `created`
and `wereAdmin` are history variables. The retry loops of `UserManager._store` and
`_delete` are one call that succeeds, fails, or took effect and fails (`Abort`).

**SessionService.** `turn` is the task that runs. Calls of the `Database` store
suspend, those of `InMemory` do not, so with the latter a task keeps `turn` and
the same actions run uninterrupted. Users are in Consul whatever the session store, so
every call of the user manager suspends with both: the answer to a read or a deletion
of a user is on its way in the steps `known` and `removed`, in which others run, and
`Authenticate` and `DeleteSessions` resume the task; a failure there is an answer that
was lost. The calls of the database store are one step with the code behind their
answer, since that code touches nothing but the task's own variables, except for the
counter that `DeleteRemove` takes down. `CreateUser` is `create_user`, which
`UserService` models in detail. `todo` is the list a loop still has to visit
and `del` the session that is being deleted. An exception ends a request and
kills the background task, as nothing in `_timer_task` catches it. `AbortLate` is
a call whose effect took place and whose answer was lost. `issued`, `loggedOut`,
`deleted` (users whose deletion has returned) and `outrun` (the sessions of logins that
had read their user when a deletion of it returned) are history variables, and so is
`disturbed`: two tasks have been in progress at a time, or one has failed.

**ClusterShutdown.** The bus is initialised and used with blocking calls and
`time.sleep`, so one request holds the loop (`turn`) except while it awaits its
body. `sent` counts the copies of the message that the broker (external) took.

**RgwRequest and AgentLoop.** Every view of `controllers/rgw/s3` ends in one
`RGWPlugin.execute`, so a request is one operation of RGW; `step` is where its
coroutine is: reading the body, awaiting an answer of RGW, in `time.sleep`, done.
`_process` distinguishes what an attempt can come to: `Success`, `Refused` (an error
answer, which `_create_error` passes on or turns into 500), `Timeout` (408),
`Unreachable` (503, the only one `execute` repeats) and `Fails`. `carried` counts,
for the properties, how often RGW carried out the operation; after `Timeout` and
`Fails` either is possible. In `AgentLoop` a request that sleeps keeps all others
from moving, and a restart drops the requests of both components.

**WebsocketClient and Websockets.** A browser runs one event handler of a page to its
end, so each handler of `client.js` is an action; a reload is another page. The page's
log is state: `sent` are its MSG-SEND lines, `received` its MSG-RECV lines by sender,
and `openAt` the place of SOCK-OPEN. `send` logs first and transmits only if the
socket is open, as the WebSocket interface prescribes. `link`, `up` and `down` are
the connection: frames in order until it is cut. On the server, `handler` is the
coroutine of a websocket, `clients` the WeakSet, `todo` the clients that a broadcast
in progress has still to visit (its copy of the set; a WeakSet has no order), `queue`
the length of the push queue. `send_str` waits while the peer's buffer is full
(`Capacity`), which is where coroutines interleave. The two servers share the code
of accepting, broadcasting and leaving and differ in what starts a broadcast;
`setting.server` selects one. Cancellation inside a broadcast is caught by its
`except` clause (bare in the experiment, `except Exception` under Python 3.6 in the
agent), so `OnShutdown` ends the background task only when it is not broadcasting.

## 3. Runs

| run | checks | distinct states | result |
|---|---|---|---|
| `rest_agent` | `TypeOK`, `ThrottlerCounts`, `WaitersCoverInFlight`, `NearestClauseAnswers`, `SigtermIsGraceful`, `SigtermStops` | 114 thousand | pass |
| `users_concurrent` | `TypeOK`, `CreatedWithinQuota`, `RoomForCreation`, `LockProtectsCreation`, `AdminsMakeAdmins` | 358 thousand | pass |
| `users_serial` | `AtLeastOneAdmin`, `DirectorySpec` (refinement) | 5 thousand | pass |
| `users_last_admin` | `AtLeastOneAdmin` | – | violation |
| `users_resurrected` | `SaveStoresExisting` | – | violation |
| `sessions_memory` | `SimultaneousUsersWithinQuota`, `UsageTracked`, `OneSessionPerUser`, `LogoutEndsSession`, `OnlyOutrunLoginsSurvive`, `RequestRefreshesSession`, `ExpiredSessionsRemoved` | 277 thousand | pass |
| `sessions_database` | `TypeOK`, `CountedUsersWithinQuota`, `GuaranteesWithoutOverlap` | 1.6 million | pass |
| `sessions_not_refreshed` | `RequestRefreshesSession` | – | violation |
| `sessions_sweeper_dies` | `ExpiredSessionsRemoved` | – | violation |
| `event_loop` | `TypeOK`, `SignalsAuthorised`, `OnlyGivingUpHidesLoss`, `RgwTypeOK`, `AnswerTellsOutcome`, `RequestsEnd`, `CallsEnd` | 328 thousand | pass |
| `shutdown_false_success` | `SuccessMeansSent` | – | violation |
| `websocket_pages` | `TypeOK`, `ServerReadsWhatWasSent`, `MissedOnlyWhenAnotherLeft`, `FeedSpec` (refinement), `ClosingEnds`, `LostClientsForgotten`, `PushedIsBroadcast` | 231 thousand | pass |

The two session stores are compared deliberately. The guarantees a reader of the
session code expects hold with the in-memory store (`sessions_memory`) and with
the database until two tasks overlap or one fails, restarts included
(`GuaranteesWithoutOverlap`). The exception is the deletion of a user: a login that
has read the user survives it with either store, since users are remote in both.
So with the in-memory store `DeletedUserHasNoSession` holds only without an overlap, and
`OnlyOutrunLoginsSurvive` says what holds always: such a login is the only way. After two tasks have overlapped, TLC finds
`LogoutEndsSession`, `OnlyOutrunLoginsSurvive` and
`SimultaneousUsersWithinQuota` violated (a login stores back a session that was
deleted after it listed it); what
survives even then is the rest of `sessions_database`.

`websocket_pages` shows how much the single `try` around a broadcast costs and how
much it does not: a client that stays connected misses a message only when another
one that was still to be visited, or the sender, has gone, and neither the background
task nor the registry of clients suffers. `event_loop` shows that `execute` is right
to repeat only what did not reach RGW: repeat a timeout as well
(`TimeoutRepeated`) and RGW may carry out one request twice.

### Bounds

* `RestApi`: two connections and a quota of one make a request blocked while
  another is in flight; one connection can close and come back while a SIGTERM
  waits for the other, and a second SIGTERM and a SIGINT overlap with the first.
  `MaxBlocked` caps a counter nothing reads. `SomeErrors` are a class whose
  clause answers 403 and one that may come without text; the table for all classes is compared in `NearestClauseAnswers`.
* `UserService`: three names and a quota of two, two requests in progress and any
  number one after the other: races here need two requests. `users_concurrent`
  starts from an administrator and a manager and asks for the role admin, the one
  that can escalate; `users_serial` asks for all roles, and in `users_last_admin` users
  are only deleted.
* `SessionService`: two users, a quota of one, two session ids, an interval of one and clocks up to `MaxTime`, so sessions
  expire, are refreshed and reused. `MaxActive` bounds the tasks in progress,
  `MaxCount` the counters. `sessions_database` has one tick of the clock, after which
  sessions of before are expired and new ones are not, and no background task: a
  request's own sweep is the same code, and `sessions_sweeper_dies` has the task. This is
  the run in which deleted users are created again (`UsersReturn`); for the in-memory
  store, where that multiplies the graph a liveness check has to search, the theorems
  cover it, and TLC has checked the invariants of `sessions_memory` with it too.
* `ClusterShutdown`: two attempts and two requests, of which the first may give up.
* `AgentLoop`: two attempts for either loop, two requests for the signal and one to
  RGW: requests to RGW share nothing but the loop, which one of them suffices to block.
* `Websockets`: two pages, a buffer of one text, one click on "send" per page
  (`MaxClicks`) and up to two broadcasts of the background task, in five settings
  (`FiveSettings`) that say which server runs, who clicks, whose connection may break
  and whether the server is stopped. `setting.background` caps the pushed messages and
  the times the server sends. One page that stalls or leaves while the other
  is served is what a broadcast has to cope with; the proofs cover any number.

Deadlock is not checked: an agent that has stopped, a clock at its bound or a run
whose requests are all answered has no next step by design.

### Fairness

* `RestApi`: weak fairness of the steps of a task that is not waiting for a new
  request (the event loop runs every ready task and handlers come to an end), of
  the `_shut_down` tasks, and of `Close`: a client eventually leaves. Without the
  last, `_shut_down` waits as long as a client stays connected; that is what its
  code says. Nothing is assumed of clients that connect.
* `SessionService`: strong fairness per task, as asyncio resumes ready tasks in the
  order in which they became ready, and of the timer, which fires again and again.
* `ClusterShutdown`, `AgentLoop`: strong fairness per request, for the same reason: a
  request that is ready again and again, while others block the loop in between, gets
  its turn. A body or an answer arrives, or the wait for it is given up: both have
  timeouts.
* `Websockets`: weak fairness of the events a browser has to dispatch, of accepting,
  of the coroutine of each websocket (a lost connection is noticed), of each broadcast
  and of the background task. Nothing is assumed of users, of `push` or of
  connections, which need not break.

## 4. Findings

Each is a violation run; `PROJECT.json` quotes the line of the repository that
states the property.

1. `delete_user` counts the administrators and deletes later without the lock: two
   deletions at once leave none. The demotions of `update_user` have the same gap, and
   one more: administrators are counted only when one changes its own role
   (`users.py:441`), so two that demote each other are not counted at all.
2. `update_user` saves the record it read; a user deleted meanwhile comes back.
3. With the database store the refreshed expiry time is set on a copy and lost.
4. A session that disappears between the sweep's list and its delete raises in the
   background task, which ends; expired sessions stay from then on.
5. After a bus initialisation that was given up, the next request reports a
   shutdown signal that was not sent.

Seen while modelling, and stated by the properties of passing runs:

* `login` awaits the user (`sessions.py:334`) and creates a session later without asking
  again. A deletion of the user whose `delete_all_sessions_for_user` runs in between
  finds nothing to delete, and the deleted user is logged in, although
  `controllers/users.py:170` says "delete session for user". TLC finds this violation of
  `DeletedUserHasNoSession` in the instance of `sessions_memory`;
  `OnlyOutrunLoginsSurvive` is what is left of the promise.
* `error_response` returns an unset variable when an exception has no text (`Wordless`,
  `api.py:179`), although its comment says "For incorrect format, only log the error": a
  client timeout may be answered 500 and not 503. `NearestClauseAnswers` allows exactly
  this answer besides the clause's; the request is counted out all the same
  (`ThrottlerCounts`).

## 5. Proofs

No proof assumes more than the named `ASSUME` of the module it is about.

**RestApiProofs** (any finite set of connections, any quota and signals).
`TypeCorrect` and `ThrottlerCorrect` come from `IInv == TypeOK /\ ThrottlerCounts`:
neither is inductive alone, since the decrement of `__nreq` stays in `Nat` only
because the counter equals the number of requests in flight. `WaitersCorrect` is
the reason for `Graceful`: requests are refused from the moment the flag is set,
so those in flight on connected clients are among the connections that a waiting
SIGTERM waits for, and when none is left nothing connected can be cancelled.
`NearestClauseCorrect` carries `NoClauseShadows` of **ErrorResponsesProofs** over to
the replies, with the 500 that a `Wordless` class may get as the one other answer. That one is proved from two facts about the table of classes: the clause
that answers a class never comes after the one that answers its superclass, and a
class that no clause names has a superclass that one names.

**UserServiceProofs** (any finite set of names, any quota, any number of requests).
`Typed` strengthens `TypeOK` by what a request knows at each step (`Shape`).
`LockCorrect`: the holders of the lock are exactly the requests in create_user's
try block, and there is at most one. `QuotaCorrect` and `RoomCorrect` rest on it
and on `created \subseteq Present`: the count bounds the created users, and until
the request stores its user nobody else can add one. `NoEscalation` uses
`Granted`: a request on its way to make an administrator has an actor that was
one when it was checked, and a role that was read is a role the user had.
`SerialAdmin` and `SerialDirectory` have the hypothesis `OneAtATime` (there are no
two requests), without which `users_last_admin` refutes the first. Their invariant
`SerialInv` says which reads a request relies on when it writes: room under the quota
and no such user (`Creation`), the role it has seen and a user that is not the last
administrator (`Change`). The last is the point that is easy to get wrong:
`update_user` counts the administrators only when one changes its own role, and in the
other cases the actor the rules demand is the other administrator.

**SessionServiceProofs** (any finite sets of users and tasks, any quota, interval and
bound, either store). The proofs need the users and tasks to be finite because both
sides of the quota are cardinalities, and `SessionAssumption` says nothing else that a
configuration of the agent could fail.

* `TypeCorrect` needs `Shape`: a step such as `DeleteRemove` goes where `ret` says, so
  the types are inductive only together with where each loop may have called it from.
* `QuotaOfCounted` holds through every overlap, failure and restart;
  `RequestsRefreshInMemory` has the in-memory store as its hypothesis, since
  with the database `sessions_not_refreshed` refutes it.
* `ConsistentWhileCalm` is the main result. `Calm` is the in-memory store, or the
  database before `disturbed`; `Scheduled` says why it is calm: in memory a task inside
  a session operation, that is past the user store, holds the loop (`LoopHeld`), and with the database at most one is
  in progress (`Solitary`). So while a task acts nobody else is inside an operation
  (`OthersOutside`), and it is enough to follow one task. `Consistent` has four parts:
  the store keeps unique ids, one session per user, nothing of a logout or a deletion
  that has returned, and no more users than the quota (`StoresConsistent`); the id
  drawn by a login in progress is new and its own (`FreshIds`); the lists, the session
  being deleted, the user that logs in and the deletion in progress are still as the task
  has read them (`TasksKnow`); and a user is counted once if it has a session, or a login
  is about to store one, and the restoring of the counters has come to it (`Tracked`).
  None is inductive without the others: the restoring of the counters, for one, runs the
  same admission as a login, and must never sweep or be refused, which holds because
  fewer users are counted than hold sessions (`RoomToRestore`). `Deletions` adds what
  the suspensions in the user store leave: a deleted user has no account, a login past
  the read of a deleted user was overtaken by the deletion, and with the database that
  takes an overlap.
* `GuaranteedWithoutOverlap` (either store) and `QuotaInMemory`, `UsageInMemory`,
  `OneSessionInMemory`, `LogoutInMemory`, `DeletionInMemory` are read off that invariant.

`Shapes`, `LoopHeld`, `Solitary` and `CalmInv` were checked with TLC on both stores,
with quotas of 0 to 2 and up to three users, before they were proved, and `SerialInv`
on the instance of `users_serial`.

**ClusterShutdownProofs** (any set of requests, any retry count). `TypeCorrect`,
`OnlyAuthorisedSignals` and `LossExplained`. `Attempts` bounds the copies the
broker took by the attempts made, and only requests that passed `post`'s checks
make any. `Progress` says that a request in a blocking call holds the event loop,
so nobody sends while the bus is being initialised; with it `BusExplained` is
inductive: a bus without a producer is being initialised or was given up.

**WebsocketsProofs** (any set of pages, settings, buffer size and number of texts).
`TypeCorrect` first. `AllRegistered` adds that a coroutine in its message loop is in
the set of clients, from which `MissedOnlyWhenGone` follows action by action: only
`Abandon` drops clients from a broadcast, and each of its uses is someone's departure.
`RefinesFeed` is the refinement of `MessageFeed`. Its invariant `Ordered` relates, for
each page and sender, the log, the frames on their way and the broadcast in progress:
numbers rise along log and frames, and stay below the current broadcast while the page
is still to be visited. Without the last part a `SendStr` could append a number that
is there already. `ServerReads` rests on `Piped`: what the server has read and what is
on its way are consecutive in the page's log from the line SOCK-OPEN on.

**AgentLoopProofs** (any sets of requests, any retry count). `LoopImplementsShutdown`
shows that the composition implements `ClusterShutdown`, so that the theorems about
the signal carry over. `RgwTypes` bounds the attempts; `OutcomeTold` needs the
invariant that a request without an answer has not been carried out, which holds
because only attempts that did not reach RGW lead back to another one.

Only model-checked: liveness (`SigtermStops`, `ExpiredSessionsRemoved`, `RequestsEnd`,
`CallsEnd`, `ClosingEnds`, `LostClientsForgotten`, `PushedIsBroadcast`), which is out
of the prover's reach. Every other property of a passing run is a theorem.

## 6. Not modelled, and the plan

Not modelled:

* parsing, validation and formatting of requests (their outcome is an input),
  configuration and file access, read-only queries of other services, the command
  line client, and `archive/`;
* the Swagger page: `swagger-ui-onload.js` is one call that configures the vendored
  Swagger UI, and the bundles beside it are third-party code;
* activities: `update_by_id` reads, judges and stores a record without a suspension
  point, so that its two checks decide everything;
* the email queue, which no module of `csm/` imports.

The agent's core is modelled: front end, websockets, users, sessions, shutdown signal
and requests to RGW. What is left, in this order:

1. `SetupConfig` (`csm/conf/*.py`) - the setup phases with a crash between any two
   steps and phases repeated after it;
2. a composition of `UserService` and `SessionService`: permissions kept in a session
   after a change of role, and sessions left by a crash in a deletion;
3. `Permissions` (`permissions.py`, `roles.py`), the paging of `health.py` and the
   update status - pure functions and small records against reference definitions;
4. `ClusterHA` (`common/ha_framework.py`, `operations.py`) - the operations of the
   plugin that the request schema does not reach.
