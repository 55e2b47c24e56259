# Verification of the FastAPI server template

TLA+ models of the parts of this repository where requests, threads, Redis and
PostgreSQL interleave, the TLC configurations that check them on small
instances, and TLAPS proofs of what matters most for instances of any size.

    tlc -config AuthSessionsSafety.cfg MCAuthSessions.tla     # check a model
    tlapm AuthSessionsProofs.tla                              # check the proofs

Paths are relative to the repository's root; `service.py:75` is a line of the
file named in the same section. `PROJECT.json` lists components, runs, faulty
variants, findings, hazards, theorems, and for each definition the lines it
models.

## The system

A FastAPI application under gunicorn (4 worker processes). Every endpoint and
dependency is a plain `def`, so Starlette runs it in a thread: requests are
concurrent inside a worker and across workers, and share only PostgreSQL, Redis
and, inside a worker, the thread limiter and the connection pool.

| Component | State it keeps | Operations | What is hard | What makes it correct |
|---|---|---|---|---|
| Token sessions (`app/modules/auth/service.py`, `endpoints/auth.py`, `core/security.py`, `core/redis.py`) | Redis keys `refresh_token:{jti}` with a TTL; signed tokens held by clients | login, refresh, logout, check of the access token | EXISTS, DEL and SET are separate commands; two expiries (JWT and Redis); Redis errors and killed workers between them | a revoked token stays revoked; a refresh does not leave two usable tokens; refusals have a cause; only the owner ends a session |
| Dependencies (`app/api/deps.py`) | none | session, current user, superuser | user row read once, used later | as above |
| Items (`app/modules/items`) | table `item` | create, get, update, delete, lists | read, flush, commit and refresh are separate statements under READ COMMITTED; row locks | no resurrection, no lost update across columns, nothing acknowledged that is not stored |
| Generic repository (`app/repositories/base.py`) | none | get, create, update, soft delete, sort, count | the unit of work writes changed columns only | as for items |
| Transactions (`app/core/transaction.py`) | none | `safe_commit`, `commit_and_refresh` | a failure after the commit | a failed request reports what happened |
| Engine, pool, health (`app/core/database.py`, `endpoints/health.py`) | engine singleton, QueuePool of 5 + 10 connections | session per request, health check | threads wait for connections whose holders wait for threads; pool_timeout | nothing leaks, everyone is answered |
| Users, signup (`app/modules/users`) | table `user` | signup, profile update, lists | username test and INSERT are two statements; soft-deleted names | a name is given once, the refused lost to an account that exists, stale objects undo no administrator's edit |
| Bootstrap, deployment (`scripts/`, `alembic/`, compose file) | schema, first superuser | migrate, create superuser | replicas start together and restart | the superuser's name is given first and to a replica; every replica comes to serve |
| Rate limiter (`app/core/limiter.py`) | counters in Redis | one limit per auth endpoint | fixed windows, boundary bursts, address behind a proxy | no minute admits twice the limit; who is refused has used the limit up |
| Pagination (`app/schemas/common.py`, repositories' lists) | none | count, select, `Page` arithmetic | two statements, no tie-breaker, rows that come and go between pages | only a change before a row hides or repeats it; a page's numbers agree |
| Middleware, errors (`app/main.py`, `app/middleware`) | request-id context variable | ASGI chain, exception handlers | answers made outside the chain | answers carry their headers, logs tell of the right request |
| Configuration (`app/core/config.py`) | settings | read once | — | — |

## The modules

| Module | What it is |
|---|---|
| `SessionLedger` | abstract: the life of a token pair, unborn, live, dead |
| `AuthSessions` | the three token endpoints, one step per database query and Redis command; implements `SessionLedger` |
| `AuthSessionsProofs`, `SessionLedgerProofs` | their theorems |
| `ItemStore` | abstract: each request changes one row at most once, atomically, as asked and as permitted |
| `ItemRecords` | the items service over SQLAlchemy sessions and READ COMMITTED; implements `ItemStore` |
| `ItemRecordsProofs` | its theorems |
| `RequestPool` | one worker process: thread limiter, connection pool, the stages of a request |
| `RequestPoolProofs` | its theorems |
| `AccountRegistry` | abstract: a name is given once, in one step, the reserved one first |
| `UserAccounts` | signup, creation of the superuser and profile update, one step per statement, over the UNIQUE index |
| `Deployment` | the replicas that migrate, bootstrap and serve, composed with `UserAccounts`; implements `AccountRegistry` |
| `DeploymentProofs` | theorems of both |
| `RateLimiter` | slowapi's fixed window in Redis |
| `RequestEdge` | the layers around an endpoint, its logs and answers, composed with `RateLimiter` |
| `RequestEdgeProofs` | theorems of both |
| `ListingPages` | a walk over the pages of a list while rows change |
| `ListingPagesProofs` | its theorems |
| `MC...` | the symmetry sets of the instances |

The modules are layers of one request. `RequestEdge` surrounds an endpoint,
`RequestPool` gives it threads and connections, `AuthSessions` its user, and
`UserAccounts`, `ItemRecords` or `ListingPages` is what it does: commit and
refresh there are the stages `RunWrite` and `RefreshRow` of `RequestPool`.
Accounts and deployment are composed in full, because bootstrap_db creates the
superuser through the same service and index as a signup; so are edge and
limiter, because a hit is counted between a request's dependencies and its
endpoint.

Definitions named as faulty variants are never used by a specification. Each
stands directly before the definition it imitates and shows, when put in its
place, that a property notices the fault.

### Token sessions

A *pair* is an access token and the refresh token signed with it, identified by
the refresh token's jti. `deadline[p]` is the expiry of its Redis key;
`token[p]` is what the signed tokens say, the expiries rounded down to seconds
as PyJWT does; `killed` is a history variable, the pairs for which a DEL was
issued. A request moves through the steps in `pc`:

| Step | Code |
|---|---|
| `BeginLogin` | `authenticate_user`, one query and the password check (service.py:47) |
| `SignTokens`, `StoreJti`, `Respond` | `create_user_token` (57), SET (30), the endpoint's answer |
| `BeginRefresh` | signature, type and expiry of the token (68) |
| `VerifyJti`, `LoadUser` | EXISTS (75), the user's row and `is_active` (78) |
| `RevokeOld` or `RevokeRejected` | DEL (85), or DEL and rejection (81) |
| `BeginLogout`, `RevokeOwn` | `get_current_active_user` (108), ownership test and DEL (102, 105) |
| `RedisError` | a command raises, done or not; the answer is 500 |
| `Abandon` | the worker is killed, or the client gone, at any step |
| `Tick`, `SetAccount` | the clock; an administrator edits `is_active` or deletes the row |

Abstracted: passwords and signatures (to their outcome), uuid4 (jtis never
collide), and clocks (the hosts and Redis share one). Every refresh token this
code signs has a jti, so the branches for tokens without one (84) are left out.
The Redis client retries nothing that could undo a DEL: a SET repeated before
the pair was answered has the effect of a later SET.

### Items

One request is one session. `Load` is `_get_item_or_404` and `_check_owner`;
`FlushUpdate` sends the columns whose requested value differs from the loaded
one, waits for the row lock and applies to the latest committed row; `Commit`
publishes and unlocks; `Refresh` reads the row again. `used` holds the ids a
client can know. `tombs` and `held` are history variables that say what had
been answered before a request began and which requested values the row has
held since the request loaded it. `FlushUpdate` checks NOT NULL before it asks
for the lock, as PostgreSQL does. Failures: a statement raises, COMMIT is
refused or its reply is lost, the refresh raises, the worker is killed.

The physical columns `created_at` and `updated_at` are left out: no decision
reads them. Foreign keys cannot fail, users are never removed.

### Request pool

A request goes through the thread pool for `get_current_user`, for the endpoint
and for the validation of its response, each time at the end of the queue, and
keeps the connection its session has borrowed. A commit returns the connection
and the refresh after it borrows one again, with the thread held; before its
commit an endpoint may also raise (`Reject`). A health check borrows its
connection in its one thread and gives it back before its answer is validated
like the others. Left out:
entering `get_session` uses a thread without a connection, and leaving it runs
on an uncounted one (`contextmanager_in_threadpool`), so neither can block
another request for ever.

### Accounts and deployment

A session's `call` is what it was asked to do, `loaded` the `current_user` it
selected. A row is named by the session that inserted it, a hash by the session
that made it. For creating: `Check` is the SELECT by name and the password rules
(users/service.py:14-20), `Insert` the flush, which waits while another
session's INSERT of the name is uncommitted (`Inserting`) and raises an
IntegrityError if the index has it, soft-deleted rows included (`Indexed`,
against `Registered`); `Commit` and `Refresh` are `commit_and_refresh`. For
`PUT /users/me`: `Load` is `get_current_active_user`, `Flush` the rules and the
UPDATE with its row lock, and `Committed` applies the named columns to the
latest row. `Fault` fails a statement, a process or a COMMIT, done or not.

`Deployment` drives them. `phase` is the line of entrypoint.sh a container is
at: `ReadRevision`, `CreateTables` and `CommitSchema` are `alembic upgrade head`,
one transaction whose CREATE TABLE waits for another replica's and then fails;
`FindSuperuser` begins the session of bootstrap_db.py, `BootEnds` its exit code
under `set -e`. `Administer` soft-deletes or (de)activates a row directly: no
endpoint does, but every query of the code minds both. Left out: `full_name`,
primary keys and timestamps, offline migrations and downgrade.

### Request edge and limiter

`Depth` is the order in which main.py's layers surround the router, and a
response that starts at a layer passes the `send_wrapper` of those `Around` it.
`SetId` is `RequestIDMiddleware`, `Depend` validation and dependencies,
`Limited` the decorator of endpoints/auth.py, which runs after them; `Handled`
and `Return` are answers of the exception handlers and of endpoints, `Unhandled`
an exception that unwinds the stack up to Starlette's ServerErrorMiddleware
(`Crash`). FastAPI closes the session of an answer after it was sent and the
session of a handled exception before its handler runs; if that fails, the first
request ends with a response and an error in the log (`CloseSession`), the
second is `Unhandled`. Log entries read `context`, the task's request_id_ctx,
when they are written.

`RateLimiter` is external code, modelled from its use: the first hit of a window
sets the counter and its expiry, the others increment it, refused ones too, in
one script. `hits` is a history variable with what each INCR returned. `LoseReply`
is a hit that was counted but whose reply was lost, after which `RedisFails` may
try again. `ProxyHeadersMiddleware` only decides who shares a key, and headers
and log texts are reduced to which layer wrote them.

### Lists

`Open`, `Count`, `Select` and `NextPage` are one page after the other:
parameters, `_count_statement`, the sorted page with OFFSET and LIMIT, and a
client that goes on by `limit` while `has_next`. The first `skip` is any number,
as `PaginationParams` accepts any from 0, so pages need not begin at multiples
of their size. `Write` is a transaction of anybody else, committed before or
after any of these statements, as READ COMMITTED allows. `IsPrefix` leaves the
order of equal keys open, per statement, as PostgreSQL does. What a filter tests
is a row's facet; what the list is sorted by is its key, an integer.

The history variables say when the properties apply: `before` are the rows that
lay before the walk's first offset, `steady` those that were listed since the
walk began, unmoved and never tied; `left` and `entered` the keys at which other
rows went from the list or came to it; `late` those that came between the two
statements of the last page.

## The runs

| Run | Instance | Shows |
|---|---|---|
| `AuthSessionsSafety` | 3 requests, 3 pairs, 2 users, faults, time 0..2 with two ticks to the second | `IInv`; sessions end and tokens are refused for a cause, revocations are final; `SessionLedger` is implemented |
| `AuthSessionsSingleUse` | 3 requests, no faults | **violated**: two refreshes of one token both succeed |
| `AuthSessionsLogout` | 3 requests, no faults | **violated**: a refresh succeeds after the logout of its token |
| `ItemRecordsSafety` | 3 requests, 1 row, 2 nullable columns, no failures | its `IInv`; stale objects resurrect nothing and overwrite no foreign column; an update answered 200 was real, column by column; a deleted item is gone; waits for row locks make no chains |
| `ItemRecordsFailures` | 2 requests, 1 row, a plain user and a superuser, all failures | `ItemStore` is implemented; a row changes only for who may change it at the commit; whoever waits for the lock is answered |
| `RequestPoolBusy` | 3 requests of all kinds, 2 threads, 1 connection, no fairness for timeouts but where a property asks for it | nothing leaks, one place at a time; only a gridlock of all threads and all connections needs a timeout, and then everyone is answered; fewer requests under way than threads and connections: nobody depends on pool_timeout |
| `RequestPoolHealth` | 3 requests, 2 threads, 1 connection | **violated**: a health check reports a database that is up as down |
| `RequestPoolRollback` | 3 requests, 2 threads, 1 connection | **violated**: 500 for a change that is committed |
| `DeploymentAccounts` | 2 replicas, 2 requests, 2 names, 1 failure, 1 edit by an administrator, fair | names given once, the superuser's first; stale objects undo nothing; containers restart for a cause only; `AccountRegistry` is implemented; everything comes to serve |
| `RequestEdge` | 4 requests of one client, limit 2, window of 2 ticks, clock 0..2, 1 lost reply | logs and answers tell the same of the same request; what a window admits and refuses |
| `RequestEdgeHeaders` | 2 requests, limit 2, window of 2 ticks, clock 0..1, 1 lost reply | **violated**: an answer without X-Request-Id and security headers |
| `ListingPages` | 4 rows, 3 keys, walks from offset 0 or 1, pages of 1 or 2 rows, both orders, 2 changes | what a reader of a changing list misses and sees twice, and why; the numbers of a page |

`CHECK_DEADLOCK FALSE` appears in every configuration because requests are made
once: when all are answered the system stops.

**Bounds.** Three requests suffice for the token races: a login to obtain the
pair, and two that use it; with two users, two logins and a logout that mixes
their tokens. A pair is signed by at most one request, so three pairs never run
out. The clock needs to pass one access-token and one refresh-token lifetime.
A row, two columns and a third request let a stale object meet both an update
and a delete. Two threads, one connection and three requests are the smallest
pool in which threads and connections wait for each other: both threads hold
requests that want the connection, and the request that holds it is queued.
With one request fewer under way they cannot (`LightLoad`), and `LightLoadAnswered`
fails with `<=` in the place of `<`. In this instance a light load competes for
the connection only; for threads and larger pools there is the theorem
`FewRequestsNeverStop`, by which a light load never stands still.

No run lists a module's `TypeOK` by itself: it is a conjunct of `IInv` where the
run checks that, the others are proved.

Two replicas and two signups are the smallest races for a table, for the
superuser and for a name, and one failure and one edit can fall between any two
statements of them (`MaxFaults`, `MaxEdits`). Two names, one of them the
superuser's, let a request ask for the reserved one. Four requests with a limit
of two and a window of two ticks fill a window, are refused, and meet the next
window (`MaxClock`); `MaxLost` is one, as one reply suffices to count a request
twice. One key is enough for TLC, since counters are independent, and the
theorems are for any. Four rows with pages of two give two full pages, and two
changes (`MaxWrites`) let one row leave before the offset and another enter; a
page size of one gives four pages. An offset of one (`MaxSkip`) is not a
multiple of two, begins after a first row, and leaves three rows to walk over.
In the code a page has up to 100 rows (`MaxLimit`).

**Fairness.** In `ItemRecords` a session that can take its next step does
(`WF`): PostgreSQL grants a free row lock, and the code never waits for anything
else. Whether a *particular* waiter gets the lock is not at stake, since each
request locks once. In `RequestPool` idle threads take work and running threads
run (`WF`); a connection that becomes free again and again reaches a given
waiter in the end (`SF`), since QueuePool wakes its waiters in turn; and
`pool_timeout=30` ends a wait (`Timeouts`, `WF` of `PoolTimeout`). `PatientSpec`
leaves the last out, so that a timeout may happen but need not:
`EveryRequestAnswered` has `Timeouts` as its condition, `LightLoadAnswered` does
without. Nothing fair is assumed of failures or clients. The Redis client has no
socket timeout, so a Redis that hangs hangs its requests; `AuthSessions`
therefore claims no liveness. `Deployment` assumes less than fairness of every
process: as long as some replica or session can go on, some one does (`WF` of
`Progress`), which the operating system, PostgreSQL's locks and `restart:
always` (docker-compose.yml:83) give; crashes, failures, edits and requests are
not fair.

## What the checks found

- **A refresh token can be exchanged twice** (`SingleUse`). EXISTS at
  service.py:75 and DEL at service.py:85 are two commands, and the number of
  keys DEL removed is not looked at. docs/ARCHITECTURE.md:332 says a refresh
  token is used once. What does hold, and is proved, is that both new pairs
  were granted while the old one was live and exist only after its DEL, and
  that a refresh which has not passed EXISTS by then fails (`LateRefreshFails`).
- **A session can survive its logout** (`NoExchangeAfterLogout`): the refresh
  passed EXISTS before the DEL of logout. README.md:400 says that logout takes
  effect at once, endpoints/auth.py:97 that the token can no longer be used.
  `LateRefreshFails` limits this too: only a refresh already past EXISTS can
  escape the DEL, none that comes later.
- **`/health` can be wrong about the database** (`HealthTellsTheTruth`): its
  `except Exception` (health.py:15) includes the TimeoutError of a busy pool.
- **A 500 does not mean that nothing happened** (`FailureRollsBack`): the
  refresh of `commit_and_refresh` (transaction.py:21) may fail after the
  commit. docs/ARCHITECTURE.md:149 says that any failure rolls everything back.
- **A 500 has no headers** (`EveryAnswerCarriesHeaders`). README.md:121-122 says
  that responses carry X-Request-Id and the security headers. The answer to an
  unhandled exception (error_handler.py:15) is made outside of the middleware
  and carries neither. `OnlyCrashesAreBare`, which is proved, gives the extent:
  whatever lacks them is a 500 logged as unhandled, under the id the client was
  not told.

Other statements were found wanting without a run of their own, where the
properties say what does hold:

- README.md:452 calls bootstrap_db idempotent. Replicas that race may fail with
  an IntegrityError and succeed when restarted; with a soft-deleted superuser
  they restart for ever, the exception `EveryoneIsServed` makes. With
  `FirstPassword = "weak"` that property fails outright: `changethis`,
  docker-compose.yml:53's default, has no capital letter and no digit.
- README.md:621 promises 409 for a name that is taken. Of two signups that race,
  or after a soft deletion, it is a 500 (`duplicate500`); `SomeoneHasTheName`
  says that such a refusal is at least true.
- docs/ARCHITECTURE.md:272-274 has a `Page` say its number, whether there is a
  next page and whether there is a previous one. With skip=1, limit=2 and three
  rows it is page 1 of 2, has no next one and has a previous one. The formulas of
  common.py:34-50 agree in one direction for any skip, in both where skip is a
  multiple of limit; `PageNumbersAgree` states both.
- README.md:592 says that disabling an account revokes its refresh tokens at
  once. A refresh that has read `is_active` before still gets its pair; the pair
  is refused when it is used, since every use reads the row again.

Rows that share a sort key are in no order (base.py:33), and nothing is promised
of them; `created_at` is rarely equal, `title` may well be.

## What is proved

For any number of users, requests, pairs, items, columns, values, threads,
connections, replicas, names, rows and changes, any lifetimes, clock resolution,
limits, windows and page sizes, and any set of failing operations:

| Module | Theorem | Statement |
|---|---|---|
| `AuthSessionsProofs` | `IInvHolds` | `Spec => []IInv`, the inductive invariant |
| | `TypeCorrect`, `EndsHaveCause`, `RevocationFinal`, `RefusalsHaveCause`, `ReplacedIsGone`, `RejectedIsFinal`, `OwnerEndsSession` | types and the safety properties of `AuthSessionsSafety` |
| | `LateRefreshFails` | a request that has not passed EXISTS when a key is deleted never exchanges that token |
| | `Implements` | `Spec => ImplementsLedger` |
| `SessionLedgerProofs` | `LedgerTyped`, `NoPairBesideItsSource` | the ledger is well typed; a pair is never live beside the one it replaced |
| `ItemRecordsProofs` | `IInvHolds` | `Spec => []IInv`, the inductive invariant |
| | `TypeCorrect`, `UpdatesAreReal`, `DeletedIsGone`, `DeletionIsFinal`, `NoColumnIsLost`, `LocksHeldToCommit`, `WaitsStayShort` | types and the properties of `ItemRecordsSafety` |
| | `PermissionHolds` | `Spec => OnlyPermittedChange` |
| | `EveryStepIsNearer` | each step takes its session nearer to its answer and no other away |
| | `Implements` | `Spec => ImplementsStore` |
| `RequestPoolProofs` | `PoolInvHolds` | `Spec => []PoolInv`, types, `NothingLeaks` and `OnePlaceAtATime` together |
| | `TypeCorrect`, `PoolsLeakNothing`, `WorkIsAtOnePlace`, `OnlyGridlock` | types and the safety properties of `RequestPoolBusy` |
| | `FewRequestsNeverStop` | while fewer requests are under way than threads and connections the worker never stands still |
| | `TimeoutsEndGridlock`, `EveryStepIsNearer` | where it does, some wait can time out; each step takes its request nearer to its answer |
| `DeploymentProofs` | `IInvHolds` | `Spec => []IInv`, the inductive invariant |
| | `TypeCorrect`, `NamesAreUnique`, `SuperuserIsReserved`, `RefusalsHaveWinners`, `BootsAreCaused`, `RestartsAreCaused`, `AdminColumnsStay`, `PasswordsChangeAsAsked` | types and the safety properties of `DeploymentAccounts` |
| | `AloneComesUp` | a sole replica with a strong password, no failures and no edits never exits |
| | `NobodyBlocksForGood` | `Spec => []OnlyServedStandStill`: no deadlock over schema, index and rows |
| | `Implements` | `Spec => ImplementsRegistry` |
| `RequestEdgeProofs` | `IInvHolds`, `TypeCorrect` | `Spec => []IInv`, the inductive invariant, and its types |
| | `BoundHolds`, `RefusalsHaveCauses`, `LogsAreTrue`, `HeadersAreThere` | the properties of `RequestEdge` |
| | `LongRunBoundHolds` | n windows' time admits fewer than n + 1 times the limit |
| `ListingPagesProofs` | `IInvHolds` | `Spec => []IInv`, the inductive invariant |
| | `TypeCorrect`, `NothingIsMissed`, `NothingIsRepeated`, `PagesFit`, `NumbersFit` | types and the properties of `ListingPages` |
| | `QuietWalksAreExact` | a walk over a list that did not change shows exactly its untied rows from the first offset on, each once |

They assume what the modules' ASSUMEs say of the constants: special values lie
outside the sets they complete (`IdentityAssumption`, `RecordsAssumption`,
`AccountsAssumption`, `EdgeAssumption`), lifetimes are natural numbers and a
second has at least one tick (`ClockAssumption`), a worker has a thread, a
connection and finitely many requests (`PoolAssumption`), passwords are strong
or weak (`DeploymentAssumption`), limits and windows are positive
(`LimiterAssumption`), a table has finitely many rows and a page room for one
(`PagesAssumption`).

**Token sessions.** None of the safety properties is inductive: that a key is
absent says nothing of a request which is about to set it. `IInv` adds what the
argument needs. (1) *Steps follow endpoints*, so a DEL or a SET belongs to a
known request. (2) *Pairs have one signer*: a pair between signing and answer
is known to one request only, and not yet delivered, so no other request can
name it. (3) *Killed stays absent*: only delivered pairs are deleted, and only
undelivered ones are stored, hence a deleted key is never set again. (4) Each
promise (an exchanged or logged-out token, a replaced pair, a rejection) points
to a killed pair. (5) *The TTL covers the token*: the expiry in the JWT is
rounded down and fixed before the SET, the Redis expiry counts from the SET.
The refinement proof maps each step to one step of the ledger: EXISTS is
`Grant`, SET is `Open` or `Exchange`, DEL and the clock are `Kill`.

`SessionsEndForCause` needs, beyond `IInv`, only itself: the request that
deletes a key explains it from then on (`Explains`), and no step of its own or of
another request takes that away (`ExplanationStep`). The proof of
`LateRefreshFails` shows `TooLate` inductive from the moment it first holds: the
key is absent for good, so EXISTS refuses.

**Items.** `IInv` says what a session may rely on although its loaded object
may be stale. (1) *Ids are fresh*: an id belongs to one create, whose row
appears with its commit; so a create never meets a row. (2) *Loaded rows stay*:
once loaded, a row is never absent again and never changes its owner, so the
check made before the UPDATE is still right when the UPDATE is made. (3)
*Writes are asked*: what a transaction has written is `ChangedColumns`, and the
columns it skipped were in the row when it was loaded. (4) *Tombs are deleted*:
an answered deletion is in the table, and a request that began after it has not
got past its load. Row locks do not appear in it: what the table contains does
not depend on them, because an UPDATE names only the columns asked for and
applies to the latest committed row. `OnlyPermittedChange` follows from (2): the
owner cannot change between the check and the commit. In the refinement a
commit is `Apply`, the end of a request `Acknowledge` or `Fail`; loading and
flushing stutter.

Who waits is another matter: a lock is taken by the one UPDATE of a session and
given back by its commit or its end (`LockHoldersCommit`), so whoever waits,
waits for a session that waits for nothing. With `EveryStepIsNearer`, that a
request makes at most five steps and every step is one of them, this is all of
`EveryRequestAnswered` but the fairness.

**Request pool.** The three properties are inductive together: the cardinality
bounds need to know that a request which takes a thread or a connection held
none, the places need that the queue repeats nobody, and that in turn that
whoever joins the queue was not in it.

That the pools cannot deadlock otherwise than by exhausting each other is a
counting argument. In a standstill every running request waits for a
connection, so whoever holds one is in the queue. Were the queue empty, no
connection would be held and a running request could have one; so there is a
queue, and all threads are taken. Their requests want a connection, hence all
connections are taken as well. Requests that have a thread and requests that
have a connection are disjoint, which takes as many requests as there are
threads and connections (`FewRequestsNeverStop`). `Distance` counts the stages a
request has before it and what it still waits for in its stage: a natural number
below 24 that every step of the worker lowers for one request and raises for
none.

**Accounts.** That a name is in the table once is not inductive: it needs to
know that an INSERT which has been accepted and not yet committed is alone with
its name (*inserts are alone*), which in turn needs that a row can be traced to
the session that made it (*rows have makers*). *Superuser first* carries the
order of entrypoint.sh: while anything serves or a request has begun, the
superuser's name is in the index, so no signup can have it.
`SessionsKeepAdminColumns` and `OnlyAskedPasswordsChange` follow because only
`Commit`, its lost reply and `Administer` change the table, and each changes a
named column of one row. In the refinement a commit is `Register` or `Found`,
the end of a request `Tell`, a replica's phases `Open` and `Close`.

`RestartsHaveCause` carries a second invariant, `BootsHaveCause`, beside `IInv`:
what the session of bootstrap_db was answered, and that its own row is not there
before its INSERT unless deleted, so that a refused name is another's. The sole
replica of `AloneComesUp` has none of the causes left. `OnlyServedStandStill`
follows the waits: CREATE TABLE waits for a replica that can commit, an INSERT
or an UPDATE for a session that can.

**Limiter.** `SlidingBound` counts hits, and the proof numbers them: within one
counter's life the hits have the slots 1, 2, ... without gap or repetition, and
those admitted have slots up to the limit. A stretch of a window's length meets
at most two lives, since their ends are a window apart. A life begins a whole
window before its end, so if the stretch meets two, the first hit of the earlier
one lies before it: the admitted hits of the stretch inject into
1 .. 2 * Limit - 1. `RefusedForCause` finds the hits that took the slots before.
A stretch of n windows meets at most n + 1 lives, so the same numbering gives
`LongRunBound`: a client has at most 304 tries at `5/minute` in an hour.

**Lists.** A row's *rank* is the number of listed rows before it. An untied row
is among the first n rows, whatever order the sort leaves open, exactly if its
rank is less than n (`PrefixRank`); a change moves the rank of a steady row only
through a row before it (`RanksMove`). `WalkKeepsUp` puts these together: a
steady row that was not passed, that is shown or before the first offset, has a
rank at or beyond the offset unless a row before it left, one that was passed a
rank below it unless a row before it entered. `CountIsFresh` says the same
between count and page. The numbers of a page are arithmetic of division for any
total, limit and skip (`Division`, `Aligned`, `PagesCounted`). In a quiet walk
every untied row is steady, so nothing can have disturbed it.

Only model-checked: `EveryRequestAnswered` of `ItemRecords` and of
`RequestPool`, `LightLoadAnswered` and `EveryoneIsServed` of `Deployment`
(liveness under fairness is out of the prover's reach, as is ENABLED), and the
five counterexamples. What a proof can say of the first two is proved: nobody
waits in a circle, and each step brings an answer nearer. The guards in those
theorems, `CanProceed`, `CanStart`, `CanCheckout`, `CanWork`, `CanTimeOut`,
`CanBoot` and `CanStep`, are written out by hand and stand for ENABLED of the
actions they are named after; TLC found them equal on the instances of the runs.
`EveryoneIsServed` has no such measure: a container that lost a race starts
again, and why that ends is only model-checked. Induction over data through
operators with parameters or RECURSIVE definitions could not be proved either;
no module needs it.

## Not modelled

- **Redis restarting from a snapshot** (docker-compose.yml:21) would bring
  revoked keys and old counters back. The code has no defence and promises none,
  so a run could only show that `RevocationIsFinal` needs Redis to keep its keys:
  an assumption of `AuthSessions`.
- **The lazy singletons** `get_engine` (database.py:31) and `_get_pool`
  (redis.py:9): threads that race make an extra pool, which works and goes with
  its last session. `RequestPool` starts when the engine is there.
- **A worker killed at the edge**: `AuthSessions`, `ItemRecords` and `Deployment`
  have it where it leaves something behind. `RequestEdge` keeps nothing beyond
  the process but the counters.
- **Configuration** (core/config.py) is read once, before anything runs; its
  values are constants of the modules. A process whose settings are refused does
  not start.
- **The ownership of items** in lists is a facet; that `/items/my` passes the
  owner is `Filters`. LIKE patterns, hashing, SQL and JSON texts, log texts and
  OpenAPI documents (api/docs.py) are data the properties do not tell apart.
- **Unused code**: `get_multi`, `count` and `get_active_users` of the
  repositories have no caller but tests; `reset_engine` serves the tests, and
  `downgrade` is run by hand.
