# The secure API gateway in TLA+

A TLA+ model of the parts of this repository whose correctness depends on
interleaving, failure and time, the TLC runs that check it on small instances,
and TLAPS proofs of its main properties for every instance. Paths are relative
to the repository root; "the code" is `app/`.

## 1. The system

The service is a FastAPI application run by uvicorn with several worker
processes. Workers share nothing but PostgreSQL, Redis and the wall clock; inside
one worker, coroutines give way to each other at every `await`. A request passes
the middleware stack of `app/main.py` and then a handler. Each handler runs in one
database transaction.

| part | code | state it keeps | operations | talks to |
| --- | --- | --- | --- | --- |
| sessions | `services/auth_service.py` (login, refresh, logout), `api/v1/auth.py` | `refresh_tokens`, `audit_logs` rows | mint, rotate, revoke one, revoke all, audit | database session, blacklist |
| registration and verification | `services/auth_service.py` (register, request_verification, verify_email) | `users` rows, `is_verified` | insert if free, set flag | database session, JWT |
| database session | `database/session.py` | transaction, row locks, the ORM session's unflushed changes | flush, commit, rollback, close | PostgreSQL |
| connection pool | `database/session.py` (get_engine) | 10 + 20 connections | check out, return | PostgreSQL |
| token blacklist | `security/token_blacklist.py` | `blacklist:token:<jti>` keys with a TTL | SETEX, EXISTS, DEL | Redis |
| rate limiter | `security/rate_limiter.py`, `middleware/rate_limit.py` | one counter per client and window, with a TTL | INCR, EXPIRE, verdict | Redis, clock |
| tokens | `security/jwt.py` | none (signed claims) | issue three types, decode | clock |
| request authentication | `core/dependencies.py` | process singletons for Redis, limiter, blacklist | current user, superuser, optional user | JWT, blacklist, database session |
| middleware pipeline | `main.py`, `middleware/*.py` | the `active_connections` gauge, counters | validate, count, log, add headers | each other |
| admin endpoints | `api/v1/admin.py` | none (reads) | list users, list audit rows | database session |
| the rest | `core/config.py`, `core/security.py`, `schemas/`, `utils/`, `migrations/`, `docker*` | configuration, schema | | |

How they meet: `get_session` opens a transaction when the handler's dependencies
are resolved, commits when the handler returns, rolls back on any exception
(an `HTTPException` included), and, with the FastAPI release the repository
pins, finishes before the response is sent. Redis is not part of that
transaction: what was written there stays when the database rolls back. The
limiter runs before all of this and never sees the database.

What is hard here:

* **Requests interleave between a read and the write based on it.** A refresh
  SELECTs its token, revokes it in memory, and UPDATEs by primary key; nothing
  in the UPDATE repeats the test. Logout SELECTs the rows it will revoke, and
  other requests go on inserting new ones. Registration SELECTs twice and
  INSERTs.
* **Failure half way.** A refusal after a flush, an exception after a Redis
  write, a worker that dies between commit and response.
* **Calls to Redis fail quietly.** EXISTS that fails says "not blacklisted",
  SETEX that fails returns a value nobody reads, and the limiter lets requests
  pass. redis-py repeats a command once after a time-out, even one that was
  executed.
* **Time.** Windows roll over while a check is in flight, keys expire or are
  evicted (`allkeys-lru`), tokens expire, blacklist keys live shorter than
  the tokens they name.
* **Row locks.** Two transactions that revoke overlapping sets of rows.
* **Order of layers.** A request is answered by one of eight parties, each of
  which counts, charges and decorates what lies inside it, and nothing else.
* **Held resources.** A handler keeps its connection while it hashes, calls
  Redis and waits for rows; the pool is small, and a crash or a database
  restart takes connections away at any time.
* **One token, read several times.** Limiter, dependency and handler each decode
  it for themselves, at different instants.

What makes each part correct:

* sessions: only a live token can be exchanged; parent and successor are never
  both usable; a logout that was answered holds for ever; what a client was told
  is stored; the audit trail explains the token table; no lock cycle; every
  request ends.
* rate limiter: per window and client no more than the limit passes, at most
  twice the limit in any window length; no client pays for another one or for
  another window; Retry-After leads to the next window; counters go away.
* registration: one account per email and per name; the loser is told so.
* tokens and authentication: no token opens a door of another type, with one
  secret or two; who is served is who was charged; a refresh token outlives its access
  token; a lockout ends.
* pipeline: whatever layer answers and whoever dies, gauge and counters agree; what is
  charged follows from the layers passed.
* pool: its books balance; nobody starts on a dead connection; waiting for a
  connection and waiting for a row never close a circle; every request ends.

## 2. The modules

| module | what it is |
| --- | --- |
| `AuthSessions` | login, refresh and logout, one action per database or Redis call |
| `TokenLedger` | abstract specification of the token table, implemented by `AuthSessions` and by `TokenPolicy` |
| `AuthSessionsInvariant` | inductive invariant of `AuthSessions` |
| `AuthSessionsProofs`, `AuthSessionsLocks`, `AuthSessionsProgress` | its theorems: safety, lock order, progress |
| `MCAuthSessions` | constants for TLC |
| `RateLimiter` | middleware and limiter, one action per Redis call, clock tick and eviction |
| `WindowCounter`, `WindowCounterProofs` | abstract specification of the counters, implemented by `RateLimiter`; what follows from it alone |
| `RateLimiterInvariant` | its inductive invariant, and the accounting invariant behind `RefusalsEarned` |
| `RateLimiterProofs` | its theorems |
| `MCRateLimiter` | constants for TLC |
| `Registration` | register, request-verification and verify-email, one action per statement and per index entry |
| `AccountBook` | abstract specification of the users table, implemented by `Registration` |
| `RegistrationInvariant` | its inductive invariant |
| `RegistrationProofs` | its theorems |
| `MCRegistration` | symmetry for TLC |
| `TokenPolicy` | three types of JWT and the blacklist keys on one clock, and the readers of a token |
| `TokenPolicyInvariant`, `TokenPolicyProofs`, `MCTokenPolicy` | its inductive invariant, theorems, constants for TLC |
| `RequestPipeline` | the middleware stack, the gauge and the counters |
| `ConnectionPool` | the pool of one worker process, counted |
| `Gateway` | composes both with one contended row: the whole path of a request |
| `GatewayInvariant`, `GatewayProofs`, `MCGateway` | its inductive invariant, theorems, constants for TLC |

Operators whose name extends that of the definition that follows them
(`UsableRevoked` before `Usable`, `CreatesSecond` before `Creates`) are that
definition with a plausible bug. No action uses them. Substituting one for its
original must make TLC report the property it is meant for; `PROJECT.json` lists
the pairs.

### 2.1 AuthSessions

A request `r` is a client's call of `/login`, `/refresh` or `/logout`, used once.
Since a token's jti is a fresh uuid4, the token a request mints is named by the
request: `Token == Seed \cup Req`, with `Seed` the tokens that exist at the start.

| variable | code |
| --- | --- |
| `status` | the committed `refresh_tokens` row: absent, live (`is_revoked` false), revoked |
| `userActive` | `users.is_active` |
| `locks` | rows updated by the open transaction of each request |
| `audit` | committed `audit_logs` rows |
| `blacklist` | jtis with a key in Redis |
| `expired` | tokens past their exp (JWT claim and `expires_at` together) |
| `pc`, `kind`, `user`, `arg` | position in the handler, endpoint, account, refresh token of the body |
| `todo` | rows the loop of `_revoke_all_user_tokens` has not visited |
| `dirty`, `entry` | modified and added objects in the ORM session |
| `answer` | outcome, known to the client once `pc` is `done` |
| `live0` | history: the account's live tokens when the request arrived |

Actions and code:

* `Login` - the SELECT of the account, the password and activity checks and the
  additions to the session (`auth_service.py:188-300`). An unknown user and a
  wrong password have one outcome, as in the code.
* `Refresh`, `RefreshLookup`, `RefreshGetUser` - decode and blacklist
  (314-340), the SELECT of the stored row and `revoke()` (342-359), the SELECT
  of the user (361) and the new pair (371-405). The second SELECT autoflushes
  the revocation, so the parent's row is locked from there on; the model takes
  the lock in `FlushRow` before `RefreshGetUser`.
* `Logout`, `LogoutLookup` - `get_current_user` on the same session, then
  `logout` (407-453).
* `RevokeAllSelect`, `RevokeOne`, `RevokeAllDone` - the SELECT, the loop with its
  SETEX that may fail, and what the caller does next: a logout continues, the
  reuse branch of refresh raises 401.
* `FlushRow` - one UPDATE: waits for other transactions' locks on the row, in
  primary key order, as SQLAlchemy's unit of work emits them. Under READ
  COMMITTED an UPDATE by primary key is repeated on the newest version of the
  row, so there is no serialisation error to model.
* `Commit`, `Respond`, `Rollback`, `Abort` - `get_session`. `Abort` is any
  exception or crash, at any point before the end; a crash after the commit
  leaves the commit standing.
* `Deactivate`, `Expire`, `Forget` - the environment: an administrator's SQL,
  a token's exp, a blacklist key that expires after the default 3600 s or is evicted.

Data left out: password, claims, hashes, device and address columns, wording.
The conjunct `t \in Handed` in `Refresh` says that a client can present only a token it
was sent. Access tokens appear as `HasAccess`: whoever was sent a pair for an
account has one; they are never blacklisted by this code.

### 2.2 RateLimiter

A counter is named by client and start of the window, as the Redis key is. Time is
`clock`, in seconds; `Tick` also removes keys at their deadline.

| variable | code |
| --- | --- |
| `count`, `deadline` | value and expiry of the Redis key (0 when absent; `Never` without TTL) |
| `pc`, `client`, `now`, `num` | position, client, `now` and `current_count` of `check_rate_limit` / `_check_window` |
| `retried` | requests whose INCR was repeated by redis-py (`retry_on_timeout`, `main.py:59`) |
| `evicted`, `era` | history: evictions of a key, and the number of them when a request was counted |

Actions: `Bypass` (exempt path, OPTIONS, limiter absent or off), `Arrive` (read
the clock, name the key), `Incr` (INCR and its reply; on 1 EXPIRE is next,
otherwise the verdict), `IncrTimeout` (no reply: executed or not, sent again),
`IncrFails` and `ExpireFails` (the `except` branch, executed or not: the request
passes as `unchecked`), `Expire`, `Evict`, `Tick`. The verdict, `allowed` or
`refused`, is where the middleware calls the application or answers 429.

`Delay` bounds the time between reading the clock and the last command's
execution; `Tick` enforces it. It stands for the socket time-outs: 5 s to
connect and 5 s to answer, each attempted twice, for two commands: 40 s, against a
window of 60 s. The theorems assume `Delay <= W` (`Prompt`). This is an assumption on the
deployment: a worker suspended for longer than a window while a check is
in flight is outside it, and then `Ttl` of two windows would not be enough.

### 2.3 Registration

An account, whose id is a fresh uuid4, is named by the request that registers it. The
transaction around a handler is that of 2.1.

| variable | code |
| --- | --- |
| `stored`, `verified`, `inactive` | committed `users` rows; `is_verified`; `is_active` false |
| `entries` | the unique indexes, on email and on username, that hold an entry for the request's new row, committed or not |
| `audit` | committed `audit_logs` rows |
| `pc`, `kind`, `row`, `about` | position, endpoint, email and name of the body, account of the bearer or of the verification token |
| `changes`, `entry` | `is_verified` set in the ORM session; the audit row added to it |
| `answer` | `conflict` is the 409 of a SELECT, `integrity` the 500 of an index, `failed` any other failure |

* `Register`, `SelectByEmail`, `SelectByName` - `auth_service.py:120-153`. A
  SELECT sees committed rows only.
* `Insert` - the flush at line 165. PostgreSQL enters the new row in
  `ix_users_email`, then in `ix_users_username` (the migration's order). At an entry of a
  transaction under way it waits; at a committed one it fails, and the
  `IntegrityError` leaves the handler.
* `RequestVerification` - `get_current_user` (an inactive bearer is refused) and
  lines 466-508. Outside production the answer carries the token. In production no code
  delivers it; the model covers the case in which someone has the token.
* `VerifyEmail`, `RefuseToken`, `Update` - lines 522-557. A token may be
  presented any number of times and by anyone who has it, so `Subjects` never shrinks; one that expired or
  is of another type is `RefuseToken`. `Update` waits for the row lock of another
  verification.
* `Commit`, `Respond`, `Rollback`, `Abort` - `get_session`, as in 2.1.
* `Deactivate` - an administrator's SQL.

Passwords, display names and the schema's validation of the body are left out: what is
modelled is a body that passed.

### 2.4 TokenPolicy

`AuthSessions` lets a token expire and a key vanish at any time. Here there is one
clock, and the question is what follows from the lifetimes. A slot is one issue: a pair
of an access and a refresh token, or a verification token.

| variable | code |
| --- | --- |
| `zone`, `split` | the deployment: UTC offset of the servers; whether `REFRESH_TOKEN_SECRET` is set (`config.py:110-118`) |
| `born`, `holder` | `iat` and `sub` of a slot |
| `revoked`, `active` | `is_revoked` of the pair's row, `users.is_active` |
| `listed` | deadline of the blacklist key of the pair's refresh token |
| `pc`, `door`, `token` | position, endpoint and token of a request |
| `literal`, `charged` | the header begins with exactly `Bearer `; the account the limiter counts the request for |
| `left` | history: accounts whose owner has called for a logout of all |

* `Bear` is the limiter's reading (`_extract_user_id`), `Authenticate` that of
  `get_current_user`, `SelectUser` its SELECT with the 403 of
  `get_current_superuser`. The clock may tick, and an administrator may act, between them.
* `PresentRefresh`, `Lookup`, `Rotate`, `RefuseInactive` and the reuse branch
  `Reuse` are `refresh_token`; `PresentMail` is `verify_email`. `Blacklist` writes any
  subset of the keys: a SETEX may fail, and its TTL is 3600 s since no caller passes
  `expires_at`.
* `RowExpiry` is `expires_at`: a UTC time without its zone, which the driver takes
  for local time, so it is off by the offset (`auth_service.py:266`, `:385`).
* Login, both logouts and `request_verification` are one step each; how their
  statements interleave is 2.1 and 2.3. A logout of all whose commit fails
  has written its keys all the same.

`ZonesNarrow` says that refresh tokens outlive access tokens by more than the UTC
offset: 7 days, 15 minutes and at most 14 hours.

### 2.5 RequestPipeline, ConnectionPool, Gateway

`RequestPipeline` takes the order of the `add_middleware` calls (`Added`) and derives who
answers a request and what lies outside of whom. A layer that neither answers nor
counts is passed without a step.

| variable | code |
| --- | --- |
| `stage` | at the limiter, in the application, on its way out with an answer or an exception, done, lost with its process |
| `kind` | what is special about it: preflight from an allowed origin, foreign Host, too large or suspicious, `/metrics`, another exempt path |
| `worker`, `up` | process that serves it; processes alive |
| `inside`, `through` | layers that wait in `call_next`; layers the answer passed |
| `gauge`, `counted`, `blocked` | `active_connections` per process, `http_requests_total` by status, `rate_limit_blocked_total` |
| `charged` | requests the limiter has been asked about |

`Leave` is the way out in one step: `finally` takes the gauge down, an answer is
counted, an exception is not and becomes a 500 outside of all layers. `Die` leaves the
dead process's numbers in its files, as `prometheus_multiproc_dir` does.

`ConnectionPool` is SQLAlchemy's queue pool as `get_engine` configures it. Connections are
counted: `opened` ever minus closed, `idle` and `stale` in the queue; `conn[r]` is what the
request has. `Take` pings (`pool_pre_ping`) and replaces what does not answer;
`Queue` waits; `GiveUp` and `LateRoom` are what the wait's time-out finds; a connect
that fails frees its place without waking anyone.

`Gateway` adds the handler: `Ask` at the first statement, `UpdateRow` and `GrantRow` for one
contended row, `Commit`, `Refuse`, `Fail` for the three ends of `get_session`, which
gives the connection back and frees the row before the answer is on its way;
`Kill` of a process and `RestartDatabase`. One row is enough: a handler that
waits for several waits for one at a time, and cycles among rows are
`NoLockCycle` and `NoWaitCycle` of the other modules.

## 3. What the runs show

All runs have `CHECK_DEADLOCK FALSE`: request names are used once and the limiter's
clock stops at `Horizon`, so every behaviour comes to a legitimate end.
That no request is stuck before its end is `EveryRequestAnswered` and `EveryCallEnds`; that
none goes round in circles on the way, under no fairness at all, is `StepsRunOut`.

| run | properties | instance |
| --- | --- | --- |
| `sessions` | `TypeOK`, `RefreshNeedsLiveToken`, `AnswersAreDurable`, `RotationKillsParent`, `LogoutTakesHold` | 1 account, 1 seed token, 3 requests |
| `accounts` | `IInv`, `AuditExplainsTokens`, `NoLockCycle`, `LedgerSpec`, `StepsRunOut`, `EveryRequestAnswered` (under `FairSpec`) | 2 accounts, 3 seed tokens, 2 requests, one token that ages |
| `limits` | `IInv`, `WindowQuota`, `IntervalQuota`, `RefusalsEarned`, `OnlyFailuresLeakKeys`, `RetryAfterHonest`, `CounterSpec` | 1 address, 1 user, 3 requests, limits 1 and 2, W = 2, Delay = 1, one eviction, clock 0..4 |
| `registration` | `IInv`, `RefusalsHaveCause`, `AnswersMatchRows`, `VerifiedHasTrail`, `NoWaitCycle`, `BookSpec` | 4 requests, 2 emails, 2 names |
| `tokens` | `IInv`, `OneDoorPerToken`, `ServedAreCharged`, `LockoutEnds`, `RefreshOutlivesAccess`, `LedgerSpec` | 2 accounts, 2 pairs, 1 verification token, 1 request, lives 1, 2 and 2, key TTL 1, offsets 0 and 1, clock 0..3 |
| `gateway` | `IInv`, `GaugeExact`, `CountersAgree`, `CallsAreCharged`, `PoolExact`, `WaitersHaveHope`, `FreshConnections`, `StepsRunOut`, `EveryCallEnds` (under `FairSpec`) | 3 requests, 2 processes of which one may be killed, pools of 1 + 1, one row |
| `single_use` | `SingleUse` - violated | 2 requests, 1 token |
| `logout_ends_sessions` | `LogoutEndsSessions` - violated | 2 requests, 1 token |
| `reuse_revokes_all` | `ReuseRevokesAll` - violated | 2 requests, 2 tokens |
| `stale_keys_go` | `StaleKeysGo` - violated | 2 requests, W = 1 |
| `duplicate_email` | `SameErrorForDuplicates` - violated | 2 requests |
| `errors_pass_the_layers` | `ErrorsPassTheLayers` - violated | 2 calls of the API, 1 process |

Why these bounds are enough to be interesting:

* Three requests on one account is the smallest instance with a chain (a refresh
  of a token another refresh minted) racing a third party (a logout of all, a
  second refresh of the parent). Every action of the handlers, and `Abort` at each
  point, occurs in it. Two accounts are needed for foreign tokens in a logout and
  for the ledger's "within one account"; three tokens, two of one account, for lock
  cycles: `Ranks` puts the newest token's key before the older ones, since
  UUIDs are not ordered by age.
* Limit 1 and 2 with three requests reach both sides of either limit. W = 2 with arrivals in the
  seconds 0, 1, 2 gives two windows with two different offsets, an INCR
  that is executed in the window after its own, and `Horizon` 4 reaches the earliest deadline
  (2W). One eviction may hit the first window's counter. Requests are
  interchangeable, and the run uses that symmetry; its properties, `CounterSpec`
  included, are safety properties and treat them alike.
* Four requests are two registrations that race over a crossed email and name with two
  more to wait behind them, or a registration with a request for a token and two
  verifications. Two emails and two names are the least that give crossed
  index waits. Requests, emails and names are interchangeable, and the run uses it;
  `BookSpec` is a safety property and treats them alike.
* In `tokens` one request is enough: a request reads tables and keys that the other
  handlers write, and no request reads another one. Two pairs give a parent and its
  successor, or two tokens of two accounts. Lives of 1 and 2 with an offset
  of 1 is the edge of `ZonesNarrow`, the case in which a row expires at the instant
  its access token does; a key TTL of 1 ends before the token it names, as 3600 s end before
  7 days. Clock 3 sees every token end. Only `Super` may be switched off, which covers the
  administrator who loses the account between the limiter and the SELECT.
* In `gateway` two connections per process against three requests is the least at which
  one waits for the pool while another holds the row and a third waits for it
  with the other connection; overflow 1 reaches the closing of a connection that finds the
  queue full. One request is always a call of the API, the others are of every kind that a layer
  answers. The process that may be killed takes its pool with it, the other
  goes on.
* `Aging` limits which tokens can expire, `Evictions` how often a key can be
  evicted, `Busy` the seconds in which requests arrive. None of these is
  used to exclude an ordering of steps.

Fairness: `FairSpec` has weak fairness for each request's handler, and for
nothing else: an event loop resumes a coroutine whose await has finished, and
a database grants a lock that is free. Clients need not send anything, the
administrator, the clock and Redis need not do anything. Weak fairness is
enough because a waiting `FlushRow` stays enabled once the holder has
committed or rolled back, unless another waiter takes the lock, and each request
takes it at most once. In `Gateway` the same fairness includes the pool's time-out of 30 s,
which comes as a timer comes. What it assumes of a handler that
runs is that it goes on to its end: a statement without a time-out that PostgreSQL never
answers is outside of it, and the code sets none.

### What the runs found

Seven statements of the repository are not what the code does; a run shows each,
the last two in one counterexample.

* **A refresh token can be used twice.** `docs/security-decisions.md:69` says it
  cannot. Two requests SELECT the row before either commits; the UPDATE names
  the primary key only, so the second waits for the first and then
  succeeds. Both clients get a pair. What does hold is `RotationKillsParent` and
  `RefreshNeedsLiveToken`: every winner had presented a token that was live when it arrived.
* **A logout of all devices can leave a token live.** `docs/security-decisions.md:68`.
  A refresh that read its token before the logout commits its successor after the
  logout's SELECT. How far this and the previous finding go is a theorem, `OnlyOverlapEscapes`:
  only a refresh that was under way before the rotation committed, or before the logout was
  answered, can still exchange the token; one that arrives later mints nothing.
* **Presenting a blacklisted token revokes nothing.** The comment at
  `auth_service.py:333` announces the opposite. The revocations are in the session when
  the 401 is raised, and the 401 rolls them back. (Redis keys written on the
  way stay.)
* **A counter can stay in Redis for ever.** `rate_limiter.py:94-95` says stale
  keys are cleaned up. EXPIRE is sent only by the request that saw the reply 1;
  if that reply is lost, the repeated INCR returns 2.
* **A duplicate registration can be answered 500.** The docstring of `register`
  (`auth_service.py:117`) promises 409, and `docs/security-decisions.md:134` one error for
  every duplicate. A duplicate that is committed after the SELECTs is found by the
  index; nothing translates its `IntegrityError`. That no second account comes of
  it is `BookSpec`.
* **A 500 passes no layer.** An exception leaves through the middleware instead of
  a response, and Starlette's outermost layer makes the answer. It has no
  security headers, where `docs/security-decisions.md:109` says "all HTTP responses", and is
  not in `http_requests_total`, where `middleware/metrics.py:4` says "every HTTP request".

Also met while modelling, without a run of their own:

* Failed logins leave no row in `audit_logs`: the row is added before the 401 and rolled
  back with it, by the mechanism `reuse_revokes_all` shows (`docs/security-decisions.md:135`
  says they are logged for audit; the log record is written).
* Refusals of the outer layers (429, 413, 400) and preflight answers have no security headers either: the
  order of `main.py:127` puts that layer innermost.
* A rotation revokes the parent in the database only, its
  jti never reaches the blacklist; and a key that is written lasts the default 3600 s,
  where `docs/security-decisions.md:67` says that a revoked token's jti is stored with
  a TTL "matching remaining token lifetime". So the reuse branch is reached only
  after a logout that revoked everything, and for an hour. In that hour every reuse renews the
  keys of tokens that are still live in the database, issued since: they are refused as revoked until an
  hour after the last reuse (`LockoutEnds`), and then good again.
* The limiter wants `Bearer ` spelled so (`rate_limit.py:98`), while the dependency takes
  the scheme in any case: `bearer` is served as the user and charged to the
  address. `ServedAreCharged` has the spelling as a condition.
* By default all three types of token are signed with one secret; the type claim
  alone separates them, which `OneDoorPerToken` shows to be enough.
* A killed process leaves its share of `active_connections` in the sum (`GaugeExact` counts
  it on both sides).
* Four workers of 30 connections each may ask for 120, above PostgreSQL's default of
  100; beyond it a connect fails and the request is answered 500.

## 4. What is proved

TLAPS checks these for every value of the constants that satisfies the named
assumptions (any finite number of requests, accounts, tokens; any limits).

| theorem | statement |
| --- | --- |
| `AuthSessionsProofs!Inductive` | `Spec => []IInv` |
| `TypeCorrect`, `RefreshLive`, `DurableAnswers`, `RotationRevokes`, `LogoutRevokes`, `AuditComplete` | the invariants of runs `sessions` and `accounts` |
| `OnlyOverlapEscapes` | a refresh that arrives after its token was rotated, or after a logout that covered it was answered, mints no token |
| `LedgerRefinement` | `Spec => LedgerSpec`: the token table implements `TokenLedger` |
| `AuthSessionsLocks!DeadlockFree` | `Spec => []NoLockCycle` |
| `AuthSessionsProgress!StepsRunOutRight` | `Spec => StepsRunOut`: the steps of a handler run out |
| `AuthSessionsProgress!ServiceGoesOn` | while any request is under way, one of them has a step to take and waits for no lock |
| `RateLimiterProofs!Inductive` | `Spec => []IInv` |
| `QuotaHolds`, `IntervalHolds`, `RetryAfterRight`, `LeaksExplained`, `RefusalsFair` | the other properties of run `limits` |
| `CounterRefinement` | `Spec => CounterSpec`: the Redis keys implement `WindowCounter` |
| `WindowCounterProofs!QuotaOfTickets` | every implementation of `WindowCounter` keeps the quota of a window |
| `RegistrationProofs!Inductive` | `Spec => []IInv` |
| `RefusalsRight`, `AnswersRight`, `TrailComplete`, `DeadlockFree` | the invariants of run `registration` |
| `BookRefinement` | `Spec => BookSpec`: the users table implements `AccountBook` |
| `TokenPolicyProofs!Inductive` | `Spec => []IInv` |
| `DoorsSeparate`, `ChargesRight`, `LockoutsEnd`, `RefreshLasts` | the other properties of run `tokens` |
| `LivesImplementLedger` | `Spec => LedgerSpec`: over the lives of its tokens, too, the table implements `TokenLedger` |
| `GatewayProofs!Inductive` | `Spec => []IInv` |
| `GaugeRight`, `CountersRight`, `ChargesFirst`, `PoolRight`, `NoStarvation`, `StartsFresh` | the safety properties of run `gateway` |
| `GatewayProofs!StepsRunOutRight` | `Spec => StepsRunOut`: the steps of a request run out |

**Sessions.** The safety properties are not inductive: that a refresh answered
200 presented a live token says nothing about a request that is half way. `IInv`
describes each request on its own (`Sound(r)`): where a request of each kind can
stand (`Phase`), that only a writing session holds locks (`Idle`), that a minted
row is there exactly from its commit on (`OwnRow`), that named rows
exist and belong to the account (`Names`), what a rotation has in hand at
each point (`Rotating`), and that a logout carries every token it must revoke through
SELECT, loop, flush and commit (`LoggingOut`). The conjuncts of one request speak only
of its own variables and of rows, and another request can change a row from
absent to live (its own) or from live to revoked. Both keep every conjunct; this
frame argument is a lemma, so each action has to be proved for the acting
request only. The refinement maps `status` to the ledger's state; a commit is an `Open`,
a `Rotate` or a `Close`, and every other step stutters. For `OnlyOverlapEscapes`, `Rotating`
carries one thing more: once a rotation has stored its successor, the parent was live when the
request arrived and is revoked now. So a token that a finished
rotation or an answered logout revoked is in nobody's `live0` who arrives afterwards,
revoked rows stay so, and `live0` of a refresh never changes once it is set.

**Lock order.** A request that is flushing holds rows of smaller rank than those
it still needs (`InOrder`, inductive). In a set of requests waiting for each
other, take the one that waits for the row of greatest rank: the request it waits
for holds that row and waits for one of greater rank, a contradiction. That a finite set has a maximum is
proved from well-foundedness of the subset ordering (`FiniteMaximum`).

**Progress.** A request's place in its handler is a number (`Ahead`), and at the two places where
it may stay for several steps, the loop of `_revoke_all_user_tokens` and the flush, a
set shrinks (`Pending`): tokens to revoke, UPDATEs to send. Nobody else adds to
either, since both are the request's own variables, so a logout has no
more to do however many tokens are minted beside it. `ServiceGoesOn` adds that a handler that
cannot take its step is flushing and waits for a row (`Sending`: it has an UPDATE left to send,
and among those left there is a first one, `NextRowExists`); were all that are under way
waiting, they would be a cycle. `CanGoOn` states what a handler can do in terms
of the state, because ENABLED is outside the prover; TLC was used to compare the
two while the definition was written.

**Limiter.** Why can a counter not fall back to 0 while requests of its window
still come? A deadline is at least two windows after the window's start
(`Lasting`), and a request reaches Redis at most `Delay <= W` after a second of
that window (`Placed`). So the reply a request got stays below the counter
unless the counter was evicted, or is past the time any request can
reach it (`Numbered`), and no two requests get the same number from one era of
the counter (`Distinct`). The allowed requests of a window therefore map one to
one into eras times 1..limit, and a finite set argument counts them
(`WindowCount`). Two adjacent windows cover any W seconds
(`IntervalHolds`). The refinement of `WindowCounter` rests on the same two facts: a
window is over for the abstract counter once two of its lengths have passed (`Over`). A
key's deadline comes no earlier (`Lasting`), so a key that goes at its deadline belongs to a closed window
(`Close`); no request draws from a closed one (`Placed`); and the limiter's verdict is
the decision on the ticket. `QuotaOfTickets` then needs no clock and no keys: the
requests that hold a ticket within the quota number at most a quota for each loss, plus
what the counter has given out since (`Bounded`). `WindowQuota` says the
same of the keys themselves and was proved first, by the map into eras. The arithmetic of `%` and `\div` is isolated in four lemmas.
For refusals, each executed INCR fills a place of the request that
sent it, one for the first attempt and one for the repetition (`Spent`), and a
counter never exceeds the places filled (`Charged`, inductive with `IInv`).

**Registration.** `IInv` says for each request which indexes hold its new row at
each point (`Indexed`), that an account is there from its registration's commit on
(`Opened`), that a refusal has a stored account behind it (`Caused`), and
that a verification names an account whose bearer has asked (`Verifying`). The one fact
about pairs is `NoTwins`: no two rows, committed or not, share an entry; it needs
no more than the look an INSERT takes. What another request does changes none of a request's
conjuncts (`OthersSound`), so each action is proved for the acting
request. Deadlock freedom has a short argument: whoever holds the name's entry
holds the email's too and waits for nobody, so no chain of waits is longer than two
(`WaitsAreShort`).

**Tokens.** The limiter and the dependency read one token at two instants, so the invariant
has to say what the first reading means for the second (`Counted`): a token that did not open when
the limiter looked, under a header it accepts, does not open later, because
the clock only moves on and a token's claims never change; one that did
names the holder, who never changes either. `Placed` carries the type from
the reading to the end of the request, `Key` the owner and the deadline of each key, and
`Issued` ties a token's birth to its holder; with it each step maps to the ledger: a rotation to
`Rotate`, a login to `Open`, both kinds of logout to `Close` (`RowsClosed`). For `RefreshLasts` a refusal is traced
to its cause: another type, a revoked row, an inactive account, the exp, or the
row's expiry, of which the last two lie past the access token's end by `Lives` and `ZonesNarrow`.

**Gateway.** `IInv` adds to the properties where a request can stand with which layers and
which status (`Journey`) and who has been charged (`Charging`). The proof has three parts
that meet only in `worker`: pipeline, pool, and what links them (`Links`). The
stack itself is computed once from `Added` (`Layers`, `Stops`), so the proofs
follow the order of `main.py`; a changed order breaks them there. Gauge,
counters and books are cardinalities of sets that one step changes by one element
(`CountChange`); each action is shown to be such a step. `NoStarvation` needs no
induction of its own: with no connection free and no room, the books say that some request of
the process has one, for `Size` is not 0; and the holder of a row has a connection and
is not waiting for the row, in whatever process it is. Nor does `StepsRunOut`: each action puts the
acting request at a smaller number, and what kill and restart do to others only
lowers theirs.

Assumptions: `Disjoint`, `HeldType`, `RankType`, `AgingType`, `Finite` (sessions);
`Clients`, `Requests`, `Limits`, `WindowPos`, `Prompt`, `Evicting`, `Arriving`
(limiter); `Fresh` (registration); `Names`, `Lives`, `ZonesNarrow` (tokens); `Names`,
`Sizes`, `Bounds`, `Finite` (gateway). All but `Prompt`, `Lives` and `ZonesNarrow` say only what
kind of thing a constant is, and TLC evaluates them in every run.

Only model-checked: `EveryRequestAnswered` and `EveryCallEnds`, because liveness under fairness and
ENABLED are outside the prover. Their safety halves are proved: the steps of a request run out
(`StepsRunOut`), and somebody under way can always take one (`ServiceGoesOn`, `WaitersHaveHope`);
what fairness adds is that it is taken, and induction over the measure. Nothing in these modules computes by recursion.

## 5. What is not modelled

* `get_optional_user`, `remove_from_blacklist` and the `expires_at` of
  `blacklist_token` have no caller.
* Start-up: the two singletons of `set_redis_client` and the lazily created engine are set before the first
  request; a request that finds none is not a state of a running worker. `dispose_engine` at
  shutdown is, for the database, what `Kill` is.
* A preflight from an origin that is not allowed, which CORS answers 400 instead of 200. It
  stops at the same layer, outside of everything that charges or counts.
* Answers of the application are told apart as good, refused (any 4xx) and failed; a
  plain OPTIONS that is no preflight and the documentation pages behave as
  another exempt path does.
* Password hashing, schemas, log records, histograms, the login and registration counters, the rest of the
  migrations and the deployment files have no state that interacts with anything here. Redis
  replication and PostgreSQL failover do not occur in the deployment the repository
  describes (one container each).

What is left to do, in order: an abstract specification of the gateway as a client sees it
(a request is answered at most once, and after its commit), with `Gateway` shown to
implement it; a proof that `Gateway` with one row per account keeps `WaitersHaveHope`, from `NoLockCycle`.
