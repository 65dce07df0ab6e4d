# Verification of frimo-messenger

TLA+ models of the parts of frimo-messenger whose state is shared by
concurrent requests and workers, TLC runs that check them on small instances,
and TLAPS proofs of their invariants for every instance. Source paths are
relative to `src/`.

## 1. The system

The server (`cmd/server`) answers HTTP requests; the worker (`cmd/worker`)
polls a table. Any number of each may run. They share one Postgres database;
the servers also share one Redis.

| component | code | state | operations |
|---|---|---|---|
| Session authentication | `internal/service/auth/service.go` (`Login`, `Refresh`, `Authenticate`), `internal/handler/httpapi/{login,refresh,middleware}.go` | locals of a request | a chain of storage calls per request |
| Session repository | `internal/adapter/repository/postgres/session_repository.go` | tables `auth_sessions`, `refresh_tokens`, their row locks | `CreateSession`, `ExtendSession`, `GetSessionState` |
| Redis stores | `internal/adapter/repository/redis/*.go` | access tokens, refresh results, session cache, all with a time to live | `Store`/`Get`, `SetSession`/`GetSession` |
| Registration and email verification | `service.go` (`Register`, `ConfirmEmail`, `ResendVerification`), `internal/adapter/repository/postgres/auth_repository.go` | tables `users`, `email_verifications`, `outbox_events`, row locks | one transaction per call |
| Outbox | `internal/outbox/processor.go`, `internal/adapter/repository/postgres/outbox_repository.go` | table `outbox_events`, locals of a worker | `ClaimNext`, handler, `MarkProcessed` / `ScheduleRetry` / `MarkFailed` |
| Event dispatcher, mail | `internal/handler/event/dispatcher.go`, `internal/service/email/log_sender.go` | none (the mail leaves the system) | `GetForDelivery`, then send |
| HTTP API | `internal/handler/httpapi/*.go` | none across requests | decode, call the service, map errors to statuses; request ID, logging, recovery, authentication middleware |
| Accounts | `service.go` (`normalizeEmail`, `validate*`, the checks of `Register` and `Login`), `internal/security/password/argon2.go` | table `users` | the decisions before a write |
| Server lifecycle | `cmd/server/main.go` | a process: pool, Redis client, socket, connections, handlers | start, listen, graceful and forced shutdown, deferred closes |
| Worker lifecycle | `cmd/worker/main.go`, `Processor.Run` | a process and the attempt it is at | start, signal, the `select` of `Run`, stop |
| Configuration | `internal/config/config.go` | none | `Load` |
| User service | `internal/service/user`, `user_repository.go` | none | one read |
| Tokens, cipher | `internal/security/{token,secret}` | none | pure computation |
| In-memory repository | `internal/service/auth/memory_repository.go` | one map under one mutex | used by neither binary |
| Chats and messages | `migrations/postgres/000005...000008`, `migrations/scylla` | schema only | no code yet |

**How they interact.** A handler calls the service, which makes its storage
calls one after another. Between two calls anything may happen elsewhere, and
each may fail, be cancelled, or take effect without its answer arriving.
Transactions meet only at `SELECT ... FOR UPDATE`. `Register` and
`ResendVerification` write their outbox event in the transaction that writes
the verification, so the worker sees both or neither. The worker calls the
dispatcher, which reads the verification again before it sends the mail, and
the user brings the token back through `ConfirmEmail`.

**What is hard.** The service reads the time *before* it calls the
repository, so each time stored in a row is older than the lock it was written
under, and two requests may take the lock in the other order than their
times. Database and Redis are written one after another without a common
transaction. The answer of a committed refresh may be lost, and the client
repeats it. A worker may outlive its lease and come back. A process may be told
to stop at any moment: in its start, in a `ClaimNext` whose `UPDATE` has already
been executed, with handlers inside a transaction that never ends.

**What makes each part correct.**

* Sessions: the chain of refresh tokens of a session neither forks nor ends; a
  repeated refresh gets the first answer; only reuse revokes, and for good;
  Redis never opens a session other than the database's.
* Verification: one working link per user; an address is verified once, by one
  token, within its life; cooldown and hourly limit hold whatever the order of
  the requests; nothing is issued after the verification.
* HTTP: one answer per request, the one the log tells, and a status that says
  whether the request took effect.
* Outbox: no event is lost, none is selected again once it is finished; the
  row says what the last attempt came to; only the holder of a lease ends it;
  two workers overlap only after a lease; every event is finished in the end.
* Delivery: a verification that was asked for reaches the user; a mail is
  repeated only after a fault.
* Accounts: one account per address, however it is typed; a session only for
  the right password and a confirmed address; nobody who registered is kept out.
* Processes: a stop in good order loses no request and no attempt, takes a
  bounded time, and the start either comes to serve or ends.

## 2. Modules

| module | role |
|---|---|
| `TokenFamily` | what a session promises its client: an abstract family of tokens |
| `SessionAuth` | login, refresh and authenticate over Postgres and Redis; implements `TokenFamily` |
| `SessionAuthProofs` | its inductive invariant, with and without times, and theorems |
| `TokenFamilyProofs` | the proof that `SessionAuth` implements `TokenFamily` |
| `VerificationLinks` | what the owner of an address may rely on: abstract links |
| `EmailVerification` | register, confirm, resend, and the delivery of the mail; implements `VerificationLinks` |
| `EmailVerificationProofs` | its inductive invariant, theorems and the refinement |
| `OutboxQueue` | what the outbox promises: an abstract queue |
| `Outbox` | workers, leases, statements; implements `OutboxQueue` |
| `OutboxProgress` | `Outbox` with a time that does not stop, and fairness |
| `VerificationDelivery` | `EmailVerification` and `OutboxQueue` composed: from the request to the mail |
| `VerificationDeliveryProofs` | the invariant of the composition and theorems |
| `Worker` | `Outbox` inside processes that start, are told to stop and are killed |
| `OutboxProofs` | the inductive invariants of `Outbox` and `Worker`, theorems and the refinement |
| `Accounts` | who gets an account and who a session |
| `AccountsProofs` | its inductive invariant and theorems |
| `Config` | what `Load` makes of an environment |
| `Server` | the life of a server process around its handlers; extends `Config` |
| `ServerProofs` | what start and shutdown leave, for any number of requests |
| `HttpApi` | one request through middleware, router, handler and service |
| `HttpApiProofs` | its inductive invariant and theorems |
| `MC...` | instances for TLC: the sets, the lengths, the symmetry |

An operator whose comment says *faulty variant* stands beside the operator it
is a wrong form of. No specification uses it: it is there to see that a
property would notice.

### SessionAuth

A *request* is one call of a handler and is used once. `pc[r]` is the storage
call it makes next, `local[r]` the variables of the Go function, `reply[r]`
what its client has received. The refresh token and the access token that one
request generates are stored and returned together, so they are one *pair*,
named by that request; a session is named by the `Login` that creates it. This
makes freshly generated random tokens distinct without a generator.

| action | code |
|---|---|
| `StartLogin`, `CreateSession` | `Login` from its `s.now()` on; the checks of the credentials before it change no state |
| `SelectToken`, `SelectSession` | the two `FOR UPDATE` statements of `ExtendSession`, with what follows each |
| `CommitExtend`, `CommitRevoke` | its two ways of committing |
| `StoreResult`, `StoreAccessToken`, `CacheActive` | the Redis writes after a refresh |
| `GetResult`, `CacheRevoked` | the retry and the reuse path of `Refresh` |
| `GetAccess`, `GetSession`, `GetSessionState`, `SampleNow`, `CacheState` | `Authenticate` |
| `Abort` | an error, a cancelled request, a stopped server, a lost answer |
| `RedisLoss`, `Tick` | Redis without its data; time |

The locks are the variables `tokenLock` and `sessionLock`, and taking one
waits until the row is free. A Redis write whose error the service only
observes may leave the store as it was (`Written`). Clients present tokens
they have received, or one nobody issued.

`TokenFamily` forgets transactions, locks, caches and time: a session has a last
token, which one presented operation uses up for a successor; that operation is
given this successor as often as it asks; another operation on a used token
ends the family. The refinement reads it off the tables: `last` is the unused
row, `usedBy` the `request_id` of a used one, `ended` the sessions with
`revoked_at`; `next`, `presented` and `given` are what the clients see, read
off the requests. So one property says that a used token has one successor and
one operation that is given it, that nothing else is ever given, that only
reuse revokes, and that a revoked session issues nothing more.

### EmailVerification

`users`, `verifications` and `events` are the three tables; `userLock` the row
lock of `users`. `ConfirmEmail` reads the user ID without a lock
(`LookupToken`), locks the user (`LockUser`), then locks, checks and updates
the verification and commits. These last statements are one action
(`Confirm`): the verification row of a user is written only under the lock of
the user, so nothing can happen between them that others could see.
`ResendVerification` is `LockEmail`, `CheckLimits`, `Issue`. `mailed` holds the
verifications whose mail went out, and only those (or a token nobody issued)
can be presented. The queue between `events` and a delivery is the business of
`VerificationDelivery`: here any event may be delivered at any time, any number
of times.

`VerificationLinks` forgets rows, locks, transactions and the outbox. A link has
an owner, a time from which it works and a time at which it ceases to; issuing
one, by a request of some time, ends every earlier link of its user at that
time, and is possible only a cooldown after the last and below the limit; a
link that was received, and that no other has ended, verifies its user once, by
a request made while it works. Requests need not come in the order of their
times. The refinement reads `from` and `until` off `created_at`, `revoked_at`
and `expires_at`. An expired link that no later one has ended may still verify,
if the request was made before it expired: the code revokes by a comparison of
times, and so does the abstract step.

### VerificationDelivery

The server and the workers, joined where the code joins them. `Serve` is a step
of the server; the one that stores a verification adds its event to the queue
(`AddEvent`), as `insertOutboxEvent` does in the same transaction. `Begin` is a
claim together with the start of the dispatcher's handler, `Handle` the
handler, `Record` the end of `processOne`, with the verdict on its error.
`Die` is a worker that stops or whose last statement fails, `Overrun` a lease
that ends while its worker goes on; the worker of a dead attempt is replaced
(`Orphaned`). The queue is `OutboxQueue`, which `Outbox` is proved to
implement; the lease itself is not repeated. `LogSender` is the sender of the
worker: an attempt that fails has sent nothing.

### Outbox

`rows` is `outbox_events` without the payload and `last_error`. A lock ID is a
fresh UUID for every claim and every claim adds one to `attempts`, so a lock ID
is named by the number of its attempt. `StartPoll` samples the time, `Claim` is
the `UPDATE ... RETURNING` of `ClaimNext`. `SKIP LOCKED` is the choice, in
`MayBeSkipped`, to pass over an event that another worker's statement may hold
at that moment. `Begin` starts the timeout, `Handle` is the return of the
handler with any outcome, `Mark` the statement that records it. `GiveUp` is the
stop of a worker or an error at any point. The status of an event in
`OutboxQueue` is read off its row by `StatusOf`.

`OutboxProgress` adds what liveness needs. The clock of `Outbox` stops at
`MaxTime`; there `Pass` moves every stored time back by one instead, which is
the same to code that only compares times with each other. Times that have
fallen to 0 are older than every lease and delay (`MaxTime > LockLease`).

### Worker

`Outbox` lets a worker stop at every point; `Worker` says when it does. `life[w]`
is where `main` is. `Signal` ends the context of `Run`. `Work` is a step of
`processOne`, and `MayPoll` says that none begins after the signal: if the
`select` still prefers the timer, the ended context stops `ClaimNext` before it
sends anything. `ClaimCancelled` is the signal during `ClaimNext`, before or
after the `UPDATE`. The handler and `Mark` run under `workCtx`, which is made
from `context.Background()`, so the signal does not touch them. `Kill` is the
end of the process without notice. `claimant` and `unrecorded` are history:
who made the latest claim of an event, and which attempts have lost their
outcome. `Wait` lets time pass only when nobody is `Due`: a call whose context
has ended returns at once.

### Accounts

An address is what `ToLower` and `TrimSpace` leave of it and a *spelling*:
plain, with spaces, in capitals, or with a display name, which
`mail.ParseAddress` takes and the comparison in `validateEmail` refuses. A
password and a device name count by their length. `Begin` is the checks that
need no storage, `HashPassword` and `CreateUser` the rest of `Register` up to
the unique index on `lower(email)`, `GetUserForLogin` and `VerifyPassword` the
rest of `Login` up to `CreateSession`. `Hash` is a key that no other password or
salt gives. The order of the checks is that of the code; the first that fails
gives the answer.

### Server and Config

`Config` has, for each variable, what it may hold (unset, empty, not base64, a
key of another length, good) and the conditions on which `Load` gives up.
`Server` is `main`, one action per statement that can fail or wait: the startup
steps under their timeouts, the goroutine of `ListenAndServe` with its channel,
the `select`, `Shutdown` that completes or gives up, `server.Close`, which cuts
the connections and so cancels the handlers, and the deferred closes in their
order. `Fatal` makes no deferred call. Handlers are reduced to what a shutdown
may disturb: `Begin` takes a connection of the pool, `EndTransaction` commits
or fails, and may not come at all, `Store` writes to Redis, `Respond` answers.
At any moment the request of a handler may lapse (`Lapse`): its `WriteTimeout`
(`main.go:106`) passes or its client leaves. The handler does not see it, but
for a `Begin` that may be refused, and its answer is lost (`Unreachable`).
`Shutdown` waits for handlers to return, not for clients to be told, hence the
two halves of `GracefulIsComplete`.
`pool.Close` waits until every connection is given back (`PoolReturned`).

### HttpApi

One request, since requests share nothing in `internal/handler/httpapi`. `Chain`
is the order in which `API.Handler` wraps the middleware; a request goes out
through it layer by layer (`Recover`, `LogRequest`), by a return or by a panic.
What the service may return is a set of results per route, each an error and
whether the transaction was committed; the sets summarise `SessionAuth` and
`EmailVerification` and allow any other error before or after the commit.
A handler's answer is the sequence of `WriteHeader` and `Write` calls it makes,
which `Write` carries out on the `responseWriter` of the logging middleware
(`recorder`) and on the connection (`wire`, external). Only the service may
panic: the handlers call nothing that could after they have begun to answer.

## 3. Runs

| run | instance | distinct states | question |
|---|---|---|---|
| `session_tokens` | 1 login, 3 refreshes, 2 operation IDs, time to 1, Redis writes may fail | 0.4 million | do refresh tokens rotate, retry and revoke as `TokenFamily` says? |
| `session_cache` | 1 login, 2 refreshes, 1 authentication, time to 2, Redis may fail and lose its data | 1.8 million | what can the session cache say of a revoked or an active session, and for how long? |
| `session_pairs` | 2 logins, 2 refreshes, 2 operation IDs, Redis writes may fail, fairness | 0.2 million | are two sessions kept apart, and is every request answered? |
| `session_revocation` | 1 login, 3 refreshes, 1 authentication | violated | does a revocation take effect at once? |
| `email_verification` | 1 registration, 2 resends, 2 confirmations, 2 deliveries, limit 2, time to 3 | 0.9 million | does one link work at a time and one of two verify, do cooldown and limit hold, and are these the links of `VerificationLinks`? |
| `outbox_workers` | 1 event, 3 workers, lease 1, timeout 1, 2 attempts, time to 5 | 0.3 million | do leases protect the worker and the verdict, and is this a queue? |
| `outbox_progress` | 1 event, 2 workers, lease 2, 3 attempts, trouble in the first 3 | 0.1 million | is every event finished? |
| `worker_shutdown` | 2 events, 2 workers, lease 2, timeout 1, 1 attempt, time to 4 | 2.7 million | what does a stopped worker leave, and when is it gone? |
| `delivery` | 1 registration, 1 resend, 1 confirmation, 2 workers, 2 attempts, 1 fault, time to 2 | 0.3 million | does every verification reach the user, and how often? |
| `http_api` | 1 request, every route and result | 470 | is it answered once, logged truly, and what may the client conclude? |
| `server` | every environment, 3 requests, 2 connections in the pool, answers that lapse | 0.4 million | what do start and shutdown leave undone, and do they end? |
| `account_checks` | 2 registrations, 1 login, 2 addresses, 4 spellings, lengths at each bound and beyond | 40 thousand | who gets an account, who a session, who is refused? |

**Why the bounds are enough to be interesting.** Three refreshes are an
operation, its repetition and a reuse. A resend beside the registration is
enough for one to overtake the other; a second one fills the limit of 2. Two
deliveries put two tokens of one user into the mail, so that two confirmations
can present different ones, and the second one can find the address verified
(the mutant of `VerifiedByOneToken` leaves that check out). What becomes of a
second registration of the address is asked by `account_checks`. Three workers
give an attempt that was overtaken twice while its worker still runs. Durations
are shrunk to one to three ticks, and where a run is about a duration its clock
runs past it. Two attempts and five ticks let attempts go beyond the limit.
`session_tokens` needs time only to let a retry come after `RefreshRetryTTL`;
`session_pairs` needs none, since it asks about identity and locks.
`outbox_workers` has one event: events meet only in the choice of `ClaimNext`,
which `worker_shutdown` has two of, and the theorems hold for any number. Three
requests over two connections make one wait for the pool while two hang. One
fault is enough for a mail to be sent twice.

The bounds are `MaxTime`, `MaxRedisLosses`, `MaxFaults` (dead workers and
overrun leases in `delivery`), `MaxTrouble` (the attempt from which an event
meets no more trouble), and the sizes of the sets; a request is used once.
Requests of one kind are interchangeable, so are operation IDs, addresses,
events and workers: `Symmetry` permutes them in every run but those with a
liveness property (`session_pairs`, `outbox_progress`, `delivery`, `server`)
and `http_api`.

**Deadlock.** `CHECK_DEADLOCK FALSE` in every run: requests are used up and the
clock stops at its bound, so an instance really comes to an end; in `http_api`
the request is over, in `server` the process has exited. That nobody waits for
ever is said by `EveryRequestAnswered`, `EveryEventFinished`,
`EveryVerificationDelivered`, `SignalEndsProcess`, `ServesOrEnds`.

**Fairness.**

* `FairSpec` of `SessionAuth` asks for weak fairness of `Step(r)`, for each
  request. Each Go handler runs in a goroutine of its own and every storage call
  returns, with an answer or an error, by the deadlines of its context; Postgres
  grants a free row lock to a waiting transaction. Two transactions that wait
  for one row might overtake each other, but each request ends, so weak fairness
  is enough. No fairness is assumed for `Abort`, `RedisLoss`, `Tick` or the
  arrival of requests.
* `ProgressSpec` asks for time to pass, for workers to go on, and strongly for
  `ClaimSome`: `Run` polls on a timer for ever, so a poll may fail or come too
  early any number of times, but not whenever it could succeed. The trouble of
  an event (stops, failed statements, late handlers) ends with its attempt
  `MaxTrouble`. This is an assumption and cannot be dropped: a handler that uses
  up `workTimeout` every time is never recorded, and its event is attempted for
  ever. `MaxTrouble` lies above `MaxAttempts`, so the run includes attempts
  beyond the limit.
* `FairJoinedSpec` asks the same of `VerificationDelivery`: strongly for `Begin`
  of each event (workers poll), weakly for the handler and the record. None for
  the server: a request may be aborted or hang. Faults end by `MaxFaults`.
* `FairSpec` of `Server` asks for `main` and the listening goroutine to be
  scheduled and for timers to fire. A transaction is assumed to end only once
  its context is cancelled by `server.Close`, because pgx then gives up; a
  database may otherwise leave it without an answer. Nothing else is asked of
  handlers. Nothing is assumed of the database or Redis during
  the start but the timeouts that the code sets.

**The finding.** `session_revocation` checks what the comment of
`ExtendSession` says (`session_repository.go:114`): a second operation on an old
token revokes the *whole session*. TLC shows a refresh that has committed but
not yet made its last Redis call, a reuse that revokes the session and writes
`active: false`, and then the first refresh writing `active: true` over it
(`service.go:229`). The middleware trusts the cache and accepts the access
tokens of the revoked session until they expire. `SealedForever`, in
`session_cache`, is the positive side: once the requests that saw the session
before are gone and the cache has forgotten it, nobody is let in again.

Noted while reading. `verify_email.go` has no case for `ErrAlreadyVerified`,
which a confirmation gets that waited for the lock while another token was
used; it becomes status 500. So does the unknown token of a refresh
(`ErrRefreshTokenNotFound`). `resend_verification.go` answers a validation
error with 400 and then goes on to `WriteHeader(202)`, which only the check of
`wroteHeader` in `responseWriter` keeps out of the request log (the mutant of
`TypeOK` in `http_api` shows what happens without it). `refreshRequest.Validate`
returns a `ValidationError`, while `respondRequestError` looks for a
`*ValidationError`, so its code `validation_error` is never sent (same status,
hence not in the model). `MarkFailed` runs under the context whose time the
handler may have used up, so the event stays locked for the lease and `attempts`
may exceed `maxAttempts`: `OutboxQueue!TakeOver` has no limit, and it must not
have one. No context of a handler ends with the `WriteTimeout` of the server
(10 s): a request that takes longer commits, writes to Redis and is never
answered, and a `Shutdown` under way still returns without an error. `config_test.go` (`TestDefaultValueAddr`, lines 5 to 12, and
`TestValueAddrFromEnvironment`, lines 28 to 34) sets only `DATABASE_URL` and
`HTTP_ADDR` and expects `Load` to succeed, but `Load` gives up on a missing key
(`config.go:134` and `:138`), as `Faults` says; the value
`ACCESS_TOKEN_SECRET=example` of `.env.example` does not decode to a key either.

## 4. Proofs

TLAPS checks the theorems for any number of requests, sessions, users, events
and workers and for any lifetimes, leases and limits, from the named assumptions
on the constants only: sets of names are disjoint; `None`, which stands for SQL
NULL, is not a name, a number, an answer or another value that a column may
hold; durations and limits are positive. The bounds of the runs are not used:
`MaxTime`, `MaxFaults`, `MaxRedisLosses` are any numbers and no set of requests
is assumed to be finite.

### SessionAuthProofs

| theorem | says |
|---|---|
| `Invariance` | the inductive invariant `IInv` holds always |
| `TypeCorrect` | `TypeOK`: types, and who holds which row lock |
| `TokenChain` | `OneUnusedToken` |
| `StoresAgree` | `StoresFollowDatabase` |
| `TimedInvariance` | the inductive invariant `TInv` (`IInv` with times) holds always |
| `LongRefusals` | `LongRefusalMeansRevoked` |
| `ExpiryGrows` | `ExpiryNeverShrinks` |
| `RevocationIsFinal` | `SealedForever` |
| `CacheEndsWithSession` | `CacheOutlivesByDelay` |

`OneUnusedToken` is not inductive: that `CommitExtend` uses up an *unused* token
depends on what `SelectToken` read two steps before. `IInv` therefore says of
each request, by its `pc`, what it remembers and that the database still agrees
(`MemoryOK`), which locks it owns, with its copy of the row up to date
(`LocksOK`), and that the rows it is going to insert are not there yet
(`PendingOK`). `Rows` and `Stores` tie tables and Redis together. The argument
has two halves: a request that does not move keeps its part if the step only
adds rows (`Grows`) and touches none that the request has locked (`Respects`);
the one that moves establishes its own part. `OneUnusedToken` follows because
`CommitExtend` is the only step that marks a token used, and marks exactly the
one it replaces.

`TypeOK` says of a lock both ways who holds it: a request at a `pc` inside its
transaction has the lock, and a lock that is taken has such a request for its
owner, so that none outlives the transaction. `LocksOK` gives the first half;
`LockOwners` adds the second, step by step: a lock is taken from nobody, and
the end of the transaction, by commit, rollback or `Abort`, releases both.

`TInv` adds what the times need. `ExpiryNeverShrinks` is not obvious, since a
refresh computes the new expiry from a time sampled before it waited for its
locks. `NowOK` gives the reason: a client can only present a token that it has
received, so whoever *uses up* a token sampled its time after the refresh that
issued the token had committed, and the expiry written by that one is not later
than what this one will write. A refresh that was overtaken finds its token used
and writes no expiry. `LongRefusalMeansRevoked` rests on `RevocationOK`: a refresh that holds
the row of a session has seen it unrevoked, and one at `cacheRevoked` has
committed the revocation. For `SealedForever`, `CacheEntry` says who can write a
live `active: true` (a request that `BelievesActive`) and `BeliefStep` who can
come to believe so: whoever reads or extends the session, neither of which finds a
revoked session active. `CacheOutlivesByDelay` needs one more invariant, `Ends`:
what a request remembers of the end of its session is never later than the end
in the table, since `ExpiryNeverShrinks`. What remains is the distance between
the time a request sampled and the time it writes the entry.

### TokenFamilyProofs

| theorem | says |
|---|---|
| `FamilyInvariance` | the inductive invariant `FInv` holds always |
| `FamilyRefinement` | `ImplementsTokenFamily` |
| `ExchangedOnce` | all refreshes answered with a pair for one token belong to one operation and got the same pair (`OneAnswer`) |

`FInv` adds to `TInv` the chain as the requests know it: a used token has exactly
one successor (`Chain`); a result stored in Redis is the successor of its key
(`Results`); a request about to return a pair holds the successor of the token
it presented, by the operation it presented (`ReturnsOK`); what was presented
and given does not change (`PresentsOK`). `Names` then says which rows
`LastToken` and `Successor` choose, in this state and the next. Each writing
step is one of the family: `CreateSession` is `Begin`, `CommitExtend` is
`Rotate`, `CommitRevoke` is `Revoke`, `Respond` is `GiveFirst` or `GiveNext`,
`StartRefresh` with a token that was issued is `Present`; all others stutter,
losses of Redis, failures and cancelled requests among them. `OneAnswer` adds
to `FInv` that what was answered stays the successor of what was presented
(`AnswersOK`): successors are unique and tokens are never taken back.

### EmailVerificationProofs

| theorem | says |
|---|---|
| `Invariance` | the inductive invariant `IInv` holds always |
| `TypeCorrect` | `TypeOK` |
| `OneLiveLink` | `AtMostOneLive` |
| `OneTokenVerifies` | `VerifiedByOneToken` |
| `LinksRefinement` | `ImplementsVerificationLinks` |
| `OneLinkAtATime` | `VerificationLinks!OneAtATime` holds of the implementation |
| `LivesInOrder` | a verification is used and revoked within its life only (`LifeIsOrdered`) |
| `CooldownKept` | `CooldownHolds` |
| `LimitKept` | `HourlyLimit` |
| `NothingFollowsVerification` | once a user is verified, no verification of his changes any more (`NothingAfterVerified`) |

A transaction that holds the row of its user knows that what it has read still
holds (`LocksOK`): that the user is not verified, and, before it inserts, that
the user is neither at the limit nor in the cooldown. A request's time was
sampled before it waited for the lock, so it may lie before the last
verification; then `TooSoon` refuses it. Whoever passes has a time later than
every verification of the user, which gives `CooldownHolds`, `LifeIsOrdered`
and, with the cardinality of the counted set, `HourlyLimit`: the window
that `CheckLimits` counts then includes all that a window of the
property could.

For the refinement `LInv` adds that a confirmation under way has presented a
mailed link (`Presented`) and that a revoked link was ended by the issue of
another, at its time (`EndedByIssue`). `CreateUser` and `Issue` are the
abstract issue, the successful `Confirm` its verification, the end of a delivery
its reception; a lock, a refusal, a rollback and a second confirmation stutter.
That nothing changes in a link of a verified user is a part of the abstract
specification, which has no step that could.

### VerificationDeliveryProofs

| theorem | says |
|---|---|
| `JoinedInvariance` | the inductive invariant `JInv` holds always |
| `JoinedTypeCorrect` | `JoinedTypeOK` |
| `ProcessedMeansDelivered` | `ProcessedIsDelivered` |
| `MailsAreBounded` | `OneMailPerFault` |

`JInv` contains the invariant of `EmailVerification`, whose steps the joined
specification takes. `HandlerOK` says what the answer of a handler means: after
`nil` the mail was sent or its link was dead, and a dead link stays dead
(`Ages`). `MailsOK` is the account of the mails: each mail sent by an overtaken
worker, and each that such a worker may still send (`Late`), is paid for by a
fault, and the attempt that settles the event adds one.

### AccountsProofs

| theorem | says |
|---|---|
| `Invariance` | the inductive invariant `IInv` holds always |
| `OneOwner` | `OneAccountPerAddress` |
| `Earned` | `SessionIsEarned` |
| `LetIn` | `NobodyLockedOut` |

`RegistrationOK` and `RowOK` tie the rows of `users` to the registrations that
wrote them, each with the hash of its own password; `LoginOK` says that the row
a login has read is still there and, once confirmed, still confirmed. That
nobody is locked out needs that both handlers bring an address to one spelling
(`OneSpelling`) and that a hash is derived again from the stored salt
(`HashFacts`).

### OutboxProofs

| theorem | says |
|---|---|
| `Invariance` | the inductive invariant `IInv` holds always |
| `TypeCorrect` | `TypeOK` |
| `VerdictCorrect` | `VerdictOfLastAttempt` |
| `LeaseSeparation` | `OverlapOnlyAfterLease` |
| `HolderCorrect` | `OnlyHolderReleases` |
| `Refinement` | `ImplementsQueue` |

`OverlapOnlyAfterLease` speaks of two workers only, yet the second may claim an
event that a third has put back in between. What lasts is in the row: every
attempt older than the latest was claimed more than a lease before `Since(row)`,
the time since when the row is what it is: the time of its lock, or the time
from which it is available again. `WorkerOK` says so for each worker, and that
the latest attempt holds the lock until its own worker returns.
`OneWorkerPerAttempt` and `HandledWereCounted` make "the last attempt" one
worker and one entry of `handled`. `Claim` is the step where the order of times
matters: it takes a lock that is older than its own sampled time minus the
lease, or a row that became available by then.

For the refinement, `ClaimWrites` and `MarkWrites` say what a step may do to a
row, and each such change is a step of the queue under `StatusOf`. `IInv` is
needed for the limits: a waiting event has attempts left, and `ScheduleRetry`
comes only from an attempt below the limit. Every other step leaves the queue
as it is.

The theorems about `Worker`, in the same module:

| theorem | says |
|---|---|
| `WorkerInvariance` | the inductive invariant `WInv` holds always |
| `LivesImplementOutbox` | `WorkerSpec => Spec`: the theorems about `Outbox` hold of stopped and killed workers too |
| `StopIsClean` | `StopRecordsAttempt` |
| `StopIsPrompt` | `StopsInTime` |

Every step of a worker's life is a step of `Outbox` or leaves its variables
alone. That a worker killed between two attempts leaves them alone needs
`LifeOK`: an idle worker has blank variables. `WInv` adds two things to `IInv`. `LeaseOwned`
says that a lock whose attempt is not in `unrecorded` is the lock of the worker
that claimed it last, which is at that attempt; a worker that ended in order is
at none, hence `StopRecordsAttempt`. `IInv` is needed where `Mark` finds its lock
gone: the lock it leaves is then another attempt's. `TimeOK` bounds the clock by
the deadline of an attempt and this deadline by the signal: `Begin` after the
signal happens in the same instant, because a call whose context has ended is
`Due`, and whatever is `Due` comes before `Wait`.

### ServerProofs

| theorem | says |
|---|---|
| `ServerInvariance` | the inductive invariant `SInv` holds always |
| `ConfigurationChecked` | `ConfigurationSuffices` |
| `GracefulShutdown` | `GracefulIsComplete` |
| `AnswersAreSaved` | `AnsweredWasSaved` |
| `ServerTypes` | `TypeOK`, the pool among it |

`SInv` follows `main`: what is open at each of its steps (`MainOK`), and what the
state of the connections says of each handler (`HandlersOK`). The step that
matters is `Store`: the Redis client is open as long as connections are, since
`main` closes it after `Shutdown` or `server.Close`; a handler that finds it
closed is at work, so its connection was not closed idle but cut, and its answer
will be lost. `GracefulShutdown` has the same reason the other way round: while
no connection is cut every write finds the client open, and an answer is lost
only by a request that has lapsed. `ServerTypes` counts the handlers in a transaction (`PoolOK`):
there are finitely many, however many requests there are, and `Begin` adds one
only while the pool has a connection left.

### HttpApiProofs

| theorem | says |
|---|---|
| `Invariance` | the inductive invariant `HInv` holds always |
| `TypeCorrect` | `TypeOK`, the logged status among it |
| `EveryRequestAnswered` | `AnsweredAndLogged` |
| `OneBodySent` | `OneBody` |
| `StatusTells` | `StatusTellsEffect` |

`LabelOK` follows the answer: before the first call nothing is sent; while calls
are left, what is sent and what is left are together one of the three forms that
handlers answer in (`Answering`), and the status that is sent, or will be, tells
what has become of the request (`Tells`). `AnswerOfResult` goes through every
result of every route. `LayerOK` says what the middleware has done that has been
returned to: a panic ends at `RecoveryMiddleware` before the request log is
reached. `FinishStep` shows that net/http never has to add a status of its own.

### What is only model-checked

* Liveness (`EveryRequestAnswered`, `EveryEventFinished`,
  `EveryVerificationDelivered`, `SignalEndsProcess`, `ServesOrEnds`): fairness
  and `ENABLED` are out of reach of the installed provers. So would be induction
  over data and recursive operators; the modules have none.
* `RevocationTakesEffect` is false (section 3).

Every other property of a run is a theorem: every invariant, every action
property and the three refinements.

## 5. Not modelled

* All processes read one clock that never goes back. In reality the skew between
  hosts comes on top of the lease and of the cooldown.
* The Redis client repeats a command after a network error; a command that
  takes effect twice or late is not modelled (one that fails is).
* Encryption and random generation: tokens are distinct values, the cipher
  inverts. The derivation of a key from a password and a salt is a value that no
  other pair gives; parsing of a stored hash that `Hash` did not write is left out.
* The in-memory repository, which nothing constructs and which lacks methods of
  the interface, and the JWT manager, which the server does not wire.
* What lies around a process: `docker stop` kills it after a grace period
  (`Kill` in `Worker`), the reverse proxy, migrations.
* Payload, `last_error`, log lines, JSON.
* Statements that insert or update rows no one else may lock are atomic, as are
  commits. Postgres runs at its default isolation level, which the locks and
  single-statement reads of the models reflect.
* Chats, topics, members, messages: a schema without code.

## 6. Plan

Done: sessions with their abstract family, verification with its abstract
links, outbox with its queue and its progress, their composition, the lives of
server and worker, configuration, accounts, HTTP, and the proofs above: every
safety property of the runs and the three refinements. Next:

1. Chats and messages, when their code exists.
2. The in-memory repository and the JWT manager, should a binary come to use
   them.
