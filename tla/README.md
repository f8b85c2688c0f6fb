# TLA+ models of the FastAPI boilerplate

This directory holds TLA+ specifications of the backend under `src/backend/`, the TLC
configurations that check them on small instances, and TLAPS proofs of what they promise for
any instance. `PROJECT.json` is the index: components, runs, mutants (a plausible bug for each
property, which the property catches), the source lines behind each definition, findings,
hazards and theorems. Paths below are relative to `src/backend/` unless they start with `src/`.

## The system

One FastAPI process (several in production) runs coroutines on an asyncio event loop. A
coroutine runs undisturbed from one `await` to the next; Postgres (one session per request,
committed by `get_db` after the handler), Redis, and an in-process job queue are its shared
state. So the behaviours that are hard to test are what happens *between* two awaits, between
the handler and its commit, and when Redis, Postgres or the process fails there.

| Component | State | Operations | What makes it hard | What makes it correct |
|---|---|---|---|---|
| Sign-in sessions: `core/security/token_store.py`, `application/auth/use_cases.py`, `app/api/v1/auth/router.py`, `core/security/dependencies.py` | refresh keys, per-user indexes, revoked jtis, reset keys (Redis); password hash (Postgres) | login, refresh with rotation, replay alarm, logout, reset, password change, delete | each handler is four to eight Redis calls with no transaction; two refreshes, a sweep and a login interleave; a call may fail | what a client holds and an index lists a sweep finds; what is retired never works again; every replay alarm has a cause |
| Billing webhook: `app/api/v1/billing/router.py` 399-489, `domain/billing/webhook_models.py`, `resilience/idempotency.py` | idempotency keys (Redis), `payment_events`, `subscriptions` | one delivery | redelivery, two deliveries at once, a failure before or after the commit, row locks | one payment grants one subscription; no event is swallowed; deliveries do not wait for ever |
| Background jobs: `common/background_jobs.py`, `resilience/retry.py` | queue, early jobs, worker task, counters, idle event, dead-letter list | start, enqueue (loop or thread), run with retries, stop, reset | a worker, callers in threads, a stop during a job, a new event loop | no job lost or run twice; idle means empty; every job ends |
| Subscription lifecycle: `app/api/v1/billing/router.py`, `domain/billing/service.py`, `core/security/entitlements.py`, `process_trial_expiry_jobs` | `subscriptions`, `invoices` | assign, change plan, cancel, feature gate, expire trials | read, modify, commit of one row by several sessions; a job that reads, writes and tells in three transactions | a conversion is invoiced and not expired behind the user's back; an expired trial is told |
| Outbound webhooks: `application/webhooks/service.py`, `domain/events` | endpoints, deliveries, attempt counts | create, revoke, dispatch, deliver, retry | the job is enqueued before its row is committed; a restart loses the queue | an active endpoint gets its event; a revoked one gets none; at most three attempts |
| Redis job queue and worker: `infrastructure/queue/redis_queue.py`, `scripts/worker.py` | a Redis list | enqueue, dequeue, run | the client is asynchronous and not awaited | a job that was enqueued is run (it is not: see the violations) |
| Account lockout: `domain/users/service.py` 104-136 | failed attempts, locked_until | wrong password, right password | read-modify-write over two awaits | the lock closes exactly at the limit, and never for want of wrong passwords |
| Rate limiting: `resilience/rate_limit.py`, middleware in `main.py` | sliding windows of stamps | allow, reset | stamps taken before Redis runs the call; keys that expire; refused calls that count | never more than the limit in a window, no refusal below it |
| Circuit breaker, mail transport: `resilience/retry.py`, `infrastructure/email/transport.py` | failure count, opened_at | send, retry | one breaker for the tries of all mails | an outage outlives itself by no more than the reset timeout |
| Roles and administrators: `domain/rbac/service.py`, `app/api/v1/admin/router.py`, `app/api/v1/rbac/router.py` | roles, permissions, links, users | set role, bulk change, replace links, create | a count read before another commit; a DELETE and INSERTs that another replacement overtakes | an administrator is left; a replacement replaces |
| Registration and users: `application/users/use_cases.py`, `app/api/v1/users/router.py` | users, idempotency keys | register, update, delete | the key is set before the commit | one account for one key and address |
| Products: `application/products/use_cases.py`, `app/api/v1/products/router.py` | products, idempotency keys | create, update, delete by the staff | the socket, the audit log and the key hear of a product before its commit | what is heard is kept, and the reverse |
| API keys: `domain/api_keys/service.py`, `core/security/dependencies.py` | key rows | issue, authenticate, revoke | each use writes the row it read | a revoked key stays revoked and opens nothing |
| Uploads: `app/api/v1/uploads/router.py`, `infrastructure/upload_storage.py`, `cleanup_stale_uploads` | files, rows | store, fetch, clean up | a file and its row change at different times, and either may fail | files and rows go together |
| Audit log: `observability/audit.py` | audit rows | log, persist | enqueued before the commit it describes | every committed change is logged |
| Startup and seeding: `app/lifespan.py`, `infrastructure/runtime.py`, `common/bootstrap.py` | tables, seed rows, process flags | boot, seed, stop | processes race for the same rows; the flag is set before the commit | a process that serves finds its seed |
| Configuration, logging, metrics, tracing, schemas; sockets; migrations, deployment | - | - | - | not modelled: no state a property here depends on |

Interactions: a handler commits, then (or before) enqueues jobs in *Background jobs*; jobs send
mail (*Circuit breaker*), deliver *Outbound webhooks*, keep the *Audit log* and expire trials, each
in its own database session; *Sessions* or *API keys* are what every other route authenticates with,
after the *Rate limiting* of the middleware; the *Billing webhook* writes the rows the
*Subscription lifecycle* reads; *Startup* makes the rows and the worker all of them rely on.

## The modules

| Module | What it is |
|---|---|
| `SessionContract` | what the sessions promise: a token pair is handed out once, each half ends once and for good |
| `AuthSessions` | the token store and every handler that touches it; implements `SessionContract` |
| `AuthSessionsProofs` | its proofs |
| `PaymentLedger` | what the webhook promises: an event is applied once, a paid one grants one subscription in the same instant, only applied events get a 200 |
| `PaymentWebhook` | the webhook handler; implements `PaymentLedger` |
| `PaymentWebhookProofs` | its proofs |
| `JobContract` | what becomes of a job: it is accepted once, run by one worker at a time and at most `MaxAttempts` times, and ends once |
| `BackgroundJobs` | the manager, its queue backend and `retry_async`; implements `JobContract` |
| `DeliveryContract` | what the endpoints are promised: an account comes with its deliveries, one for an endpoint; attempts do not overlap, are limited, and none begins after a success or a revocation |
| `Registration` | `POST /users`, and the deliveries to webhook endpoints that a registration sets off; implements `DeliveryContract` |
| `RegistrationProofs` | its proofs |
| `Optional`, `RowLocks` | a value that may be missing; which of the transactions that wait for each other Postgres may abort |
| `Administrators` | role changes, alone and in bulk, and their guard |
| `Grants` | the replacement of a role's permissions and of a user's roles, with its scope check |
| `Catalog` | rows under unique keys: roles, permissions, plans, features and a plan's features |
| `Startup` | the lifespan of several processes on one database |
| `Subscriptions` | assignment, plan change, cancellation, the feature gate and the trial expiry job |
| `RateLimiter` | both limiters and the keys a route asks for |
| `Lockout` | the failed-login counter and the lock |
| `Mail` | the SMTP transport with its breaker, and the jobs that carry mails |
| `TokenLifetimes` | the lifetimes of tokens, of their indexes and of revocations, which `AuthSessions` leaves out |
| `Uploads` | upload, download and clean-up |
| `ApiKeys` | issue, use and revocation of keys |
| `Products` | create, update and delete, and what is told of them |
| `RedisJobs` | the Redis queue and its worker, as they run |
| `BackgroundJobsProofs` | proofs about `BackgroundJobs` |
| `ClockProofs` | proofs about `Lockout`, `Mail`, `TokenLifetimes`, `RateLimiter` |
| `RequestProofs` | proofs about `ApiKeys`, `Products`, `Uploads`, `Subscriptions` |
| `RbacProofs` | proofs about `Grants`, `Catalog`, `Administrators`, `Startup` |
| `ServicesProofs` | what those three and `BackgroundJobsProofs` prove, of the services side by side (`MCServices`) |
| `MC*` | instances and symmetry for TLC; `MCServices` has one instance of each of the smaller services |

### AuthSessions

State follows the Redis keys: `refresh[t]` is the key of a refresh token (`live`, `used` or
absent), `index`/`accessIndex` the by-user sets, `revoked` the jti keys, `resetKey` the reset
keys; `password` (as a version) and `present` are the committed user rows. `pc[r]` is the await
a coroutine makes next, and `op`, `uid`, `given`, `new`, `todo` are its locals. One action is the
code from one await to the next. A member of `Tokens` is the pair of one access token (its jti) and one refresh
token that a login or a refresh mints together.

- `Login` -> `TrackAccess` -> `SetRefresh` -> `IndexRefresh` -> `Answer`; a refresh is `RefreshGet` ->
  `RefreshLoadUser` -> `TrackAccess` -> `MarkUsed` -> `SetRefresh` -> `IndexRefresh` -> `Answer`. `parent`
  is set by `MarkUsed`: it is the token that was marked in exchange for the new one.
- `Logout` presents an access token and names a key of the token store. The route checks only that the
  name is not empty, and the refresh index of a user is a key under the same prefix as the refresh
  tokens, so `LogoutDelete` deletes a token or an index. Other names are no key of the store and change
  nothing but the jti's mark, as a token that has lapsed does.
- A replay, a reset and a password change end in `ReadIndex` -> `SweepRefresh`* ->
  `ReadAccessIndex` -> `SweepAccess`* -> `FinishSweep`; the snapshot `SMEMBERS` returned is `todo`.
- `Abort(r)` is `TokenStoreUnavailableError` (or the process dying) at any await: what was
  written stays, the database change is rolled back, no token is answered.
- `Outages`: `SMEMBERS` alone has a fallback that returns an empty set instead of raising.
- `era`, `issued`, `spent`, `closed` and `doomed` are history: what the clients were answered.
  `unlisted` is history too, the refresh tokens that a deleted index had listed; `stranded` those whose
  rotation failed between the marker and the answer.

What the code gives is stated up to these two. `IndexComplete` has every issued refresh token in its
index *or* in `unlisted`; `SpentStaysDead` promises of a sweep only what was listed when it read the index; and
`AlarmsHaveCause` says that a used marker stands for a token whose successor was handed out, or is on its way, or
is `stranded`: in this last case the client has no successor, and the retry it makes ends all its sessions.

Abstractions: `ENVIRONMENT` is not `dev` (there the store falls back to a dictionary); the `EXPIRE`
after an `SADD` and the expiry of the indexes are left to `TokenLifetimes`; there is no clock, an expiry is an
action that may happen at any time; a write whose reply is lost is the write, and `Abort` at the next await
(so `Answer` is a step apart from `IndexRefresh`); the row lock a flushed password holds until its commit is
left out, which allows more orders than Postgres does.

### PaymentWebhook

`pc[d]` is the await a delivery makes next. `holder[e]` is the open transaction that inserted the
row of `e` (a second INSERT waits for it: the unique constraint), `locker[s]` the one that
updated subscription `s`; both go at `Commit` or `Fail`, where `get_db` ends the transaction.
`notes[e]` counts the `payment_failed` notifications enqueued, between flush and commit as the
code does. The subscription a failure event names is any existing one. Requests refused before
the first await (unknown provider, bad signature, no id) change nothing and are left out.

### BackgroundJobs

`loop`, `qloop` and `mloop` tell which event loop runs, which one the queue belongs to and which
one the manager's task belongs to; `queue`, `pending`, `active`, `count`, `idle`, `dead` are the
attributes of the same name. Code on the loop is atomic up to its await, so `enqueue` by a
coroutine is one step, and in a thread three (`ThreadClear`, `ThreadCount`, `ThreadAppend`).
`Stop`, `Die`, `Stopped` are cancel, the worker's `CancelledError`, and the rest of `stop` after
`gather`. `stop` is called on the manager's own loop only, as the lifespan and the tests do.

`JobContract` sees of all this the outcomes, the jobs that a worker is running (`Running`: in hand and not asleep before a
retry) and the attempts, and no queue, loop or thread. `Enqueue` and `ThreadAppend` map to its
`Accept`, `Take` and `Retry` to `Run`, `Raise` and `GiveUp` to `Raise`, and all that loses jobs (a cancelled worker,
a new loop, a reset, the queue that `start` or `enqueue` makes anew on another loop) to `Drop`. So
it permits a drop at any time: it promises that a job is not run twice at once, after its end or too
often, and `OnePlace` adds that a job not dropped is somewhere.

### Registration

`pc[r]` is a request's next await: `GetKey` -> `Select` -> `Insert` -> `Dispatch`* -> `SetKey` ->
`Commit`, with `Fail` (Redis, mail, database) at any of them. `made`, `state`, `row` with `to` and
`about`, `attempts` and `delivered` are the tables; `holder[a]` is the open transaction that inserted an
account, for which another INSERT of it waits. A row of a delivery is `open` until its author's
transaction is `saved` or `lost`. `jobs`, `wpc`, `hand` and `runs` are the in-process queue, what the
worker waits for, the delivery it works on and how often the manager has run that job before.
`posts` and `late` are history: what the endpoints saw.

`DeliveryContract` sees the committed rows (`Known`, `Event`) and the attempt a worker makes (`Phase`), and no
transaction, queue or lock. Its `Lose` lets an attempt vanish at any point, even between the request and the
count: so it limits the attempts that are counted, and `AttemptsBounded` adds that each post beyond them took a
failure. It promises nothing that must happen: that an event may never be sent is `Registration_lost`.

Abstractions: an account is an address together with its name, and its Idempotency-Key, if the
client sends one, goes with it (two keys for one account, or one key for two, differ only in
answers no property speaks of). The free plan exists. Endpoints are created and revoked in
committed steps of their own, and all subscribe to `user.registered`. The queue is a set: what its
order gives is in the fairness. `SetKey` includes the welcome mail, which runs in the same
stretch of code. When the answer leaves the server relative to the commit depends on the
version of FastAPI and is not a part of the model. An error that `deliver_webhook` catches is an `error` answer; one
in its database work also breaks the session its `except` branch uses, and so reaches the manager
(`JobRaises`). Soft-deleted users are left out: their address stays in the unique column, so a
new registration of it passes the SELECT and fails on the INSERT.

A process has one manager and so one worker; the proofs allow any number.

### The smaller services

Each of these modules is one transaction protocol: a member of `Editors`, `Granters`, `Makers`,
`Clients`, `Staff`, `Requests`... is one request, made at most once, and its pc (`epc`, `gpc`, ...) the
await it makes next. Transactions are READ COMMITTED; a row written and not committed is locked,
a unique key inserted and not committed makes another INSERT of it wait, and of requests that wait for each
other in a circle Postgres aborts one (`RowLocks!Deadlocked`). The session's identity map keeps what
was loaded first, and an UPDATE writes the columns that changed.

- *Administrators*. `seen[r]` is the identity map, `wrote[r]` what the transaction has written, `tally`
  the count the guard works with. `set_user_role` is `SetUserRole`, `LoadUser`, `CountAdmins`,
  `WriteRole`, `CommitRoles`; the bulk is `BulkSetUserRoles`, `Tally`, `Scan`*, then for each entry
  `RefuseSole`, `SkipUpdate` or `WriteRole`. `DeleteUser` and `UpdateUser` do not count
  administrators. `excuses` records why none may be left.
- *Grants*. An owner is a role (its permissions) or a user (their roles); one protocol for both:
  scope questions one at a time (`Ask`), `DELETE`, `INSERT`s, commit. `mixed` records owners for which two
  replacements overlapped.
- *Catalog*. `MakerStarts` takes an order: create without looking (plans, features), look first
  (roles, permissions), or a list of features to map. `unsent` is the link that the next statement
  autoflushes.
- *Startup*. A process goes through `Boot`, `ResetLimiter`, `StartWorker`, `CreateTables` (dev),
  `RunHooks`, then `FindSeed` and `PlantSeed` for each row, `CommitSeeds`. `initialized` is the in-process
  flag. Outside dev `rate_limiter.reset()` raises, as `RedisRateLimiter` has no `reset`: no process
  of that environment gets beyond it, and the model has this.
- *Subscriptions*. Subscriptions are numbered as their ids are. A client assigns, changes, cancels or asks the gate;
  the sweep reads the due trials, commits `expired`, then tells. An assignment takes any `status`: the model has the
  five the code knows. A row assigned as `expired` is due for no sweep, and is told only when a trial expires, with all that
  are expired then; so `ExpiredIsTold` is about the trials a sweep expires. `converted` and `raced` are history.
- *RateLimiter*. `hits[k]` is the list of stamps in memory, the sorted set in Redis (where calls of one stamp
  share a member). In Redis `SendPipeline` takes the stamp, `RunPipeline` runs the four commands, and its reply
  may be lost: the call was decided and its stamp stays, although the request ends in an error. In an `Outage` nothing
  was run. `LimitIsKept` counts the calls as they were decided, so a call may be refused because of one whose client got an error.
- *Lockout*. `loaded[a]` is the row as an attempt read it; `CommitWrong` writes counter and lock from it.
- *Mail*. `IsOpen`, `Lost` and `Send` are the breaker; a job tries a mail `Tries` times; the welcome mail is
  sent once, inside the registration.
- *TokenLifetimes*. A token is minted, added (`AddToIndex`), and its index renewed (`RenewIndex`); a
  sweep reads an index (or the empty fallback) and retires what it read. `DropIndex` is the logout that names the
  index of the refresh tokens; `adrift` records the tokens no sweep finds for it, or because the index lapsed before their
  EXPIRE. An instant is a second, and `jwt.decode` takes a token through the second of its `exp`, so `Works` does.
  `AccessTTL <= RevokeTTL` is an assumption that the default configuration meets with equality, and then a token swept in
  the second it was made works again in its last: `LifetimesFit` names that second as its only exception.
- *Uploads*. `files` and `rows` change in different steps; a clean-up unlinks, then commits. The model file
  of `UploadRecord` is not in the repository; its columns are those the routes and the job use.
- *ApiKeys*. `writes[r]` holds the columns a transaction has set. A key's row stays locked from its
  touch to the commit, so that requests with one key run one after the other.
- *Products*. `emitted`, `audited` and `cachedFor` are what the socket, the audit job and the
  idempotency store have heard before the commit.
- *RedisJobs*. `coroutines` collects the commands nobody awaits.

### How the modules relate

Each composes the parts that share its state: `AuthSessions` the token store with the handlers and
the user rows, `PaymentWebhook` the idempotency store with two tables, `Registration` the same
store with the users, the webhook tables and a worker. `Registration` uses of the manager what
`BackgroundJobs` shows: a job put in the queue is run, at most three times, and not
beside itself. In `MCServices` the smaller services stand side by side: they share no state, so in a behavior one of them runs and the others stand still;
composing them any closer would multiply their states and say nothing more.

## The runs

| Run | Instance | Shows |
|---|---|---|
| `AuthSessions_safety` | 1 user, 3 token pairs, 1 password change, 2 coroutines | the named safety properties. Three pairs are a login, its successor and a second session |
| `AuthSessions_users` | 2 users (one a superuser), 2 pairs, 1 reset key, soft deletes, outages, logouts that name the index of one user, 2 coroutines | the inductive invariant of the proofs, the same safety properties among its parts, with sweeps that must tell users apart and indexes that are deleted; `SessionContract` is implemented |
| `AuthSessions_singleuse` | 1 user, 3 pairs | *violation*: two refreshes of one token at once both succeed |
| `AuthSessions_oldpassword` | 1 user, 2 pairs, 1 reset key | *violation*: a login between the sweep and the commit of a reset survives it |
| `PaymentWebhook` | a payment and two failures, 2 deliveries at once, 2 failed requests | all of it, safety, liveness and `PaymentLedger`. Two failures are what can wait for each other's subscription |
| `BackgroundJobs_threads` | 3 jobs, a thread, 2 workers, 2 loops, resets | `JobContract` is implemented, the books balance, the dead-letter list (limit 1) keeps the latest. Two workers are a new one started beside one that stop forgot |
| `BackgroundJobs_early` | 2 jobs, a thread | *violation*: the idle event is set while a job waits |
| `Registration` | 1 account, 2 requests for it, 1 endpoint, 1 worker, 2 attempts, 2 runs of a job that raises, 2 failures | all of it, safety, liveness and `DeliveryContract`. Two failures let a job exhaust its runs, or a request fail and then a restart; three rows are all that one account and two failures can make, so the bound on ids stops nothing |
| `Registration_lost` | 1 request, 1 endpoint, no failure | *violation*: a saved delivery to an active endpoint is never posted |
| `Services` | thirteen services with two or three actors each (below) | what each promises, and that what it starts ends |
| `Administrators_last` | 2 accounts, 2 editors | *violation*: a bulk that names a user twice leaves no administrator |
| `RedisJobs` | 1 job, 1 worker | *violation*: an enqueued job is never run |

The instances of `Services` (`Services.cfg`), with the case that sets their size: two editors of two
accounts (each demotes the other's); two granters of two owners; two makers of two keys in
opposite orders (a deadlock); two processes and two seed rows with one failure; two clients, two plans and a sweep;
three callers, limits 2 and 1, a window of 2 and a clock of 3 (a call that falls out of the window);
three attempts at a threshold of 2, with locks that expire; three mails, two tries, a breaker of two
failures; two tokens and a sweep over four instants (an index that lapses); two files, a reader and
two clean-ups; two keys and two requests (which may revoke each other's); three requests for two product
names and one key; two jobs, two workers and two loops. Every bound on a clock is a guard of its tick.

`PutsReplace`, `LockIsExact`, `LimitIsKept`, `ConversionsHold`, `KeepsAnAdmin`, `LifetimesFit` hold up to a named history
variable (`mixed`, `overlapped`, `late`, `raced`, `excuses`, `adrift`): it says exactly when the code gives
no more than this, and each is reached in the run.

Two coroutines are enough for every race found: each involves a request and one that overtakes
it. Symmetry is used for interchangeable coroutines, tokens, deliveries, jobs and workers, only in
runs without a liveness property, and never where an instance distinguishes them.
`AuthSessions` stops when the instance has no token left to mint, so its runs do not check
deadlock; the others do.

Fairness. `AuthSessions`: weak fairness of `Step(r) \/ Abort(r)`, as every await returns or raises.
`PaymentWebhook`: weak fairness of each delivery's own steps, and strong fairness of redelivery
for an event that has no 200, which is the provider's promise and not the code's.
`BackgroundJobs`: weak fairness of each worker, and of the code after `gather`, as the event loop
runs every task that is ready. `Registration`: weak fairness of a request's steps and of a
worker's, and strong fairness of taking each queued job, as the queue is first in, first out; a
request that waits for another's row lock is not treated as enabled. `Services`: weak fairness of the steps of each request, mail,
boot, periodic job and worker, as each ends one await and begins the next; aborts of a deadlock are among them. `RedisJobs`:
the worker is started again whenever it ends, the most an operator can do. Nothing else is assumed: no request, no stop and no start has to
happen.

### What the violations say

- *singleuse*: `RefreshTokenUseCase` reads the token (`GET`) and marks it used (`SET`) several awaits
  later, with no compare-and-set, so a token used twice at once gives two sessions.
- *oldpassword*: `ConfirmPasswordResetUseCase` revokes every session before `get_db` commits the
  new hash; a login in between is checked against the old one.
- *lost*: `dispatch` enqueues `deliver_webhook` before `get_db` commits the row it names. A worker
  that is quicker finds no row and returns as if there were nothing to do.
- *Administrators_last*: the bulk compares every entry with the role as it was loaded: promote a user, demote
  the same user, demote the only administrator counts as one promotion and one demotion.
  Two updates that overlap do it too, as the guard's count locks nothing.
- *RedisJobs*: `redis_client` is a `redis.asyncio` client; `lpush` and `brpop` are called from plain
  functions, so no command is sent, and the worker's `_, payload = raw` raises outside its `try`.
- *early*: `enqueue` clears the idle event before it counts the job.

Behaviours the models have beside these, each a consequence of code no property here covers: a
reset whose `SMEMBERS` fails answers 200 having revoked nothing (`Outages`); a replay sweep does
not reach the successor of a refresh still in flight; a rotation that fails after its marker leaves the client no
successor, and its retry ends all its sessions (`AlarmsHaveCause` says it takes that); a logout that names the index of a
user leaves the tokens it listed to no later sweep; a logout that fails midway answers 503, with the refresh token gone and
the access token not revoked; two confirmations of one reset key both
succeed; a registration whose commit fails after its key was set leaves the key answering for an
account that does not exist (`CachedAnswersHold` says it takes that); a restart loses the retries that were
queued; the retries have no pause between them, although `src/README.md:51` says
"retry/backoff"; a stop during a job leaves `_active_jobs` at 1, so `wait_until_idle` never returns again;
a job a thread enqueued while the manager was stopped is left in `_pending_jobs` by a restart on
the same loop; a product announced on the socket, audited and kept under its key when its commit fails; a
download cut off by a clean-up; files of a failed upload, and files in a bucket whose rows were
cleaned up, that nothing ever removes; an expired trial told again each time the job expires another;
two overlapping replacements of one role's permissions that leave the union; two overlapping demotions that leave no
administrator; refused calls, and calls whose reply was lost, that count against the Redis limit; a row assigned as `expired`
that nobody is told of until a trial expires. Beside the models, noted while reading: `user_has_permission` raises when two roles of a user grant
the same permission (`domain/rbac/service.py:187`); the limiter does not fail open, as the counter its
fallback bumps is not initialised (`observability/metrics.py:37`), although `src/README.md:810` says it
falls back; a plan that lists a feature does not always pass the gate (`Subscriptions!MatchingPlanPasses` is
false: two plans of a user that both list it meet `scalar_one_or_none`, `domain/billing/service.py:62`); a socket stays authenticated after its token is revoked.

## The proofs

The constants are arbitrary sets; the assumptions are those each module names (`AuthAssumption`,
`WebhookAssumption`, `RegistrationAssumption`, `LockoutAssumption` and so on), which give the
constants their types. Each proof has the same form: `Init => IInv`,
`IInv /\ [Next]_vars => IInv'` with a lemma or a step for each action, and `IInv` implies the
properties. `AuthSessions_users` checks the `IInv` of the sessions as well.

The assumptions that say more than a type: `AccessTTL <= RevokeTTL` (`TokenLifetimes`; the default
configuration meets it with equality); the routes that are limited name each key once
(`RateLimiter`: a key holds the route's path and the kind of subject); the accounts are finitely many and a
bulk has an entry (`Administrators`: an empty one writes nothing, and is left out); `SeedKeys` names
no key twice (`Startup`). `IdleOnTheLoop` has two hypotheses of its own, see below. TLC evaluates
the assumptions on the instances of the runs.

- *AuthSessions*. The properties alone are not inductive: `IndexComplete` is about tokens that
  were answered, and depends on what each request has already written at its await. `Coherent(r)`
  records that, location by location (a minting request's new token is not yet in
  `issued`, is in the access index once tracked; a sweep's list is what is left of the tokens clients held
  when it read the index); `MintsDiffer` and `BirthInv` say that tokens are
  minted once. With them `SpentStaysDead`, `ClosedStaysRevoked` and `IndexComplete` follow, and every step maps to a
  step of `SessionContract` or a stutter. For `AlarmsHaveCause` the three causes hand a marked token on to each
  other (`CausesKept`): a rotation under way answers, and its successor is issued, or it fails, and the token is
  `stranded`; `Accounted` is the one disjunction all the steps keep.
- *PaymentWebhook*. `Coherent(d)` says what a delivery's transaction holds at each await,
  `HeldInv` that an inserted row is in no committed one, `NotesInv` that a notification of an
  event whose transaction has not flushed came from a failed request. `Commit` maps to
  `PaymentLedger!Apply`, the two answers to `Ack`.

- *Registration*. `RequestInv` says that an open transaction is the only one of its account, `RowInv` that a row
  tells of the account its author's transaction makes, `JobInv` that a delivery has one job at a time
  and only while an attempt is left, `PostInv` that each request to an endpoint was counted, or is
  about to be, or was lost to a failure. `NoGhostEvents` needs the first two, `AttemptsBounded` and
  `QuietAfterRevoke` the last two, and `DeliveredIsFinal` (a theorem that no run repeats, as the contract has it) follows because a delivered row has no job.
  `Commit` maps to `DeliveryContract!Register`, `Read` to `Begin` when it goes on to the request, `Post` to `Post`, `Save` to
  `Count`; `JobRaises` and `Restart` to `Lose`; the rest of a request is not seen. That `Commit` makes one delivery for an
  endpoint takes `OneEach`: a row not lost is the only one of its account and endpoint, since a request has
  still to write (`todo`) only what it has no open row for, and no other request writes for the account.

- *Lockout*, *Mail* and *TokenLifetimes* (`ClockProofs`). `LockIsExact` is not inductive because a commit writes what was
  read: `LoadedInv` says that no attempt has read more failures than were committed, and that an attempt
  that overlaps with none has read the row as it still is. `BreakerInv` says that the breaker has counted
  no more than has failed in a row, and is below its threshold while closed. `IndexedInv` follows a token from its
  SADD to its end: between SADD and EXPIRE its index has not lapsed, later the index lapses no sooner than
  the token; `SweptInv` uses that a revocation outlasts an access token (`TokenLifetimesAssumption`).
- *Uploads* (`RequestProofs`). `StoredInv` says that a cleanup reads only what was committed, so that it never meets an
  upload on its way; `HeldInv` that it holds rows only while it runs and that what it has unlinked is gone;
  `SendInv` that a download about to send found its file. `FilesMatchRows` follows step by step.
- *ApiKeys* (`RequestProofs`). A revocation lasts because transactions set columns and clear none (`SetsOnly`): an
  invariant of what is yet to be written, on which the mutant `TouchRow` fails. `StaysDead` says that
  a request sent with a dead key gets no further than `LoadKey`.
- *Products* (`RequestProofs`). `ClaimInv` says that a name an open transaction has written is nobody else's, which keeps
  names unique at the commit; `ToldInv` that a request tells before it commits, and only of its own product.
- *Grants* and *Catalog* (`RbacProofs`). `TxInv` says that, as long as no two replacements of an owner have overlapped,
  the one that runs has seen the owner's rows as they are; `LookedInv` that what a request is to insert
  is not there, unless another has committed since it looked.
- *Startup* (`RbacProofs`). `SeedingInv` says what a process has behind it at each step, and that each row it has passed is
  committed or in its own transaction, although the rows it found may be another's. It needs that
  `SeedKeys` is a sequence, and nothing about the number of processes or faults.

- *Subscriptions* (`RequestProofs`). A commit writes what was read, so a row that is converted, or active, must stay
  `Firm`: never again a trial, and expired only by a sweep that had read it before (`FirmInv`). `WishInv` says the
  same of the row a plan change has read as active, since it will not write the status. `AssignInv` says
  that an id that is flushed and not committed belongs to one client, so that its commit meets no other row, and
  `RowsInv` that such an id is in no list of the sweep.
- *Administrators* (`RbacProofs`). The guard compares counts, so the proof is about cardinalities. `Quiet` holds as long as there
  is no excuse: one editor is open, and it is `Careful`: what it has dealt with is written, the rest of its
  identity map is as committed, and the sum of the bulk's scan is the number of the administrators there *will* be after the
  entries scanned (`After`). `ScanAdds` shows that one entry changes that number by what the code adds,
  because no account is named twice: without that it does not, which is the violation `Administrators_last`.
  At the write `After` of all entries is not empty, and the commit makes it the set of administrators.
- *RateLimiter* (`ClockProofs`). Both limiters count what they have stored, the property what they have decided. `MemoryInv` says
  that the deque of a key holds the stamps of calls it let through, among them all still in a window, and
  that no window held more than the limit; `RedisInv` that a stamp is in the sorted set until a later call's
  window, or the expiry of the key, has passed it. Counting goes over functions between finite sets (`Covered`,
  `Spread`): callers of a route ask for each key once (`AskedOnce`), so calls of one window are
  as many as their callers; in Redis calls of one stamp share a member, so stamps are at most as many as
  calls, and a call refused has at least the limit of calls before it.
- *BackgroundJobs* (`BackgroundJobsProofs`). `PlacesInv` says that queue, pending list and hands share no job and hold it once, and
  `HandsInv` when a worker or a thread has one; `OnePlace`, which counts places, follows by showing the set of places a
  singleton or empty. `TriesInv` says that a job that is queued has not run, and one that sleeps has an attempt left;
  `RetriedThrice` needs it, and `DeadLetterLatest` is kept as `Append` and the cut of the list are one step.
  `ManagerImplementsContract` maps each step: what a worker takes does not run already as no job is in two places
  (`PlacesInv`), a run that begins has an attempt left (`TriesInv`), and what is dropped waits. No run repeats
  `RetriedThrice`, which the contract contains. For
  `IdleMeansEmpty` the counters need a bound (`Counters`): `count` is never below the length of the queue nor `active`
  below the number of jobs in hands (they may be above: a stop leaves `active` too high), and the event
  is set only when both are zero. A thread breaks it
  between its clear and its count (`BackgroundJobs_early`), and a reset sets the counters to zero under a job, so
  `IdleOnTheLoop` assumes `Threads = {}` and `Resets = FALSE`, as in production all enqueue on the loop and only the
  tests reset.
- *Side by side* (`ServicesProofs`). A step of `MCServices` is a step of one service and leaves the variables of the others, so
  `ServicesSpec` implies every service's own specification (`ServicesApart`), and with it all of the above.

Lemmas are named for the step they are about (`CommitKeeps`, `ScanAdds`...) and stated once. What the library's
theorems say of an operator given as a parameter (induction, images of finite sets) cannot be instantiated by the provers,
so `ClockProofs` states the facts it needs for functions.

Only model-checked: the liveness properties (`EventuallyAcked`, `RequestsEnd`, `RetriesGoOn`, `ServicesSettle` with its
parts), as liveness under fairness is beyond the prover; and the violations, which are
counterexamples. Every safety property that a passing run checks is a theorem.

## Not modelled

Configuration, logging, metrics, tracing and the response schemas keep no state that a property here depends
on; the migrations and the deployment files define what the models take as given (tables, unique
columns, the services there are); a socket is authenticated at connect and gets broadcasts, with no state
but the library's rooms. Left out of modelled components: the confirmation of an email address and the
in-memory fallback of the token store in dev; API key scopes; prices, descriptions and list filters of products;
soft-deleted addresses and profile fields; the audit log's file and queries.

## Plan

Done: sessions, billing webhook, background jobs, registration with outbound webhooks; subscriptions, administrators
and grants, lockout, rate limiter, mail, token lifetimes, uploads, API keys, products, the Redis queue and startup.
Left, in this order:

1. `Subscriptions` composed with the webhook's writes to the same row.
2. The confirmation of an email address, and the audit log's queries.
