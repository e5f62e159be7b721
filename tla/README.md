# AccountHub: a TLA+ verification project

AccountHub (`src/backend`, Node.js) is a gateway in front of upstream AI services.
It owns a pool of upstream *accounts* (rows of the table `providers`), accepts API
requests of *users*, picks an account for each request, forwards it, and keeps the
accounts alive: health marks, cool-downs, recoveries, token refreshes.  It runs as a
cluster of processes: a master, one worker per shard and an admin process; MySQL
holds what must survive, Redis holds what the workers share.

This directory holds TLA+ models of the parts where interleavings, failures and
timing decide whether the system is correct, the TLC configurations that check
them, and theorems about them proved with TLAPS.  Paths below are relative to
`src/backend/src/` unless they start with `src/`.

## 1. The system

### 1.1 Components

| Component | State it keeps | Operations | Modelled in |
|---|---|---|---|
| Request slots: the handler (`utils/common.js`) and the in-memory `ConcurrencyLimiter` (`services/concurrency-limiter.js`) | maps of counts per user, per account, per account and user; `requestTracking`; queue lock of each account | select, check user, wait for the lock, increment, track, switch credential, release, periodic clean-up | `RequestSlots` |
| Shared counters: the limiter in Redis mode, `services/redis-client.js` | one Redis key per user and per account, with a TTL; a fall-back counter per worker | INCR/EXPIRE, DECR/DEL, fall-back to memory, reset at start-up | `SharedSlots` |
| Cluster master (`core/master.js`) and sticky dispatcher (`core/sticky-dispatcher*.js`) | `cluster.workers` with `workerStats`, restart timers, sockets, round-robin counter | fork, restart after exit, restart all, restart one, route a connection, shut down | `Cluster` |
| Admin process supervision (`core/master.js`) | `adminProcess`, its start time, `adminRestartCount` | restart with growing delay, give up, kill at shutdown | `AdminProcess` |
| Account health (`providers/provider-pool-manager-db.js`, `dao/provider-dao.js`) | the status of a row, twice: in columns and inside `credentials` | `markProviderUnhealthy`, `...Immediately`, `...WithRecoveryTime`, `markProviderDeleted`, `markProviderHealthy`, two recoveries | `AccountHealth` |
| Account selection (same file, `pool-cache.js`, `utils/provider-strategies.js`) | rows of `providers`, sticky bindings in Redis, caches | `selectProvider`: reads, waits and resets, filters, binding, choice; the handler's retries | `AccountPool` |
| Sharding of accounts (`utils/shard.js`) | none (fnv1a32 modulo `SHARD_COUNT`) | `shardOfUuid`, the filter of the rows | constant `Own` and operator `Visible` of `AccountPool` |
| Token refresh of Codex accounts (`providers/openai/codex-core.js`, `utils/db-lock.js`, `utils/file-lock.js`, `services/oauth-credentials-store.js`) | the row of `oauth_credentials`, a copy per service instance, a Redis lock, a MySQL lock, calls in flight | load, merge calls, lock, reload, post, store, unlock, answer | `CodexRefresh` |
| Token refresh of Kiro accounts (`providers/claude/claude-kiro.js`) | the same row, MySQL lock only | | not modelled, see section 8 |
| Request log queue (`services/request-log-queue.js`, `dao/request-logs-dao.js`, `dao/provider-token-stats-dao.js`) | Redis list, batch and transaction of each process, statistics rows | push, direct insert, pop, insert, commit, roll back, add tokens | `RequestLogQueue` |
| Service adapters and idle sweeper, API keys (`plugins/api-potluck`), proxy pool, Codex replenishment, OAuth flows, xAI registration, converters, upstream clients, configuration caches, statistics, management API, frontend | | | not modelled, see section 8 |

### 1.2 How they interact

- A client connection reaches the **master**, whose dispatcher reads the HTTP header,
  hashes the client's token and pipes the socket to the loopback port of a worker.
- In the **worker**, `handleContentGenerationRequest` asks the pool for an account;
  the pool asks the **limiter** for the account's counter; the handler then takes
  the account's queue lock, increments the counters, and calls the upstream.  These
  are separate awaits, so requests of the same worker interleave between them; in
  Redis mode the requests of other workers do too.
- The **selection** reads the rows the account health code writes, keeps those of the
  worker's shard, and shares the sticky bindings of sessions with all workers
  through Redis.  A failed call comes back to it, without the account that failed.
- An adapter whose token is near its expiry **refreshes** it before the call; all
  workers, and all instances in a worker, share the stored credentials, and the
  authorization server accepts each refresh token once.
- A finished request pushes its **log** to a Redis list that every process empties in
  batches; the statistics are added after a batch was committed.
- The outcome of the call is reported to the **account health** code, in which each
  report reads the row, decides, and writes the row twice.  Reports of all workers,
  usage refreshes and recoveries interleave on one row.
- `OneProcessPerShard` in `Cluster` is what the account code relies on when it
  refreshes and recovers only the accounts of its own shard.
- The **admin process** and the workers are children of the master; their exits are
  events of the master, whatever their reason (crash, restart on demand, shutdown).

### 1.3 What is hard here

1. Check, then act, with awaits in between (user limit, account limit, queue lock).
2. Release by a key that the client may choose (`x-trace-id`, `x-request-id`).
3. Timers that take away what a slow request still uses: the lease of the queue
   lock, the clean-up after 30 minutes, the TTL of the Redis counters.
4. Two-command protocols in Redis (INCR and EXPIRE, DECR and DEL) with races,
   lost connections and crashes between the commands.
5. Exits that are handled alike although they mean different things: crash,
   operator restart, shutdown; timers that fire during a shutdown.
6. A status kept twice and written in two UPDATEs, decided from a row read earlier.
7. Accounts chosen from rows read several awaits ago, after waits of seconds, resets and
   the reading and deletion of a binding others write.
8. One-time tokens: an answer that is lost or not stored is lost for good, and a second
   post of an old token is answered like a dead account.
9. Work taken off a shared list before it is written, and counters updated after the
   commit, in several statements.

`PROJECT.json` lists the hazards, each at its line, with the properties that cover
it, or the reason why none does yet.

### 1.4 What makes each component correct

- Request slots: a counter is exactly the number of requests that hold a slot; the
  queue lock admits one request per account; nothing is left behind when the
  requests are over, also after clean-ups and lapsed leases.
- Shared counters: they never block an account for slots nobody holds, and heal
  after faults.
- Cluster: one process or pending restart per shard; tokens go to the shard of
  their hash; every shard comes back within the budget; no connection hangs; a
  shutdown leaves no worker.
- Admin process: given up only in a crash loop; ends with its master.
- Account health: the two copies of the status agree when nobody is writing; a
  cool-down is always acted on; a deleted account stays deleted.
- Selection: the account given was available during the selection; a refusal, a foreign
  account and a session that moves each have a cause.
- Token refresh: one refresh at a time; the newest token is stored, or about to be, unless a
  fault that can lose it happened; the store never goes back; callers are answered.
- Log queue: each request is logged once, or lost to a fault; the statistics count what
  was logged, and all of it unless a named fault came between; the list is emptied.

## 2. Modules

    AccountLease                              abstract: the queue lock
    LogLedger                                 abstract: the request log
    ShardSupervision                          abstract: the supervision of shards
    RequestSlots     <- MCRequestSlots        RequestSlots_proofs
    SharedSlots      <- MCSharedSlots         SharedSlots_proofs
    Cluster          <- MCCluster             Cluster_proofs
    AdminProcess                              AdminProcess_proofs
    AccountHealth                             AccountHealth_proofs
    AccountPool      <- MCAccountPool         AccountPool_proofs
    CodexRefresh     <- MCCodexRefresh        CodexRefresh_proofs
    RequestLogQueue  <- MCRequestLogQueue     RequestLogQueue_proofs

Each component's module has its CONSTANTS with a named assumption, its variables,
one action per operation or per await of an operation, fairness, and at the end its
properties.  The mutants named by `PROJECT.json` (a plausible bug in one
definition) stand just before the definition they replace, marked *Mutant of*.
MC modules only give values to constants; `_proofs` modules hold the theorems.

### 2.1 RequestSlots

One gateway process with the limiter in memory mode.  `pc[r]` is the await the
handler of request `r` stands at; the variables carry the names of the maps.

| Action | Code |
|---|---|
| `SelectAccount`, `RejectNoAccount` | `selectProvider`: any account whose counter was below the limit when read, or none |
| `CheckUserLimit` | the place of the comparison with the user's limit, before anything is taken |
| `TryLock`, `LockBusy`, `PollAgain`, `QueueTimeout` | `acquireAccountQueueLock` and the loop that polls it |
| `ChargeUser`, `ChargeAccount`, `StartTracking` | the three awaits that count a request |
| `SwitchCredential` | the retry on another account; counters and lock stay with the first one |
| `Finish`, `ReadTracking` ... `Untrack` | `releaseSlots`, one await per step, guided by the tracking entry |
| `LeaseLapse` | the lock's `expiresAt` passes |
| `CleanupStale` | `_cleanupStale`: drops old entries and their counts, not the lock |

Modelling decisions:
- Each request is made once, so the token of the queue lock (a fresh random UUID
  in the code) is represented by the request itself.
- The clean-up runs from a timer.  Without Redis every await of the charging and
  releasing chains resolves at once, so their microtasks finish before the next
  timer callback; `CleanupStale` is therefore enabled only when every request is
  `Settled`, that is, waiting for something real.
- Any subset of entries may be stale (`MayOutliveCleanup`), any lease may lapse
  (`LeaseMayLapse`); a lease whose holder is gone always may.
- The user's limit never reaches the handler: it looks for
  `result.poolConcurrencyConfig`, while `getApiServiceWithFallback` merges the limits
  into the service configuration and returns no such field.  `UserLimitSeen` is
  therefore None (run `slots_user_limit`); the session limit is lost the same way.
- Peaks, recent users, traces and sessions are left out: no decision of this path
  reads them.

`AccountLease` is what the queue lock promises, in three actions: a waiting request is
granted a free account, or refused; a request that holds an account returns it and is
over.  `RequestSlots` implements it under the mapping `HeldAccount`, `Answered`:
a request holds the account it is charged to while it owns the lock, and is answered
when it gave the lock back.  Charging, tracking, credential switches, clean-ups and the
steps of the release are invisible.

### 2.2 SharedSlots

One counter key in Redis, used by several workers.  `count` and `ttl` are the key
(`Absent`, `NoTtl` or ticks left), `INCR`, `DECR`, `DEL`, `EXPIRE` are the commands
with Redis' semantics for missing keys, and each command is a step.  `memory[w]` is
the fall-back counter of worker `w`, used when its connection is down or a command
fails; a failing second command counts in memory *in addition*, as the catch block
does.  `Crash`, `Disconnect`, `Reconnect` and `RestartCluster` are the faults,
bounded by `MaxFaults` and `MaxRestarts`; `torn` counts the faults that struck
between an INCR and its EXPIRE.  `ScanMatches` is the reset at start-up: the pattern
of SCAN is compared with names that carry the client's key prefix.

### 2.3 Cluster

`workers` are the forked processes with the shard and the attempts `workerStats`
holds for them; `timers` are the pending `setTimeout`s of the exit handler; `conn`
is the phase of each TCP connection; `master` is the progress of
`gracefulShutdown`.  `ExitOf` is the exit handler, the same for a crash and the end
of a drain, `ScheduleRestart` its budget test, `NthLive` is
`getLiveShardPorts()[i]`, `Index` is `stickyWorkerIndex` with the round-robin
fall-back, `RestartAll` is `POST /master/restart`, `RestartService` and `OnMessage`
are the two sides of `POST /api/restart-service`.  `home` is history: where each token
was routed last, and whether every worker was there then.
Left out: header bytes, statistics, the imbalance warning, broadcast reloads.

`ShardSupervision` is what the master promises each shard: its process ends and is replaced
later, under an id never used before (`Start`), as long as it has restarts left (`Schedule`);
without any it is given up for good (`GiveUp`); and when the master goes, so does every
pending restart (`MasterGoes`).  `Cluster` implements it under the mapping: the processes
of a shard are the ids of its forked and not yet exited workers, a shard waits while it has
a timer, and what is left to it is the budget less the attempts that worker or timer
carries.  Phases, requested restarts, messages and connections are invisible.

### 2.4 AdminProcess

The exit handler of `forkAdminProcess` and `gracefulShutdown` around it.  Time is
abstracted to `age`, which says whether the present run is longer than 60 s; the
growing delay is a timer that fires some time later.  `shortRuns` is history.  A start may
fail (`unspawned`): `spawn` then gives an 'error', which is logged, and no 'exit', so
nothing starts the admin process again.

### 2.5 AccountHealth

One row and the tasks at work on it.  `Report` reads the row and decides (an
early return is a disabled disjunct), `FirstWrite` is the UPDATE of the columns
(`providerDao.update`, `markUnhealthy`, `markHealthy`, `recoverDeleted`),
`PersistRelayState` is the second UPDATE with both copies.  `FindScheduled` and
`FindUnhealthy` are the queries of the two recoveries, `Recover` the later call of
`markProviderHealthy`, which reads the row again.  `Crash` kills a worker between
the two writes.
Error messages are collapsed into the classes that the recoveries tell apart,
relay states into four: overloaded is a cool-down, invalid authentication and blocked
are unhealthy, since no condition tells these apart.  `Inferred` is `inferRelayState`.  State
and end are independent of each other, as in the code: `markProviderUnhealthy` can write a
cool-down without an end (which the recovery of an empty pool takes as over), the variant
with a recovery time can write an end with any state.  A tick is a minute, the unit of the
error decay.  Left out:
manual disabling, the health checks' own failure path, usage counters.

### 2.6 AccountPool

`selectProvider` in the workers of one channel, one action per await, and around it the
handler's retries.

| Action | Code |
|---|---|
| `Arrive`, `Fail`, `Succeed` | the call of the handler; the retry without the account that failed, without a session id |
| `FindAvailable` | `findAvailable`, the filter by shard with its fall-back (`Visible`), the filter of accounts in cool-down (`Free`) |
| `AutoRecover` | no row at all: the accounts `_autoRecoverUnhealthyProviders` decides to revive |
| `ReadCooldowns` | the second read, for the soonest end of a cool-down |
| `WaitEnds` | the wait of at most 3 s, and the rows of the second read filtered again |
| `MarkProviderHealthy` | the next account of a revival or a reset, one await each |
| `Filter` | the accounts excluded or full |
| `ReadBinding`, `Unbind`, `Choose` | the Redis reads and writes of the sticky binding; the bound account or the strategy's choice |
| `Worsen`, `Improve`, `BindingExpires` | reports and recoveries of other tasks, the TTL of a binding |

Modelling decisions:
- A row is what the selection tells apart: healthy, in a short or a long cool-down,
  out.  Healthy rows with a running cool-down exist: `AccountHealth` shows how
  interleaved reports produce them; `Init` allows any statuses.
- Whether the binding is written is up to the configuration of the first candidate in the
  list (`Sticky`, any candidate of it may be first), not of the account chosen; without
  stickiness `Choose` deletes the binding.
- The bindings are those in Redis.  Without Redis each worker keeps bindings of its own in
  memory, which are left out: selections of two workers then do not meet at all.
- Which accounts are full is any set (`RequestSlots` counts them); the strategy's
  choice is any candidate; models, quotas and channels shrink what is read.
- `near`, `away`, `last` and `alone` are history: what each account was at some
  time of the selection in progress, the account chosen last for an identity, and whether
  selections of one identity overlapped.  The properties need them because the row an
  account was chosen by is gone when it is given.

### 2.7 CodexRefresh

One Codex account, `Callers` of requests, service instances in several processes
(`ProcOf`).  A refresh token is a number; the server accepts `server` alone and answers
with its successor.

| Action | Code |
|---|---|
| `Load`, `Normalise` | `loadCredentials`, and its write-back of a row that lacks fields |
| `Call`, `Dedupe` | `ensureValidCredentials`, or a 401: start, join `refreshInFlight`, or be merged by `withDeduplication` |
| `AcquireRedis`, `AcquireMysql`, `Begin` | `tryAcquireRedisLock`; `withDbLock` when Redis is not available; the token is captured (`oldRefreshToken`) |
| `Reload` | `refreshOperation` up to the post: a rotated or still valid token ends it |
| `Rotate`, `Refuse`, `PostFails` | the answers of the token endpoint |
| `RefreshTokenReused` | the second look at the row, and the verdict that the account is dead |
| `Write`, `WriteTimesOut`, `WriteFails` | `updateCredentialsById` under its MySQL lock |
| `Finish` | `releaseRedisLock`, the answers to own, joined and merged calls |
| `JoinedReads`, `JoinedEnds` | the reload of a call that waited for another |
| `Lapse`, `Crash` | the lock's 15 s, the death of a worker |

`got` is the token in the hands of a refresh: what it captured under the lock and goes on to
post, then the answer.  There is no clock for the access token: a reload finds it valid,
or near its expiry, or is forced, by choice.
`faults` records which kinds of faults happened, `MaxFaults` bounds them; two *surprises*
need no fault and are recorded too: a loading instance that writes an older token back, and
a caller that takes over a row that has changed since.  The properties say what each of
them can cause.  The bound `MaxToken` limits the rotations.

### 2.8 RequestLogQueue

The Redis list, and `processQueue` in each process.  `batch`, `rows`, `owed` and `half`
follow a log from the list into the transaction, and its tokens after the commit into the
row of its model and the row `_total`.

| Action | Code |
|---|---|
| `Push`, `CreateDirectly`, `CountDirectly` | `pushLog`; without Redis `requestLogsDao.create` and its deferred statistics |
| `StartBatch`, `Pop`, `PopFails`, `BatchPopped` | the timer, `popLogs` entry by entry |
| `Insert`, `Commit`, `Rollback` | `batchInsert`; a row that fails is skipped; a COMMIT that throws may have been executed |
| `Deadlock`, `InsertAlone` | a row for which MySQL undoes the transaction, and the rows after it |
| `FlushModel`, `FlushTotal`, `FlushEnds` | `flushTokenStatsUpdates` and `incrementStats` |
| `Disconnect`, `Reconnect`, `Crash` | the connection to Redis, the death of a process |

Each kind of fault happens once at most, `MaxFaults` of them in a behaviour.  Two of them
are MySQL's.  The *answer* of a statement is lost although it was executed: then the
rows are in the table, and the rollback and the skipped statistics do not know it.  A
*deadlock* undoes the whole transaction for one row; the loop skips that row, keeps the tokens
of those before it (`undone`, history), and inserts the rest without a transaction.

`LogLedger` is what the log promises its readers, in three actions: some pending requests
are written, together and once; some are lost, after which `trouble` is on record; the
tokens of some are added to the totals, once and after they were written (or accepted and
taken back by the database: `refused`).  A fault may also write some and lose the others.
`RequestLogQueue` implements it under the mapping: pending is what is still to be logged,
in the list or in the hands of a process, `entries` is the table, `tokens` the row
`_total`, `refused` is `undone`, `trouble` a fault of the kinds that may lose logs.  Pushes, pops and the model's
own row are invisible; a commit writes a whole batch, a rollback or a crash loses it.

## 3. Runs

Twelve runs; those marked *finding* show that the code does not do what one of its
own comments or docs says.

| Run | Instance | What it shows |
|---|---|---|
| `slots_counters` | 3 requests, 2 users, 2 accounts, limits 2 and 1, lock on, 1 switch, leases lapse, clean-up on | Types; every counter equals the requests that hold a slot at every step, whatever the clean-up took away; a running lease is removed by its owner only, also when an owner comes late |
| `slots_drain` | 3 requests, 2 users, 2 accounts of limit 2, 1 switch, clean-up on, requests finish within their lease | `AccountLease` is implemented; an account is used by two requests only after a credential switch; everything is given back and stays so (liveness) |
| `slots_user_limit` | 2 requests of one user, user limit 1, no lock | *finding*: a user at the limit is let through |
| `shared_counter` | 2 workers, 3 requests, limit 2, 2 faults, 1 restart | Without faults the key never overcounts and disappears when idle; whatever fails, a key without expiry counts only requests about to set it, unless a fault struck between INCR and EXPIRE; a full account comes back with the same exception |
| `shared_restart` | 2 workers, 2 requests, 1 restart | *finding*: the reset at start-up finds no key |
| `cluster` | 2 shards, budget 2, 2 crashes, 1 restart of all, 1 request of a restart, 1 shutdown, 1 connection | Types; `ShardSupervision` is implemented: one process per shard after another, within the budget; tokens at home while no worker is missing; shards come back, connections settle, a shutdown leaves no worker |
| `admin_supervision` | `MAX_ADMIN_RESTART` = 10, as in the code | Types; given up only after 10 short runs in a row |
| `account_status` | 2 tasks, 3 reports by minute 2, 1 crash, clock to 4 | Types; the two copies agree outside the windows named in the property; a cool-down ends |
| `account_pool` | 2 requests of one session on workers of the shards {a1, a2} and {a2}, only a2 sticky, and strictly so, 1 retry each, 1 outage, any rows at first | Types; the account given was available at some time of the selection; refusals, foreign accounts and sessions that move have a cause |
| `codex_refresh` | 3 instances in 2 processes, 4 callers, 1 rotation, 1 kind of fault, any number of times | Types; refreshes exclude each other; which faults lose the newest token or the account; the store never goes back; a waiting call is in the hands of a running refresh, and answered; no instance leaves a lock behind |
| `codex_fallback` | 2 instances in 2 processes | *finding*: without Redis the refresh waits for its own lock |
| `log_queue` | 2 processes, 3 logs of 2 models, batches of 2, 2 kinds of faults | Types; `LogLedger` is implemented: logged once, or lost to a fault, and counted once at most; statistics agree with the log unless one of four outcomes named in `Uncounting` came between; the list is emptied |

Further configurations that pass, kept beside the runs.  Each checks an invariant on which
a liveness property or the work of a component rests; all are proved (section 4).

| Configuration (module) | Properties | What holds |
|---|---|---|
| `RequestSlots_idle.cfg` (`MCRequestSlots`) | `NothingHeldWhenIdle` | the safety half of `EventuallyDrained`: when the requests are over no count, entry or lease is left |
| `Cluster_progress.cfg` (`MCCluster`) | `OneProcessPerShard`, `ShardCaredFor`, `OrphansDrain`, `ProxiedToLive` | no shard has two processes or a process and a timer; the safety halves of `ShardsComeBack` and `NoWorkerOutlivesMaster`; a proxied connection has a worker |
| `AccountHealth_reach.cfg` (`AccountHealth`) | `CooldownInReach` | the safety half of `CooldownEnds`: no end, in either copy, in the fall-back between them or still to be written, is further away than the longest delay |
| `AccountPool_progress.cfg` (`MCAccountPool`) | `SelectionGoesOn`, `RetryMovesOn` | no await of a selection is reached without an account to wait for or choose; a retry changes the account |
| `LogLedger_promise.cfg` (`LogLedger`) | `AllAccountedFor` | what a reader of the tables may conclude from the abstract specification |
| `ShardSupervision_promise.cfg` (`ShardSupervision`) | `AllShardsAccounted`, `OneAfterAnother` | what follows from the abstract specification for each shard |

### Bounds, and why they are enough

- *RequestSlots*: the counters' hazards need a request that is charged, one that
  is releasing, and one that reads or takes what the first gives back: three
  requests, two of them with the same user.  Two accounts let a credential switch go
  somewhere.  One poll already gives both ways out of polling; accounts are a symmetry
  set in the run without liveness.
- *SharedSlots*: the race of DECR/DEL with INCR needs two workers; three requests and a
  limit of 2 allow a full account while a third request is on its way.  A TTL of 2
  lets a key expire under a request, and be renewed.  Two faults allow a
  disconnection and a crash in either order.
- *Cluster*: two shards are the least with a choice of worker.  A budget of 2 is reached with two
  crashes; the restart call and the shutdown overlap with both.  One connection
  suffices for settling, since connections do not read each other's state.
- *AdminProcess*: the code's own constant, the state space being small.
  `shortRuns` is bounded because a long row of short runs ends the supervision.
- *AccountPool*: two selections of one identity are the least that overwrite and delete
  each other's binding; the two shards make a2 an account both own and a1 one that is
  foreign to r2; one of the accounts is bound strictly, the other's configuration
  switches stickiness off.  One retry comes back without
  the account that failed and finds the same identity; one outage, at any time and of any account, besides any initial
  rows and any recovery, puts a change between each read and its use.
- *CodexRefresh*: two instances in one process and one in another give both ways
  to exclude (merging, lock); two callers on the last instance make one of them join.
  One rotation separates old token and new; of the kinds of faults one at a time, so
  that each loss is attributed to its cause, and as often as it likes.
- *RequestLogQueue*: two processes race for three logs, so a batch is full, partial or empty;
  two models in a batch give a failure between them.  Two kinds of faults combine, for
  instance a lost connection with a failed direct insert, or a deadlock with the COMMIT that
  fails after it.
- *AccountHealth*: two tasks give every interleaving of two pairs of writes; a
  third report follows up on what two races left; the clock goes beyond the last
  report by the longest delay, so every scheduled time can become due.

`CHECK_DEADLOCK FALSE` stands where the model really may stop: the bounded
environment has struck (shutdown finished, clock at its end), or all requests were
answered (`AccountPool`).  The request slots
keep the deadlock check, with the explicit step `Idle` for a process all of whose
requests were answered.

### Fairness, and why the code justifies it

- The event loop runs every ready continuation: weak fairness of a request's own
  steps, of a task's writes, of the handling of messages, exits and timers.
- Waiting ends: polls stop at `waitTimeoutMs`, every upstream call has a timeout
  (`Finish`), headers have 5 s, a draining worker has 10 s, the master exits by
  force after 5 s.
- Time passes: leases and TTLs expire (`LeaseLapse`, `Tick`).
- In `AccountHealth`, `AnyFindScheduled` is fair because every selection looks for
  due recoveries first; without traffic nobody needs the account.
- In `CodexRefresh`, awaited answers come or fail, and the wait for the MySQL lock ends after
  10 s.  No call waits for a lock to lapse (a lock that is taken is an answer), so `Lapse`
  is not fair.  The post has no time limit of
  its own in the code; that it ends is the assumption that a connection ends.
- In `RequestLogQueue`, the timer of each process fires (`StartBatch`) and each statement is
  answered.
- `AccountPool` has no fairness: its properties are about what a selection may do, and
  its steps wait for nothing but answers.
- Never assumed: that clients come, that a connection to Redis returns, that a crash
  or an operator's call happens.

## 4. What is proved

TLAPS proves the following for every value of the constants that satisfies the
named assumptions, with no bound on requests, workers, accounts or time.

**RequestSlots** (`RequestSlots_proofs`)
- `TypeCorrect`: `Spec => []TypeOK`, by one lemma per group of actions.
- `CountersCorrect`: `UniqueIds => (Spec => []CountersMatchCharges)`.  The count
  equation is not inductive alone: a release must find an entry that still describes its
  own request.  `TrackingInv` adds what entry and local copy hold at each `pc`;
  with it each step adds or removes exactly one request of a charge set, or none, and
  lemmas on cardinality do the rest.  The clean-up maps the stale ids to the requests
  they belong to by an injection, which is where unique ids are needed.
- `LockExcludes`, `LockLimitsCharges`: under `UniqueIds`, the lock and its bound of one
  charge, from `LeaseInv`: with leases that do not lapse, a request in
  a holding state owns the live lease of its account.
- `SharedOnlyAfterSwitch`, also under `UniqueIds`: until its first switch a request runs on the
  account it is charged to (`OnOwnAccount`), so that the lock separates it from the others.
- `LeaseSafety`: the action property, also under `UniqueIds` and with leases that lapse:
  the token a release compares is its own, so a late release finds a successor's
  token and leaves it.
- `LeaseRefinement`: with unique ids, the lock on and leases that do not lapse,
  `Spec => ImplementsAccountLease`: initial states map to the initial state, and each step
  to a grant, a refusal, a return or a stutter.  A grant needs `LeaseInv`: the account whose
  lock was free is held by nobody, because each holder owns a live lease.
- `NothingLeftBehind`: `NothingHeldWhenIdle` under `UniqueIds`, also when leases lapse and the
  clean-up takes entries.  `LeaseOwned` says whose each lease is: of a request that still
  has the step ahead that gives it back, or whose entry the clean-up took.

**SharedSlots** (`SharedSlots_proofs`): `SharedTypeCorrect`, with faults and restarts;
`SharedNeverOvercounts` and `SharedKeyGoneWhenIdle`.  The invariant says that, as long
as nothing failed, every worker is connected, `count` is at most the charged requests, and that a
key at zero or below has a pending DEL (`DelPending`).  The second part
is needed: between DECR and DEL the key exists although nobody is charged.
`SharedExpiryInHand` holds under all faults: a key without a TTL was made by the INCR of a
request that goes on to set it (`WillExpire`), or by a DECR of a key that had
vanished, which leaves it below zero.

**Cluster** (`Cluster_proofs`): `ClusterTypeCorrect`, `OneOwnerPerShard`,
`StickyWhileWhole`.  Processes and timers never share a shard because a timer is
created only by the exit of the process of that shard.  For stickiness, the number
of live workers with a smaller shard is a rank; when all N shards are
there the worker of rank i has shard i (`NthLiveExists`, `NthLiveWhole`), for any N and
any hash.  `NoShardDropped`: until the shutdown a shard has a process or a timer, or its
budget is spent; the attempts a process or timer carries never exceed the crashes and
restart calls so far, which is why an exit that schedules nothing has spent the budget.
`NothingForkedAfterMaster`, `ForwardedToLive`: what the end of a shutdown and the end of a
connection rest on.  `ShardsSupervised` is the refinement of `ShardSupervision`: an exit is a
`Schedule` or a `GiveUp`, a timer a `Start`, the end of the master `MasterGoes`, all else a
stutter; one process per shard makes the mapping (`LeftOf`, `OwnersOf`) well defined.
`ShardsAccountedFor` and `ShardsOneAfterAnother` are proved of the abstract steps alone
(`AccountedStep`) and carried over.

**AdminProcess** (`AdminProcess_proofs`): `AdminTypeCorrect` and `GivenUpInCrashLoop`,
from the invariant that the attempts counted exceed the short runs in a row by one at
most (the first restart after a long run).

**AccountHealth** (`AccountHealth_proofs`): `AccountTypeCorrect`,
`StatusAgreement`.  The copies can differ only after the first write of a task that has
not done the second; the invariant adds what a task may have decided
(`DecisionsCount`: an unhealthy decision counts at least one error), which
is what the exception for errors below the threshold needs.  `CooldownsInReach`: whatever
is torn or overwritten, no recovery is ever postponed beyond the longest delay.  It is about
`RecoverAt`, by which both queries go, with its fall-back from one copy to the other, and
about each task's decision: what a task is about to write was computed from an older clock,
so it is in reach already (`ReachKept`), and stays so whichever copy its crash leaves behind.
The theorem does not say that a cool-down has an end; one without is over as soon as the
recovery of an empty pool looks.

**AccountPool** (`AccountPool_proofs`): `TypeCorrect`, `GivenAvailable`,
`RefusedOnlyForCause`, `ForeignOnlyThen`, `SessionMoves`, for any requests, accounts,
shards and identities.  `Stages` says what each await may rely on: what a
selection holds was near in its course, what its shard has besides was away, full or
excluded, and a foreign candidate is there only after the whole shard was away.  `Bindings`
ties the binding of an identity to the account chosen last: they agree unless a
selection stands between deleting and writing it.  With that, what a selection alone
under its identity read is still true when it chooses.  `NoSelectionStops` and `RetriesMoveOn`:
what a selection filtered stays its own through the awaits that follow, so each await has an
account to go on with, and never the one that has just failed; the handler's branch for
a retry that got the same account (`common.js:1473`) is never taken.

**CodexRefresh** (`CodexRefresh_proofs`): `Typed`, `ProcessRefreshesOnce`, `RefreshesExclude`,
`StoreAdvances`, `NewestKept`, `DeadWhenLost`.  A mutual exclusion of locks that may lapse
cannot carry the last three.  Their ground is `AnswerUnknown`: while an answered token is
not stored, no other copy, read or row is as new, so nobody can rotate it further, and the
write of its holder is never outdated.  `WorkersHoldLock` (a working refresh owns a lock,
or a lapse or a Redis failure was recorded) gives the exclusion, `VerdictFounded` what a
refused post says about the row.  `NobodyForgotten` (from `Hands`: who owns, joined or was
merged with which refresh) says that a waiting call always hangs on a refresh that runs;
`LocksReleased` that no way out of a refresh leaves its lock with the instance.

**RequestLogQueue** (`RequestLogQueue_proofs`): `Typed`, `LoggedOnce`, `LostToFaults`,
`StatsLogged`, `StatsCountAll`.  `OnePlace` says that a log is in at most one of: still to be
logged, the list (once), the hands of one process; it is what two processes popping
the list preserve.  `Written` relates the table to these places, `Counted` the statistics to the
table and to what is still owed, by the position of the update of its model (`half`).
`QueueKeepsLedger` is the refinement of `LogLedger`, one step per action: with `OnePlace` and
`Written` a commit or a direct insert writes pending logs only, and with `Counted` an
update of `_total` adds logs that are written (or `undone`) and not yet counted.  `StatsCountAll`
names its exceptions: a failed update, a crash, a lost answer, a COMMIT that fails after a
deadlock.  `LogsAccountedFor` then
carries what the abstract specification implies over to the queue.

**Only model-checked**: the liveness properties (`EventuallyDrained`,
`FullAccountComesBack`, `ShardsComeBack`, `ConnectionsSettle`,
`NoWorkerOutlivesMaster`, `CooldownEnds`, `EveryCallEnds`, `QueueDrained`), since the
proof system does not handle fairness and ENABLED here.  Where such a property rests on
an invariant (`NothingHeldWhenIdle`, `ExpiryInHand`, `ShardCaredFor`, `OrphansDrain`,
`CooldownInReach`, `CallsInHand`), that half is proved for every value of the
constants; that the step it points at is taken in the end is what TLC adds.

## 5. Where the code differs from what it says

Three divergences have a run each (`findings` in `PROJECT.json` quotes the lines):

1. *User limit* (`slots_user_limit`): the limit of the pool is dropped on its way to the
   handler, so no request is refused for it.
2. *Reset at start-up* (`shared_restart`): SCAN gets the pattern without the key
   prefix and matches nothing.
3. *MySQL fall-back of the token refresh* (`codex_fallback`): the write of the new token
   asks for the MySQL lock the refresh itself holds on another connection, waits 10 s
   instead of the "at most 1 s" of the comment, fails, and the rotated token is lost.

Others are shown by configurations kept beside the runs; TLC reports the property they
name as violated:

| Configuration (module) | Property | What TLC shows |
|---|---|---|
| `RequestSlots_accountlimit.cfg` (`MCRequestSlots`) | `AccountLimit` | the counter is read by the selection and incremented by the handler: two requests take the last slot when the queue lock is off |
| `RequestSlots_sharedid.cfg` (`MCRequestSlots`) | `SlotsFreeWhenIdle` | the id may come from the client; two requests with one id share a tracking entry and the second release finds nothing |
| `Cluster_sticky.cfg` (`MCCluster`) | `StickyUntilWorkerExits` | the modulus is the number of live workers: a crash moves tokens of other workers |
| `AdminProcess_shutdown.cfg` (`AdminProcess`) | `AdminEndsWithMaster` | the admin process is restarted 2 s after the shutdown killed it, and nobody ends it |
| `AccountHealth_undelete.cfg` (`AccountHealth`) | `AutoRecoveryNeverUndeletes` | a recovery decided on an old reading brings back an account deleted for good |
| `RequestLogQueue_requestcount.cfg` (`MCRequestLogQueue`) | `RequestCountCounts` | `request_count` ("请求次数", `sql/provider_token_stats.sql:12`) grows by one for all requests of a model in a batch |
| `CodexRefresh_dead.cfg` (`MCCodexRefresh`) | `DeadMeansLost` | after a lapse of the lock, a token another process is about to store is declared dead |
| `AccountPool_retry.cfg` (`MCAccountPool`) | `RetryIgnoresSticky` | a retry drops the session id, falls back to the session in the user's identity, and is refused for its strict binding to the account that has just failed |

Met while modelling, and described by the models without a configuration of their own:

- A fault between INCR and EXPIRE leaves a key that never expires (`torn` in
  `FullAccountComesBack`); a leaked count is kept alive by every later EXPIRE.
- Operator restarts use up the crash budget, which is never given back
  (`spent` in `ShardsComeBack`).
- A worker asks for its restart under the type `restart_request`, the master knows
  `restart-request`.
- An error below the threshold writes `is_healthy` and clears the recovery time
  of a running cool-down (`BelowThreshold` in `StatusAgrees`).
- Two reports that read the same error count lose an error; the success of a request that
  began before a deletion undoes the deletion.
- The shard's fall-back to all accounts looks at the rows before the filter of
  cool-downs: a request can be refused while its own shard cools, although other shards are
  healthy.  It is refused as well when the second read finds an account that has
  recovered since the first and no short cool-down.
- The reset of a short cool-down marks the account healthy whatever its row has become
  (`MarkProviderHealthy` in `AccountPool`), also one deleted meanwhile.
- `excludeUuids` holds the account that failed last, so retries can alternate between two.
- A loading instance writes an incomplete row back under a lock no refresh takes
  (`overwrite` in `CodexRefresh`): it can put an old refresh token over a new one.
- A batch popped from the list is not pushed back when its transaction fails.
- A COMMIT (or the INSERT of a direct log) that is executed but not answered leaves its rows
  in the log and out of the statistics; rows that MySQL took back for a deadlock are counted
  (`answer`, `undone` in `StatsComplete`).
- A failed start of the admin process is logged and never tried again (`unspawned`).
- Whether a session is bound is decided by the configuration of the first candidate, not
  of the account it gets (`Choose` in `AccountPool`).

## 6. Plan

Done: the core (`RequestSlots`, `SharedSlots`, `Cluster`, `AdminProcess`, `AccountHealth`), then
`AccountLease`, `LogLedger` and `ShardSupervision` with their refinements, `CodexRefresh`,
`RequestLogQueue`, `AccountPool`; all their safety properties are proved.  Left:

1. Composition of `Cluster` with the ownership of accounts: the refreshes of one account
   by the processes of two generations of a shard.
2. `AccountPool` over several pools with model lists and quotas.
3. Kiro's refresh (see section 8), adapters with the idle sweeper, proxy pool.

## 7. Running

    tlc -workers 2 -config RequestSlots_counters.cfg MCRequestSlots
    tlapm RequestSlots_proofs.tla

`PROJECT.json` names the module and the cfg of every run, the lines each definition
models (`map`), the mutants and the theorems.  Every run ends within a
few minutes on two cores; most take seconds.

## 8. Not modelled, and why

- *Token refresh of Kiro accounts*: the shape of `CodexRefresh` with a MySQL lock only and every
  refresh forced; retries of the post and a concurrent `loadCredentials` that puts the old
  access token back are its own.  A later module; `withDbLock` is in `CodexRefresh`.
- *API keys and quotas* (`plugins/api-potluck`): the hook that would charge a key is not
  called by the handler; what runs is CRUD and one counter that each call increments.
- *Service adapters and idle sweeper*: a cache in one process whose entries share no
  state; a swept adapter is created anew from the row (`Load` of `CodexRefresh`).
- *Proxy pool, Codex replenishment*: assignments and single-flight jobs without
  interplay with the modelled parts, except that an account comes or goes.
- *Converters, upstream clients*: stateless mappings of large documents and HTTP
  clients; what they mean for the modelled parts (success, failure class, retry) is an
  input of `RequestSlots`, `AccountPool` and `AccountHealth`.
- *OAuth flows, xAI registration*: one-shot conversations with external
  services and Python processes.
- *Configuration and channel caches*: read-mostly; a stale read changes a
  limit, which the models take as a constant.
- *Statistics, tracing, monitoring*: no decision reads them; the trace id is
  modelled as the request's id.
- *Management API, frontend*: CRUD and a user interface; the calls that report
  on accounts are among `AccountHealth`'s reports.
- Within modelled parts: `stopWorker` of the log queue is called by nobody; ioredis may
  send a command again whose answer was lost, which `SharedSlots` and
  `RequestLogQueue` do not have (lost answers of MySQL are in `RequestLogQueue`); the sticky
  bindings that a worker keeps in memory without Redis.
- What a property names as its exception it records and does not catch: `torn` in
  `SharedSlots` and `AccountHealth`, `spent` and `whole` in `Cluster`, the fault kinds in
  `CodexRefresh` and `RequestLogQueue`, strict bindings and `alone` in `AccountPool`.  And
  the phase of a connection in `Cluster` cannot be left twice, so that
  `ConnectionsSettle` says nothing about a connection settled by two of its three ends.
- *Session limit of an account* (`concurrency-limiter.js`, from line 952): its
  configuration is dropped on the same way as the user's limit.
