# spot-order-grpc: TLA+ specification

Two Go services trade spot orders. The **spot service** keeps markets in PostgreSQL, polls its own
table for changes and announces them on Kafka. The **order service** creates orders, and cancels the
active orders of a market when it hears that the market was disabled or deleted. Redis holds
idempotency keys, rate counters, market block states and caches. This directory models the parts of
that system whose correctness depends on interleavings, failures and retries; TLC checks them on small
instances and TLAPS proves the main safety properties for every value of the constants.

`PROJECT.json` lists the components, the runs, the mutants, the theorems, the hazards and, for every
definition, the source lines it stands for.

## 1. Inventory

| Component | State | Operations | What makes it correct |
|---|---|---|---|
| `CreateOrder` (`order_service.go`, `idempotency_service.go`, `idempotency_store.go`, `order_rate_limiter.go`, `order_store.go`) | idempotency key in Redis, rate counter, `orders` and `outbox` rows, the local state of each request | acquire, recover, rate limit, market check, transaction, rollback, cleanup, complete with retries, restore of an expired key | success names a durable order; order and event are atomic; no duplicate within the TTL; an error leaves no order; a recovery is not older than the attempt it stands for; every call is answered |
| Market compensation (`compensation_service.go`, `inbox_store.go`, `market_block_store.go`) | inbox rows, order rows, status events, block state in Redis | begin, skip, cancel, mark, commit, fail, synchronise | an order is cancelled and announced once; processed is final; Redis follows the commit |
| Kafka consumer (`shared/infrastructure/kafka/consumer`) | session, claimed position, marks, committed offset, dead letter topic | consume, mark, retry, dead letter, stop, panic | no offset passes a message that is not dealt with; every message is dealt with |
| Outbox worker and table (both services) | row status, `retry_count`, `available_at`, lock, batch in memory | save, claim, send, mark published, schedule retry, mark failed, release stuck rows | at-least-once; published and failed are final; failed only after all retries; every row is closed |
| Kafka producer client (`producer/client.go`) | requests in flight, the acknowledgement loop | publish, acknowledge, time out, close | a time-out is not a refusal; nothing is sent into a closed client; close waits for what is in flight |
| Market poller (`market_poller.go`, `market_producer.go`, `cursor_store.go`, `market_store.go`) | market rows, cursor row, cursor in memory, batch | init, list, publish with cursor, refresh caches, restart | no change is skipped; every change is announced |
| Market viewer (`market_viewer.go`, `redis/*.go`) | by-id cache and head page per role | `GetMarketByID`, `ViewMarkets`, warm-up, `InvalidateByIDs`, `RefreshAll` | answers are not older than TTL and timeout; nothing slips through a refresh; paging is complete |
| Market block state (`order_service.go`, `market_block_store.go`) | one key per market, a bounded queue with workers | `validateMarket`, asynchronous synchronisation, compensation, close | the key is true of its time and not turned back; orders of a disabled market end |
| Authentication (`auth_service.go`, `refresh_token_store.go`, `session/store.go`, `jwt`) | refresh keys, session key, current-key pointer | replace (token tool), refresh (validate, rotate), access check | one working refresh token per user; rotation once; a refusal is final |
| Readiness monitor (`readiness_monitor.go`, `health`) | streaks, serving flag, status | first check, probe, shutdown | the status follows the checks and does not flap |
| Application lifecycle (`lifecycle.go`, providers of both services) | fx hooks, goroutines, their contexts | start, failed start, signal, stop, time-out, restart loops | nothing works with what is closed; a stop ends by itself; a clean exit leaves nothing |
| Interceptors, gRPC handlers, mappers, config, metrics, migrations, generated code | none of their own | conversions | not modelled (see section 8) |

Interactions: `CreateOrder` and compensation share `orders` and the block state; both services write
outbox rows in the transaction of the business change; the spot outbox worker publishes
`market.state.changed`, the order service's consumer group reads it; the poller invalidates the cache
that the viewer fills; `CreateOrder` asks the viewer over gRPC; compensation and the block workers write
one Redis key; every goroutine borrows a pool or a client that a lifecycle hook owns.

Hard behaviours: identical requests in parallel; Redis commands that were executed although the client
saw an error; commits whose answer is lost; TTLs that run out while a handler works; rebalances with two
members on one partition; redelivery and reordering; workers that overlap after a timeout; transactions
that commit in another order than their timestamps; lookups that are overtaken by an invalidation;
scripts that run after their caller gave up; keys that Redis evicts one by one; signals and failed starts
at any moment; shutdown in the middle of a batch. `PROJECT.json` has them under `hazards`, each at its line.

## 2. Modules

| Module | Contents |
|---|---|
| `OrderCreation`, `OrderCreationProofs` | `CreateOrder` with its idempotency record |
| `CompensationContract` | abstract specification of compensation: an event is applied once and as a whole |
| `MarketCompensation`, `MarketCompensationProofs` | consumer group, middlewares, inbox, cancellation, block state; implements `CompensationContract` |
| `OutboxContract` | abstract specification of a transactional outbox |
| `OutboxWorker`, `OutboxWorkerProofs` | the worker of either service; implements `OutboxContract` |
| `MarketPoller`, `MarketPollerProofs` | poller, cursor, outbox transaction |
| `MarketViewer`, `MarketViewerProofs` | both caches with their readers and the poller's refresh; pages as operators |
| `MarketBlock`, `MarketBlockProofs` | `CreateOrder` against compensation over one market: block key, queue, validation, cancellation |
| `RefreshTokens`, `RefreshTokensProofs` | refresh tokens and sessions of one user |
| `ServiceLifecycle`, `ServiceLifecycleProofs` | one process of either service: hooks, goroutines, producer client, readiness |
| `MC...` | model values, the functions the configurations use, symmetry sets |

Definitions with the comment "Seeded variant for checking" are not part of a specification: each is a
plausible bug that replaces the definition after it to show that a property would notice it.

### OrderCreation

All requests of the module are the same request (same user, same hash), because only they share a key.
`pc[r]` is the call the handler is about to make; one action per call. The key `idem` has the state of
the JSON entry (`processing`, `completed`), two values this version does not write (`garbled`,
`unknown`), its `started_at` and its expiry. Actions are named after the functions they model: `Acquire`
and `AcquireExisting` are the outcomes of the acquire script, `tryRecoverOrderFromProcessing` the query
for an order of a processing entry, `checkRateLimit`, `validateMarket`, `SaveOrder`,
`ProduceOrderCreated`, `commitTransaction`, `rollbackTransaction`, `failCleanup`, `CompleteIdempotency`,
`RestoreExpiredKey`. Every call may also fail without effect; what else may go wrong is the constant
`Faults`. Time is a logical clock: a call does not outlive its timeout unless `"late"` is in `Faults`.
`acquiredAt` and the `owner` of an entry are history variables.

The market check is one step here: whether a market is available is up to the environment
(`FailBeforeSave` is its refusal). `MarketBlock` has the inside of it.

### MarketCompensation and CompensationContract

One market and one partition, because events are keyed by market. `pc[c]` walks through
`ProcessMarketStateChanged`; `rowLock` and `cancelling` are the locks PostgreSQL keeps until the end of
the transaction, so a second consumer waits at `BeginProcessing` or at `CancelActiveOrdersByMarket` and
then evaluates its `WHERE` again (`StillActive`), as `READ COMMITTED` does. The inbox status
`processing` never survives a transaction and therefore is a lock here, not a status. Around the handler:
retries (`HandlerFails`), the dead letter topic, panics, `ErrStopConsumeClaim`, marking, commits of
offsets by the owner of the partition, and take-over by another member while the old one is still busy.
`Histories` bounds what the partition may come to hold, so that TLC spends its states on the logs of
`Partitions`: the same event twice, two different events that cancel, and a malformed message before an event
that does not cancel.

`CompensationContract` says what all of this promises: an event is applied at most once and as a whole; one
that closes the market cancels at least the orders that were active when it was first published and still
are, and announces each of them; no other event cancels anything. `due` is the history variable with those
orders. The mapping takes `published` from the log and `applied` from the inbox rows in status `processed`.

### OutboxWorker and OutboxContract

One module for both services, whose workers and stores differ in names and topics only. A worker's batch
keeps the retry count each row had when it was claimed. The statements that claim rows use
`SKIP LOCKED` and are atomic. Statements that record a result apply to rows in status `processing` only,
whoever holds them: rows have no owner. `ReleaseStuckEvents` frees the rows that nobody holds any more;
`ReleaseOverrun` frees rows of a worker that is still busy, because its batch has outlived
`processing_timeout` (the configuration allows it: 100 rows with 5 s for the send and 5 s for the record
against 5 min). `failures` and `overrun` (a batch has outlived its time) are history variables. `OutboxContract` says what the table promises: saved, delivered any number of
times, closed once, and closed as published only if delivered. The mapping is `Saved`, `delivered` and
`Outcome`.

### MarketPoller

A change is a transaction with a start (which the trigger writes into `updated_at`) and a commit.
`Serialized` says whether changes commit in the order of their timestamps; a transaction that would
break the order is then not committed. Polls read at most `BatchSize` rows after the cursor, save the
events and the cursor in one transaction and move the cursor in memory. A restart after an error keeps
the cursor in memory, a restarted process loads the saved one. Revisions stand for the contents of a
row. `late` is a history variable: the markets whose last change was, when it committed, not after all
that pollers had read (`Reached`). What the poller does to the caches after the commit is in `MarketViewer`.

### MarketViewer

A key is a market (by-id entry) or a role (head page). A copy of database contents is an entry in Redis,
a load of a request that was read and not yet written (`loads`), or the page `RefreshAll` holds. Each
copy carries its remaining life (`left`), and three history marks: whether the database still says the
same (`fresh`), for how long it has not (`lag`), and whether a poller is still going to deal with it
(`orphan`). `GetMarketByID` and a miss of `ViewMarkets` read (`loadMarket`, `tryLoadHeadPage`) and write back
(`SetMarketByID`, `warmHeadCache`) in separate steps; `refreshCache` invalidates market by market and then refreshes role by role, each
read and each write a step of its own, as in `RefreshAll`, with the branch for an empty store and for
corrupted entries. A change is found by the pollers of a set `found`: by all of them, or, with the fault
`"late"`, not by all, since its transaction committed behind their cursors (`poller_late_commit`), or by none
if the row was removed. Roles, limits, `next_offset` and `has_more` are operators (`GetMarketsPage`,
`buildPageResponse`, `ViewMarkets`) over the list `Ordered`, which stands for `ORDER BY name, id`; `WalkFindsAll`
compares the pages a client collects with the set of the markets it may see. `ValidConfig` is what the validation of the configuration accepts.

### MarketBlock

This module composes what the others leave apart: one market with its versions, the events about them in
any order, the block key with its timestamp script, its two writers (compensation and the workers behind
the bounded queue), and the requests that validate and then save an order. A version is its place in
`history` and its `updated_at` in milliseconds, which two versions may share. `gone[v]` is how long ago
version `v` was replaced; the answers of the spot service may be `Staleness` late, which is what
`StalenessBounded` of `MarketViewer` allows. Requests have deadlines (`left`), one for the handler and one
for the commit, which runs in a context of its own: hence `Window = Staleness + 2 * ServiceTimeout`.

### RefreshTokens

A pair of tokens is a number with its claims. `marker`, `pointer` and `session` are the three keys with
their expiry; both Lua scripts are one step each. `call` walks through `Refresh` (validate, check the
session, sign, rotate, answer) or through the token tool. `Resend` and `late` let a script run again, or
after its call gave up; `Evict` removes one key, as `allkeys-lru` may. A call may fail at every stage, after its script included: its
answer is then lost, to the service or on the way to the client. Signatures are taken to be sound.
`seen` (when a session was last active), `stored` and `unheard` (pairs of calls whose reply or answer was lost)
are history variables.

### ServiceLifecycle

The hooks are numbered in the order fx starts them; `started` and `waiting` are the position of fx. Stopping
runs backwards, a failed start rolls back the hooks that were started. `expired` is the end of the start or stop
context: fx then begins no further hook and the process ends. `Done(g)` is the context of a goroutine.
`sends`, `stray` and `drained` are the producer client: a publish that waits, messages whose publisher has
given up, the acknowledgement loop. `queue` and the hook `BlockWorkers` are the workers of
`OrderService` and their `Close`. `probe` is the readiness monitor with its two streaks; `checks` is a
history variable with the last results. `service` chooses the order service (consumer loop, block
workers) or the spot service (poller loop).

## 3. Runs

| Run | Bounds | Shows |
|---|---|---|
| `order_faults` | 2 requests, all faults, TTL 1, clock to 2 (a key can expire under its owner) | `TypeOK`, `SuccessIsDurable`, `OrderAndEventAtomic`, `RequestAnswered` |
| `order_dedup` | 3 requests, crashes and lost replies, TTL 4 > 3 x service timeout, clock to 6 (a whole TTL passes) | `DedupWithinTTL`, `ErrorMeansNoOrder`, `RecoveryNeverOlder` |
| `order_commit_unknown` | 2 requests, ambiguous commit | violates `DedupWithinTTL` |
| `compensation` | 2 members, 2 messages out of four kinds (disabled, deleted, enabled, malformed), 1 order, 1 retry, 1 disruption | `TypeOK`, `NothingLost`, `BlockFollowsCommit`, `KeepsContract`, `EveryMessageSettled` |
| `outbox_worker` | 2 workers, 2 rows (one of an unsupported type), batches of 1, 1 retry, 2 faults (a crash, a lost claim, a failed statement, a batch that overran) | `TypeOK`, `RetryBound`, `OneWorkerPerRow`, `FailedAfterAllRetries`, `KeepsContract`, `EveryRowClosed` |
| `outbox_retry_limit` | 1 worker, 1 row, no faults | violates `PendingBelowMaxRetries` |
| `poller_cursor` | 2 instances, 2 markets, 2 writers that commit in any order, batches of 1, timestamps to 4, 2 faults | `TypeOK`, `SkippedOnlyIfLate`, `EveryChangeAnnounced` |
| `poller_late_commit` | 1 instance, 2 writers, commits in any order | violates `NoChangeSkipped` |
| `market_viewer` | 1 instance, 2 markets of which 1 exists, 2 changes, TTL 1, timeout 1, limits 1 to 2, every fault, 1 of them | `TypeOK`, `StalenessBounded`, `StaleEntryHasReason`, `WalkFindsAll` |
| `market_block` | 1 request at a time, 1 worker, queue of 1, 2 versions, staleness 1, timeout 1, 1 fault | `TypeOK`, `WrongBlockHasReason`, `NoOrderLeftBehind` |
| `refresh_tokens` | 2 calls, 3 pairs, TTLs 1 and 2, clock to 2, 1 lost reply, 1 eviction | `TypeOK`, `OneUsableToken`, `RotatedOnce`, `RevokedIsDefinitive`, `UsableTokenIsKnown`, `AccessEndsWithSession`, `DeadStaysDead` |
| `service_lifecycle` | either service, 1 call, 1 health stream, queue of 1, thresholds 1 and 2, 1 panic or failed run, 1 abandoned message | `TypeOK`, `NothingUsedAfterClose`, `ExitIsClean`, `StatusFollowsChecks`, `StopsOnItsOwn` |

Why these bounds are enough to be interesting: two identical requests meet in every pair of steps, the
third one finds the key again after a whole TTL; one retry distinguishes the first, the last and a
further attempt; two deliveries of the same or of different events on two members contain every overlap
of two handlers; a batch smaller than the set of rows exercises its boundary, and the migration gives all
markets the same `updated_at`; two changes let one overtake a batch that was read; a head page of one
market and a second market put a page boundary between cache and database; two versions let an old task
or event run after a new one, a new request takes the place of one that ended, and a queue of one is full
at once; three pairs are a rotation and a replacement that meet at the script; thresholds 1 and 2 are
those of `config.yaml`. Where one key or one
market is enough, it is because the code never relates two of them. The theorems of section 5 remove
the bounds for every safety property of the runs. `CHECK_DEADLOCK` is off where bounded time,
changes and deliveries bring a model to rest; `market_block`, in which requests and time go on for ever,
is checked for deadlock.

## 4. Fairness

* `OrderCreation`: weak fairness of each handler. Every call runs under a context with a timeout and
  returns, at worst with an error. A command that the Redis client sends again (`Resend`) is not such a
  step: the client repeats it at most three times.
* `OutboxWorker`: weak fairness of each worker's step (the tickers of `Run` fire again, every statement
  and every send has a timeout) and of the passing of `available_at`. The number of crashes, failed
  statements and batches that overrun is bounded: a worker that fails for ever closes nothing.
* `MarketCompensation`: weak fairness of each member's step (timeouts in the handler, the restart loop of
  `registerKafkaConsumer`), and strong fairness of sending a given message to the dead letter topic: the
  topic does not refuse one message for ever.
* `MarketPoller`: weak fairness of each poller (ticker, timeouts, the restart loop of
  `registerMarketPoller`).
* `ServiceLifecycle`: weak fairness of fx, of the return of a goroutine whose context is done, of the end of
  unary calls (handler timeouts), of the answer of Kafka or of the client's own failure for every message
  in flight, of the acknowledgement loop and of the block workers. Not of the stop context running out, which
  is what `StopsOnItsOwn` must do without, and not of the end of a health stream.

`MarketViewer`, `MarketBlock` and `RefreshTokens` state safety only: time passes with `Tick`, which waits for
the deadlines of the calls under way.

## 5. Proofs

All theorems are checked by TLAPS for every value of the constants that satisfies the named
assumptions of the modules.

* **OrderCreationProofs.** `TypeCorrect`. `SuccessDurable` and `OrderEventAtomic` hold under every fault;
  they follow from `DurableInv`, which adds what a handler is about to answer, and that an open
  transaction holds the order before the event. `NoDuplicateWithinTTL`, `ErrorLeavesNoOrder` and
  `RecoveryIsCurrent` assume `SafeFaults` (crashes and lost Redis replies, no ambiguous commit, no
  stalls) and `TTLCoversHandler`: three service timeouts and the cleanup timeout fit in the TTL. They
  follow from `DedupInv`: how long after its acquisition a request can be in each phase (`TimingInv`),
  that the key of a holder exists until its TTL is over (`KeyInv`), that no other request acquires it
  in that time (`ApartInv`), and how `started_at` and `created_at` relate to acquisitions
  (`RecoveryInv`). From the same invariant follow `CleanupFreesOwnKey` (with `OwnerInv`: while an acquisition is
  younger than the TTL the entry is the holder's own or one that was restored over it, so that the `DEL`
  without an owner meets nobody else's) and `RepeatedAnswersAgree` (two successful answers name one order, or
  orders a TTL apart). With the values of `config.yaml` (5 s, 300 ms, 1 min) the assumption holds; the
  validation of the configuration does not check it.
* **MarketCompensationProofs.** `CompensationTypeCorrect`; `CompensationKeepsContract`, the refinement of
  `CompensationContract`, from `DueInv`: a transaction owns the open row of its event (`TransactionInv`), and
  the orders due to the event that are still active are among those its `SELECT` matched and its `UPDATE` took. That
  survives another member's commit, because such a commit only makes orders inactive, and a re-evaluated
  `WHERE` drops exactly those. Every commit is then one `Apply`, and every other step but the first publication
  of an event and a new order changes nothing the contract sees. `CancelledOnce` from `RowsInv` (rows that an
  open transaction changed are still active for everybody else and in no other transaction);
  `ProcessedForEver`, an action property; `BlockIsCommitted` from `SyncInv`; `NoMessageLost`, which
  assumes `DLQEnabled`, from `DeliveryInv` (a member is ahead of its marks only in an ending session, and
  then never reaches a mark).
* **OutboxWorkerProofs.** `OutboxTypeCorrect`; `WorkersKeepContract`, the refinement of
  `OutboxContract`, from `SavedInv`; `RowsAreOwned`, as long as no batch has overrun;
  `RetriesAreBounded` and `GivenUpAfterAllRetries` whether or not batches overrun, both by counting. For the first,
  `OpenRowsInv`: once an open row is at `max_retries`, its count plus the workers that still hold a claim from
  below the limit (`Stale`) stays below `max_retries` plus the number of workers, because a new claim is no longer
  stale and every count uses one stale claim up. For the second, `CountInv`: a row's retries plus the workers about
  to record a failure never exceed the failed sends.
* **MarketPollerProofs.** `PollerTypeCorrect`; `OnlyLateChangesSkipped` without any assumption on the order
  of commits, from `LateInv`: a change that is not late and not announced is ahead of every cursor, and in every
  batch or after all of it; so saving a batch with its cursor passes nothing over. `NothingSkipped`, which assumes
  `Serialized`, is its corollary: cursors and batches are then never ahead of all rows (`SerialInv`), a commit comes
  after everything that was read, and nothing is late. The two together say that the late commit of section 6
  is the only way the poller loses a change.
* **MarketViewerProofs.** `TypeCorrect` and `AnswersAreRecent` from `Shapes`, `PhasesOK` and `AgeInv`: the age
  of a copy and the time it has left never exceed the life of its kind (`ServiceTimeout + 1` for a load,
  `CacheTTL + ServiceTimeout` for an entry), and writing a load in time turns the one into the other
  (`EntrySound`). `EveryStaleEntryHasReason` adds `LeftOK`: what is outdated and not an orphan (written
  by an overtaken load, left by a failure, or of a change that no poller can find) is among the keys a poller still
  has before it, role by role in the order of `cacheRoleKeys`. `WalkIsComplete` is about the
  operators of paging: the n-th element of `Ordered(S)` is the market with n - 1 markets before it (`OrderedIsOrder`),
  every page, from the database or cut out of the head page, is a slice of that list that starts where the one
  before it ended (`ResponseIsSlice`, `SlicesJoin`), so what a client collects is always a slice from the first
  market on, and it stops at the end of the list. The walk is a recursive function; what it collects is proved by
  the smallest counterexample (`LeastNat`, from the well-foundedness of the numbers) instead of by an
  induction theorem. `Ordered` defines the list by the places of its elements, since the provers cannot look
  into the sorting operators of the library.
* **MarketBlockProofs.** `TypeCorrect`, `KeySaysWhatWas`, `KeyFallsBehindForAReason`, `OrdersComeInTime`,
  `LateCancellationIsComplete`. The invariant says that tasks and keys are true of the version they name, that
  the key is at least as new as the current version once its event is synchronised (`SyncedOrMissed`), and how
  the deadline of a request and the age of what it saw add up (`Deadlines`), which bounds orders by `Window` and
  leaves none after a late cancellation.
* **RefreshTokensProofs.** Eight theorems from one invariant. Its core is `Chain`: in the session that Redis
  has last written, no refresh key is left but the one the pointer names, whether or not the keys themselves
  are still there. That is why a rotation that accepts a missing pointer is harmless. `Ownership` says whose
  pair is whose while scripts are under way or late, `Lifetimes` and `Sightings` relate the clocks, `Delivery`
  (a stored pair is held, on its way or unheard) and `Refusals` the answers.
* **ServiceLifecycleProofs.** `CloseIsLast`, `CleanExit`, `StatusIsCurrent`, `StatusDoesNotFlap`, for any number
  of calls and streams, any queue and any thresholds, from `FxInv` (what is closed lies above the position of fx),
  `UseInv` (a goroutine outlives its hook only after the stop context ended, after which nothing more is
  closed) and `StreakInv` (streaks count exactly the newest equal results).

Some properties are proved and in no run, because another property of the run stands in for them on a small
instance: `CancelNotifiedOnce` and `ProcessedIsFinal` (parts of what `KeepsContract` says), `CleanupSparesOthers` and
`AnswersAgree`, `BlockIsTrue`, `OrderWithinWindow`, `KeptForItsLife` and `StatusNeedsEvidence`.

Only model-checked: the liveness properties `RequestAnswered`, `EveryMessageSettled`, `EveryRowClosed`,
`EveryChangeAnnounced` and `StopsOnItsOwn` (fairness is out of the prover's reach), and what the violation runs
show.

## 6. Where code and documentation disagree

1. **Ambiguous commit** (`order_commit_unknown`). An error of `Commit` is taken as "no order":
   the key is deleted and a retry within the TTL creates a second order.
2. **Late commits** (`poller_late_commit`). `updated_at` is the start of the transaction, the cursor
   follows commits. `SkippedOnlyIfLate` shows that this is the only way to lose a change. The caches then keep the
   old market for the rest of its TTL, and `StalenessBounded` still holds.
3. **Retry limit** (`outbox_retry_limit`). `docs.md:663-666` increments `retry_count` and then fails the row that
   has reached `max_retries`; `handleSendError` compares before the increment, as its own comment says, so a row
   is sent `max_retries + 1` times and is pending once with `retry_count = max_retries`. `FailedAfterAllRetries`
   and `RetryBound` state what the code does.

## 7. Observations that are not violations

* A Redis `DEL` of `failCleanup` that the client library repeats after a lost reply can delete the key of
  another request (`"resend"` in `Faults`); the duplicate theorem excludes it.
* Retry count of the claim: if a batch takes longer than `processing_timeout`, several workers count failures
  of one row by the counts they claimed, and `retry_count` can pass `max_retries + 1`. `RetryBound` says by how much:
  it ends at `max_retries` plus the number of workers at most, and two workers reach that.
* A client that reads `ErrTokenRevoked` may have lost its token to its own call: a rotate script that the Redis
  client repeats after a lost reply finds the old token gone and answers 0. `RevokedIsDefinitive` holds, since the
  token does not work, and `UsableTokenIsKnown` says that only the pair of such an unheard call is lost.
* A request that recovers an order late can complete the key over a newer attempt; the answer it stores
  is still durable (`SuccessIsDurable`).
* Documentation of the risk of an inbox row that stays `processing` does not apply: the status is never
  committed.
* Block states carry milliseconds; two changes within one are ordered by arrival.
* An event that disables a market and arrives after the one that enabled it again still cancels orders
  (`compensation_service.go:179`): the handler does not compare `updated_at` with what it has already seen.
* Without a dead letter topic (`dlq_enabled: false`) `ErrStopConsumeClaim` does not stop the claim
  (`group_handler.go:168`): a malformed next message is marked and the interrupted one is lost to the group,
  against `docs.md:39`. With the topic nothing is marked in an ending session; `NoMessageLost` therefore
  assumes `DLQEnabled`.
* A lookup that reads before a change and writes after `InvalidateByIDs` puts the old market back
  (`market_viewer.go:355`, compare `docs.md:725`); `StaleEntryHasReason` lists it among the causes and
  `StalenessBounded` shows that it does not stay longer than the TTL.
* The block key does not decide: `validateMarket` asks the spot service whatever Redis says and trusts the
  answer, so a blocked market is not refused earlier, as `README.md:248` and `README.md:402` suggest. It is also
  why a key that is behind refuses nobody wrongly.
* An order can be committed after the cancellation of its disabled market, if its request was validated before
  the change: `OrderWithinWindow` bounds by how much, and only an event that is processed later than that leaves
  no active order (`NoOrderLeftBehind`). Nothing repeats the cancellation.
* `docs.md:375` says that a rotation needs the pointer to name the presented token; the script also accepts a
  missing pointer. `OneUsableToken` and `DeadStaysDead` hold all the same.
* `docs.md:295` says that watchers of the health service get NOT_SERVING when a stop begins. The readiness
  hook stops after the gRPC server: an open `Watch` stream keeps `GracefulStop` waiting until the stop context
  ends, fx then begins no other hook, and the producer and the workers are not stopped in order. Without watchers
  the status changes when the server has already stopped. `StopsOnItsOwn` names the exception.

## 8. Not modelled

gRPC handlers, mappers and generated code convert data. Interceptors other than the access check keep no
state of their own. The circuit breaker of the spot client is a library: its states only decide when a call
fails, which `MarketBlock` leaves open. `GetOrderStatus` reads one row. Configuration is static; the
relations between its values that matter are assumptions (`ValidConfig`, `TokenAssumption`,
`TTLCoversHandler`), and the remaining range checks and the loading of files are left out. Logging, metrics
and tracing have no influence on the state. PostgreSQL, Redis, Kafka, fx and their client libraries are
modelled only by what this code can see of them. The trimming of dead letter messages is data.

Two simplifications to know of. In `MarketBlock` a `COMMIT` takes effect within the deadline of its context, whether
or not the client hears of it; one that PostgreSQL finishes after the client's deadline has passed would save an order
later than `Window`. The token tool has lifetimes of its own (5 min and 10 min); `RefreshTokens` gives the pairs of
the tool and of the service the same pair of lifetimes, with an assumption that both satisfy (the access token ends
first).

## 9. What is left

1. The pipeline poller - outbox - topic - compensation as one composition: the active orders of a disabled
   market are cancelled in the end. `OutboxContract` and `CompensationContract` are the interfaces of its two
   halves, `SkippedOnlyIfLate` says what enters it.
2. A contract for refresh tokens (one chain of rotations per session) that `RefreshTokens` implements.
3. More than one request at a time in `market_block`; the theorems cover any number, TLC one.
