---------------------------- MODULE MarketBlock ----------------------------
(***************************************************************************)
(* How the order service decides whether a market can be traded, seen for  *)
(* one market: validateMarket and saveOrder of CreateOrder, the key        *)
(* market:block:<id> in Redis, its two writers (compensation after its     *)
(* commit, and the block workers behind a bounded queue), and the          *)
(* cancellation of active orders.  MarketCompensation has the inside of    *)
(* the consumer, OrderCreation the inside of CreateOrder, and MarketViewer *)
(* the caches that make answers of the spot service late.                  *)
(*                                                                         *)
(* A version of the market is its place in history.  Its updated_at goes   *)
(* to Redis in milliseconds, so that two versions may share a time.        *)
(***************************************************************************)
EXTENDS Integers, Sequences, SequencesExt

CONSTANTS
    Requests,        \* CreateOrder calls for the market at the same time
    Workers,         \* marketBlockWorkers
    QueueSize,       \* marketBlockQueueSize
    Staleness,       \* how old an answer of the spot service can be
    ServiceTimeout,  \* timeouts.service
    NoTask,          \* a worker that waits at the queue
    MaxVersions,     \* bound on versions of the market
    MaxFaults        \* bound on faults

ASSUME BlockAssumption ==
    /\ QueueSize \in Nat \ {0}
    /\ Staleness \in Nat
    /\ ServiceTimeout \in Nat \ {0}
    /\ MaxVersions \in Nat \ {0} /\ MaxFaults \in Nat
    /\ NoTask \notin [of : 1 .. MaxVersions, blocked : BOOLEAN]

Status == {"enabled", "disabled", "deleted"}

\* The roles of a caller, by what the spot service shows them.
Roles == {"admin", "viewer", "user"}

\* An order is saved at most this long after its version of the market ended:
\* the answer was late, and so were the request and its commit.
Window == Staleness + 2 * ServiceTimeout

VARIABLES
    history,    \* versions of the row: status and updated_at in milliseconds
    gone,       \* for each version, how long ago another one replaced it
    announced,  \* versions with an event in Kafka
    processed,  \* versions whose event the inbox has as processed
    resync,     \* versions whose trySynchronizeMarketBlockState is to come
    block,      \* the key in Redis
    queue, closed, \* marketBlockQueue and marketBlockClosed
    worker,     \* what each worker has taken from the queue
    phase,      \* where each request is, and whether its order is active
    blocked,    \* what each request read in Redis
    saw,        \* the version on which each request was validated
    left,       \* time to the deadline of each request
    missed,     \* the block key lost the current version, or never got it
    settled,    \* the orders were cancelled when no request could know an older version
    faults      \* faults so far

marketVars == <<history, gone, announced>>
eventVars == <<processed, resync, settled>>
queueVars == <<queue, closed, worker>>
requestVars == <<phase, blocked, saw, left>>
vars == <<marketVars, eventVars, block, queueVars, requestVars, missed, faults>>

Current == Len(history)

\* blocked := !event.Enabled || event.DeletedAt != nil.
Blocked(v) == history[v].status # "enabled"

Waiting == {"calling", "validated", "committing"}

\* What the key holds: ms is -1 if the timestamp cannot be parsed, flag "?" if
\* only the flag cannot; of is the version it was written for.
NoBlock == [ms |-> -1, flag |-> "none", of |-> 0]
BlockOf(v, isBlocked) == [ms |-> history[v].ms, flag |-> IF isBlocked THEN "1" ELSE "0", of |-> v]

Readable(b) == b.flag \in {"1", "0"} /\ b.ms # -1

Init ==
    /\ \E status \in Status : history = <<[status |-> status, ms |-> 0]>>
    /\ gone = <<0>>
    /\ announced = {} /\ processed = {} /\ resync = {}
    /\ block = NoBlock
    /\ queue = << >> /\ closed = FALSE
    /\ worker = [w \in Workers |-> NoTask]
    /\ phase = [r \in Requests |-> "idle"]
    /\ blocked = [r \in Requests |-> FALSE]
    /\ saw = [r \in Requests |-> 0]
    /\ left = [r \in Requests |-> 0]
    /\ missed = FALSE /\ settled = FALSE /\ faults = 0

Fault == faults < MaxFaults /\ faults' = faults + 1

-----------------------------------------------------------------------------
(* The spot service and time.                                              *)

\* The row is written, perhaps in the same millisecond as before.
ChangeMarket(status, later) ==
    /\ Current < MaxVersions /\ status # history[Current].status
    /\ history' = Append(history, [status |-> status, ms |-> history[Current].ms + later])
    /\ gone' = Append(gone, 0)
    /\ missed' = FALSE /\ settled' = FALSE
    /\ UNCHANGED <<announced, processed, resync, block, queueVars, requestVars, faults>>

\* The poller announces the row as it is.
Announce ==
    /\ Current \notin announced
    /\ announced' = announced \cup {Current}
    /\ UNCHANGED <<history, gone, eventVars, block, queueVars, requestVars, missed, faults>>

\* Time passes; a request that has come to its deadline ends before that.
Tick ==
    /\ \A r \in Requests : phase[r] \in Waiting => left[r] > 0
    /\ gone' = [v \in 1 .. Current |-> IF v < Current /\ gone[v] <= Window THEN gone[v] + 1 ELSE gone[v]]
    /\ left' = [r \in Requests |-> IF phase[r] \in Waiting THEN left[r] - 1 ELSE left[r]]
    /\ UNCHANGED <<history, announced, eventVars, block, queueVars, phase, blocked, saw, missed, faults>>

\* What GetMarketByID gives a caller of that role: validateMarketAccess at the
\* spot service, its error code, and mapGetMarketByIDError.
Answer(role, status) ==
    CASE role # "admin" /\ status = "deleted" -> "not_found"
      [] role = "user" /\ status = "disabled" -> "disabled"
      [] OTHER -> "market"

-----------------------------------------------------------------------------
(* The block key.                                                          *)

\* Seeded variant for checking: the script writes without a comparison.
OverwriteScript(b, v, isBlocked) ==
    IF b # NoBlock /\ b.ms = -1 THEN NoBlock ELSE BlockOf(v, isBlocked)

\* synchronizeStateScript: no key, or one that is not newer, is overwritten.
\* One without a timestamp is an error, after which SynchronizeState deletes it.
synchronizeStateScript(b, v, isBlocked) ==
    CASE b = NoBlock -> BlockOf(v, isBlocked)
      [] b # NoBlock /\ b.ms = -1 -> NoBlock
      [] b # NoBlock /\ b.ms # -1 -> IF history[v].ms < b.ms THEN b ELSE BlockOf(v, isBlocked)

\* A run of the script, or one that fails: the update is not repeated.
SynchronizeState(v, isBlocked) ==
    /\ \/ block' = synchronizeStateScript(block, v, isBlocked) /\ UNCHANGED faults
       \/ Fault /\ UNCHANGED block
    /\ missed' = IF v = Current THEN block'.ms # history[v].ms ELSE missed

Forget == block' = NoBlock /\ missed' = TRUE

\* The key expires, or is deleted by someone who found it unreadable before it
\* was written again.
Expire ==
    /\ block # NoBlock
    /\ Forget
    /\ UNCHANGED <<marketVars, eventVars, queueVars, requestVars, faults>>

\* Something else writes under the key.
Corrupt ==
    /\ Readable(block) /\ Fault
    /\ \/ block' = [block EXCEPT !.flag = "?"]
       \/ block' = [block EXCEPT !.ms = -1]
    /\ missed' = TRUE
    /\ UNCHANGED <<marketVars, eventVars, queueVars, requestVars>>

-----------------------------------------------------------------------------
(* Compensation.                                                           *)

\* ProcessMarketStateChanged for an event that Kafka delivers, for the first
\* time or again, in any order.  CancelActiveOrdersByMarket sees the orders that
\* are committed.  A duplicate is only synchronized again.
ProcessMarketStateChanged(v) ==
    /\ v \in announced
    /\ processed' = processed \cup {v}
    /\ resync' = resync \cup {v}
    /\ IF v \in processed \/ ~Blocked(v)
       THEN UNCHANGED <<phase, settled>>
       ELSE /\ phase' = [r \in Requests |-> IF phase[r] = "active" THEN "idle" ELSE phase[r]]
            /\ settled' = (settled \/ (v = Current /\ \A u \in 1 .. v - 1 : gone[u] > Window))
    /\ UNCHANGED <<marketVars, block, queueVars, blocked, saw, left, missed, faults>>

\* After the commit; an error is logged only.
trySynchronizeMarketBlockState(v) ==
    /\ v \in resync
    /\ resync' = resync \ {v}
    /\ SynchronizeState(v, Blocked(v))
    /\ UNCHANGED <<marketVars, processed, settled, queueVars, requestVars>>

-----------------------------------------------------------------------------
(* The block workers.                                                      *)

\* Seeded variant for checking: a full queue takes the task.
SendAlways(v, isBlocked) ==
    queue' = IF closed THEN queue ELSE Append(queue, [of |-> v, blocked |-> isBlocked])

\* synchronizeMarketBlockAsync: nothing is sent after Close, and a full queue
\* drops the task.
synchronizeMarketBlockAsync(v, isBlocked) ==
    queue' = IF closed \/ Len(queue) = QueueSize THEN queue
             ELSE Append(queue, [of |-> v, blocked |-> isBlocked])

\* A worker takes the next task.
TakeTask(w) ==
    /\ worker[w] = NoTask /\ queue # << >>
    /\ worker' = [worker EXCEPT ![w] = Head(queue)]
    /\ queue' = Tail(queue)
    /\ UNCHANGED <<marketVars, eventVars, block, closed, requestVars, missed, faults>>

\* synchronizeMarketBlock; an error or a panic is logged only.
RunTask(w) ==
    /\ worker[w] # NoTask
    /\ worker' = [worker EXCEPT ![w] = NoTask]
    /\ SynchronizeState(worker[w].of, worker[w].blocked)
    /\ UNCHANGED <<marketVars, eventVars, queue, closed, requestVars>>

\* Close: the queue is closed once, and the workers empty it.
Close ==
    /\ ~closed /\ closed' = TRUE
    /\ UNCHANGED <<marketVars, eventVars, block, queue, worker, requestVars, missed, faults>>

-----------------------------------------------------------------------------
(* CreateOrder.                                                            *)

\* getMarketBlockedState: no key, an unreadable one and an error of Redis all
\* mean "not blocked"; the unreadable key is deleted, unless that fails.
getMarketBlockedState(r) ==
    /\ phase[r] = "idle"
    /\ phase' = [phase EXCEPT ![r] = "calling"]
    /\ left' = [left EXCEPT ![r] = ServiceTimeout]
    /\ \/ /\ blocked' = [blocked EXCEPT ![r] = block.flag = "1" /\ block.ms # -1]
          /\ IF block = NoBlock \/ Readable(block) THEN UNCHANGED <<block, missed>> ELSE Forget
          /\ UNCHANGED faults
       \/ /\ Fault
          /\ blocked' = [blocked EXCEPT ![r] = FALSE]
          /\ UNCHANGED <<block, missed>>
    /\ UNCHANGED <<marketVars, eventVars, queueVars, saw>>

\* The request ends; another one may take its place when no order is active.
EndRequest(r, end) ==
    /\ phase' = [phase EXCEPT ![r] = end]
    /\ blocked' = [blocked EXCEPT ![r] = FALSE]
    /\ saw' = [saw EXCEPT ![r] = 0]
    /\ left' = [left EXCEPT ![r] = 0]

\* Seeded variant for checking: the spot service is asked only if Redis says
\* that the market is blocked.
ValidateIfBlocked(r, v, role) ==
    /\ phase[r] = "calling" /\ v = Current
    /\ IF blocked[r] /\ Blocked(v) THEN EndRequest(r, "idle")
       ELSE /\ phase' = [phase EXCEPT ![r] = "validated"]
            /\ saw' = [saw EXCEPT ![r] = v]
            /\ UNCHANGED <<blocked, left>>
    /\ UNCHANGED <<marketVars, eventVars, block, queueVars, missed, faults>>

\* The rest of validateMarket, with the answer that the spot service gives from
\* its cache or its database.  Whatever Redis said, this answer decides.
validateMarket(r, v, role) ==
    /\ phase[r] = "calling" /\ gone[v] <= Staleness
    /\ \/ /\ Answer(role, history[v].status) # "market"
          /\ EndRequest(r, "idle") /\ UNCHANGED queue
       \/ /\ Answer(role, history[v].status) = "market" /\ Blocked(v)
          /\ EndRequest(r, "idle") /\ synchronizeMarketBlockAsync(v, TRUE)
       \/ /\ Answer(role, history[v].status) = "market" /\ ~Blocked(v)
          /\ phase' = [phase EXCEPT ![r] = "validated"]
          /\ saw' = [saw EXCEPT ![r] = v]
          /\ IF blocked[r] THEN synchronizeMarketBlockAsync(v, FALSE) ELSE UNCHANGED queue
          /\ UNCHANGED <<blocked, left>>
    /\ UNCHANGED <<marketVars, eventVars, block, closed, worker, missed, faults>>

\* SaveOrder and ProduceOrderCreated inside the transaction; commitTransaction
\* then has a deadline of its own.
saveOrder(r) ==
    /\ phase[r] = "validated"
    /\ phase' = [phase EXCEPT ![r] = "committing"]
    /\ left' = [left EXCEPT ![r] = ServiceTimeout]
    /\ UNCHANGED <<marketVars, eventVars, block, queueVars, blocked, saw, missed, faults>>

\* The order is there for others, whether or not the client hears of it.
commitTransaction(r) ==
    /\ phase[r] = "committing"
    /\ EndRequest(r, "active")
    /\ UNCHANGED <<marketVars, eventVars, block, queueVars, missed, faults>>

\* A deadline, an error of the spot service (ErrUnavailable, an open breaker)
\* or of PostgreSQL: the client gets an error and nothing is saved.
FailRequest(r) ==
    /\ phase[r] \in Waiting
    /\ EndRequest(r, "idle")
    /\ UNCHANGED <<marketVars, eventVars, block, queueVars, missed, faults>>

Next ==
    \/ \E status \in Status, later \in {0, 1} : ChangeMarket(status, later)
    \/ Announce \/ Tick \/ Expire \/ Corrupt \/ Close
    \/ \E v \in 1 .. Current : ProcessMarketStateChanged(v) \/ trySynchronizeMarketBlockState(v)
    \/ \E w \in Workers : TakeTask(w) \/ RunTask(w)
    \/ \E r \in Requests :
          \/ getMarketBlockedState(r)
          \/ \E v \in 1 .. Current, role \in Roles : validateMarket(r, v, role)
          \/ saveOrder(r) \/ commitTransaction(r) \/ FailRequest(r)

Spec == Init /\ [][Next]_vars

-----------------------------------------------------------------------------
(* Properties.                                                             *)

Task == [of : 1 .. MaxVersions, blocked : BOOLEAN]

\* Types of all variables.
TypeOK ==
    /\ history \in Seq([status : Status, ms : Nat]) /\ Current \in 1 .. MaxVersions
    /\ gone \in [1 .. Current -> 0 .. Window + 1]
    /\ announced \subseteq 1 .. Current /\ processed \subseteq announced /\ resync \subseteq processed
    /\ block \in [ms : Nat \cup {-1}, flag : {"1", "0", "?", "none"}, of : 0 .. Current]
    /\ queue \in Seq(Task) /\ Len(queue) <= QueueSize
    /\ worker \in [Workers -> Task \cup {NoTask}]
    /\ closed \in BOOLEAN /\ missed \in BOOLEAN /\ settled \in BOOLEAN
    /\ phase \in [Requests -> {"idle", "active"} \cup Waiting]
    /\ blocked \in [Requests -> BOOLEAN]
    /\ saw \in [Requests -> 0 .. Current]
    /\ left \in [Requests -> Nat]
    /\ faults \in 0 .. MaxFaults

\* Whoever wrote it, and however late and out of order its writers ran: a
\* readable key says what the market was in a version of that millisecond.
BlockIsTrue ==
    Readable(block) =>
        \E v \in 1 .. Current : history[v].ms = block.ms /\ (Blocked(v) <=> block.flag = "1")

\* A readable key that contradicts the market is behind an event that has not
\* come yet, or was lost to a fault, an expiry or a corruption, or it has the
\* millisecond of the current version.  Late workers and redelivered events
\* do not bring an old state back while the key lives.
WrongBlockHasReason ==
    Readable(block) /\ ~(block.flag = "1" <=> Blocked(Current)) =>
        \/ Current \notin processed \/ Current \in resync
        \/ missed
        \/ block.ms = history[Current].ms

\* An order becomes active no later than Window after the end of the version
\* that validated it: the caches of the spot service, the request and its
\* commit are all bounded.
OrderWithinWindow ==
    \A r \in Requests : phase[r] = "committing" => gone[saw[r]] + left[r] <= Window

\* When the event of a disabled market is processed after that time, no order
\* is active, and none becomes active, until the market changes.
NoOrderLeftBehind ==
    settled => \A r \in Requests : phase[r] # "active"

-----------------------------------------------------------------------------
(* Inductive strengthening.                                                *)

\* Tasks say what their version of the market was.
IsTrueTask(task) == task.of \in 1 .. Current /\ (task.blocked <=> Blocked(task.of))
TasksAreTrue ==
    /\ \A n \in 1 .. Len(queue) : IsTrueTask(queue[n])
    /\ \A w \in Workers : worker[w] # NoTask => IsTrueTask(worker[w])

\* The key, as far as it can be read, says what its version of the market was.
KeyIsTrue ==
    block # NoBlock =>
        /\ block.of \in 1 .. Current
        /\ block.ms # -1 => block.ms = history[block.of].ms
        /\ block.flag # "?" => block.flag = (IF Blocked(block.of) THEN "1" ELSE "0")

\* updated_at does not go back.
TimesInOrder == \A u, v \in 1 .. Current : u <= v => history[u].ms <= history[v].ms

\* Once its event is processed, the key has the time of the current version.
SyncedOrMissed ==
    Current \in processed /\ Current \notin resync /\ ~missed => block.ms = history[Current].ms

\* How much older than now the version can be that validated a request.
Deadlines ==
    \A r \in Requests :
        /\ phase[r] \in {"calling", "validated"} => left[r] <= ServiceTimeout
        /\ phase[r] \in {"validated", "committing"} => saw[r] \in 1 .. Current /\ ~Blocked(saw[r])
        /\ phase[r] = "validated" => gone[saw[r]] + left[r] <= Staleness + ServiceTimeout
        /\ phase[r] = "committing" => gone[saw[r]] + left[r] <= Window

\* What was true when the orders of a blocked market were cancelled late.
SettledOK ==
    settled => /\ Blocked(Current)
               /\ \A u \in 1 .. Current - 1 : gone[u] > Window
               /\ \A r \in Requests : phase[r] # "active"

IInv ==
    /\ TypeOK /\ TasksAreTrue /\ KeyIsTrue /\ TimesInOrder
    /\ SyncedOrMissed /\ Deadlines /\ SettledOK
=============================================================================
