--------------------------- MODULE OrderCreation ---------------------------
(***************************************************************************)
(* OrderService.CreateOrder and the idempotency record behind it.          *)
(*                                                                         *)
(* Every request of this module is the same request: one user, one request *)
(* hash, hence one Redis key.  Requests with another hash use another key  *)
(* and meet these only in the user's rate counter.  A request builds at    *)
(* most one order, with a fresh id, so the order of request r is called r. *)
(*                                                                         *)
(* Time is logical.  Deadlines are the timeouts of the code: a call that   *)
(* outlives its context returns an error, so unless a process stalls       *)
(* ("late" \in Faults) no request stays in a phase past its deadline.      *)
(***************************************************************************)
EXTENDS Integers, FiniteSets

CONSTANTS
    Requests,          \* the identical CreateOrder calls, retries included
    NoOrder,           \* uuid.Nil
    Faults,            \* which of FaultKinds the environment may inject
    RequestTTL,        \* redis.idempotency.request_ttl
    ServiceTimeout,    \* timeouts.service, for the call, commit and rollback
    CleanupTimeout,    \* redis.idempotency.cleanup_timeout
    CompleteTimeout,   \* all attempts of completeIdempotencySync together
    CompleteAttempts,  \* redis.idempotency.complete_attempts
    RateLimit,         \* rate_limit_by_user.create_order
    MaxClock           \* bound on logical time

(***************************************************************************)
(* What the environment can do to a call:                                  *)
(*  crash       the process dies between two steps;                        *)
(*  reply_lost  Redis executed the command, the client sees an error;      *)
(*  resend      the Redis client repeats a command that was executed (it   *)
(*              is built with the default of three retries);               *)
(*  commit      PostgreSQL committed, Commit returns an error;             *)
(*  late        a process stalls beyond its own timeouts;                  *)
(*  foreign     the key holds a value this version did not write.          *)
(***************************************************************************)
FaultKinds == {"crash", "reply_lost", "resend", "commit", "late", "foreign"}

ASSUME ConstantsAssumption ==
    /\ NoOrder \notin Requests
    /\ Faults \subseteq FaultKinds
    /\ RequestTTL \in Nat \ {0}
    /\ ServiceTimeout \in Nat /\ CleanupTimeout \in Nat /\ CompleteTimeout \in Nat
    /\ CompleteAttempts \in Nat \ {0}
    /\ RateLimit \in Nat
    /\ MaxClock \in Nat \ {0}

VARIABLES
    clock,       \* logical time; 0 is Go's zero time
    idem,        \* the value of the idempotency key in Redis
    rateCount,   \* the user's counter in the current rate window
    orders,      \* committed rows of orders: status of the order of r
    outbox,      \* requests whose OrderCreated row is committed
    pc,          \* where the handler of r stands
    deadline,    \* when the current phase of r is cut off
    startedAt,   \* started_at that r would write into the key
    createdAt,   \* created_at of the order of r
    tx,          \* rows written by the open transaction of r
    seen,        \* the processing entry r found when it lost the key
    target,      \* order and status r will answer with
    attempts,    \* failed attempts of Complete, or re-acquisitions
    reply,       \* the answer r gave
    acquiredAt   \* auxiliary: when the key became r's, 0 if never

requestVars == <<pc, deadline, startedAt, createdAt, tx, seen, target,
                 attempts, reply, acquiredAt>>
vars == <<clock, idem, rateCount, orders, outbox, requestVars>>

OrderStatus == {"created", "cancelled"}
Labels == {"idle", "acquire", "discard", "recover", "rateLimit", "validate",
           "insert", "produce", "commit", "rollback", "cleanup",
           "complete", "restore", "done", "crashed"}
Finished == {"idle", "done", "crashed"}
\* Labels at which the order of the request cannot exist yet.
BeforeCommit == {"idle", "acquire", "discard", "recover", "rateLimit",
                 "validate", "insert", "produce", "commit"}

Answer == [order : Requests \cup {NoOrder}, status : OrderStatus \cup {"none"}]
NoAnswer == [order |-> NoOrder, status |-> "none"]
\* owner is auxiliary: the request whose Acquire created the entry.
Entry == [state : {"absent", "processing", "completed", "garbled", "unknown"},
          startedAt : Nat, answer : Answer, expiresAt : Nat,
          owner : Requests \cup {NoOrder}]
Absent == [state |-> "absent", startedAt |-> 0, answer |-> NoAnswer,
           expiresAt |-> 0, owner |-> NoOrder]

NothingSeen == [startedAt |-> 0, owner |-> NoOrder]

Init ==
    /\ clock = 1
    /\ idem = Absent
    /\ rateCount = 0
    /\ orders = [r \in Requests |-> "none"]
    /\ outbox = {}
    /\ pc = [r \in Requests |-> "idle"]
    /\ deadline = [r \in Requests |-> 0]
    /\ startedAt = [r \in Requests |-> 0]
    /\ createdAt = [r \in Requests |-> 0]
    /\ tx = [r \in Requests |-> {}]
    /\ seen = [r \in Requests |-> NothingSeen]
    /\ target = [r \in Requests |-> NoAnswer]
    /\ attempts = [r \in Requests |-> 0]
    /\ reply = [r \in Requests |-> "none"]
    /\ acquiredAt = [r \in Requests |-> 0]

-----------------------------------------------------------------------------
(* Steps of the handler.                                                   *)

Goto(r, label) == pc' = [pc EXCEPT ![r] = label]
Until(r, timeout) == deadline' = [deadline EXCEPT ![r] = clock + timeout]

\* The local variables of the handler; they go out of scope when it ends.
locals == <<deadline, startedAt, seen, attempts>>
Forget(r) ==
    /\ deadline' = [deadline EXCEPT ![r] = 0]
    /\ startedAt' = [startedAt EXCEPT ![r] = 0]
    /\ seen' = [seen EXCEPT ![r] = NothingSeen]
    /\ attempts' = [attempts EXCEPT ![r] = 0]

\* The handler returns: kind is "ok", "error" or "processing".
Return(r, kind) ==
    /\ Goto(r, "done")
    /\ Forget(r)
    /\ reply' = [reply EXCEPT ![r] = kind]

\* The handler is entered and acquire takes its timestamp.
Begin(r) ==
    /\ pc[r] = "idle"
    /\ Goto(r, "acquire")
    /\ Until(r, ServiceTimeout)
    /\ startedAt' = [startedAt EXCEPT ![r] = clock]
    /\ UNCHANGED <<clock, idem, rateCount, orders, outbox, createdAt, tx, seen,
                   target, attempts, reply, acquiredAt>>

\* acquireScript on an absent key: SET key processing PX ttl.
SetProcessing(r) ==
    /\ idem.state = "absent"
    /\ idem' = [state |-> "processing", startedAt |-> startedAt[r],
                answer |-> NoAnswer, expiresAt |-> clock + RequestTTL,
                owner |-> r]
    /\ acquiredAt' = [acquiredAt EXCEPT ![r] = clock]

Acquire(r) ==
    /\ pc[r] = "acquire"
    /\ SetProcessing(r)
    /\ Goto(r, "rateLimit")
    /\ startedAt' = [startedAt EXCEPT ![r] = 0]
    /\ attempts' = [attempts EXCEPT ![r] = 0]
    /\ UNCHANGED <<clock, rateCount, orders, outbox, deadline, createdAt, tx,
                   seen, target, reply>>

\* The script ran but its reply is lost, and the caller gives up.
AcquireReplyLost(r) ==
    /\ "reply_lost" \in Faults
    /\ pc[r] = "acquire"
    /\ SetProcessing(r)
    /\ Return(r, "error")
    /\ UNCHANGED <<clock, rateCount, orders, outbox, createdAt, tx, target>>

\* The key exists: resolveIdempotentRequest on what the script returned.
AcquireExisting(r) ==
    /\ pc[r] = "acquire"
    /\ \/ /\ idem.state = "completed"
          /\ target' = [target EXCEPT ![r] = idem.answer]
          /\ Return(r, "ok")
       \/ /\ \/ idem.state = "processing" /\ idem.startedAt = 0
             \/ idem.state = "unknown"
          /\ Return(r, IF idem.state = "unknown" THEN "error" ELSE "processing")
          /\ UNCHANGED target
       \/ /\ idem.state = "processing" /\ idem.startedAt # 0
          /\ seen' = [seen EXCEPT ![r] = [startedAt |-> idem.startedAt,
                                          owner |-> idem.owner]]
          /\ Goto(r, "recover")
          /\ UNCHANGED <<target, reply, deadline, startedAt, attempts>>
       \/ /\ idem.state = "garbled"
          /\ Goto(r, "discard")
          /\ UNCHANGED <<target, reply, locals>>
    /\ UNCHANGED <<clock, idem, rateCount, orders, outbox, createdAt, tx,
                   acquiredAt>>

\* A value that does not parse is deleted, whatever is there by now, and the
\* acquisition is repeated once with a new timestamp.
DiscardGarbled(r) ==
    /\ pc[r] = "discard"
    /\ idem' = Absent
    /\ \/ /\ attempts[r] = 0
          /\ attempts' = [attempts EXCEPT ![r] = 1]
          /\ startedAt' = [startedAt EXCEPT ![r] = clock]
          /\ Goto(r, "acquire")
          /\ UNCHANGED <<deadline, seen, reply>>
       \/ /\ attempts[r] > 0
          /\ Return(r, "error")
    /\ UNCHANGED <<clock, rateCount, orders, outbox, createdAt, tx, target,
                   acquiredAt>>

\* Seeded variant for checking: no lower bound on created_at.
AnyMatchingOrder(r) == {o \in Requests : orders[o] # "none"}

\* FindOrderForIdempotencyRecovery: ORDER BY created_at, id LIMIT 1; ids are
\* random, so that orders of one instant come in either order.
RecoveryCandidates(r) ==
    {o \in Requests : orders[o] # "none" /\ createdAt[o] >= seen[r].startedAt}

tryRecoverOrderFromProcessing(r) ==
    /\ pc[r] = "recover"
    /\ \/ /\ RecoveryCandidates(r) = {}
          /\ Return(r, "processing")
          /\ UNCHANGED target
       \/ \E o \in RecoveryCandidates(r) :
            /\ \A p \in RecoveryCandidates(r) : createdAt[o] <= createdAt[p]
            /\ target' = [target EXCEPT ![r] = [order |-> o, status |-> orders[o]]]
            /\ Goto(r, "complete")
            /\ Until(r, CompleteTimeout)
            /\ attempts' = [attempts EXCEPT ![r] = 0]
            /\ UNCHANGED <<reply, startedAt, seen>>
    /\ UNCHANGED <<clock, idem, rateCount, orders, outbox, createdAt, tx,
                   acquiredAt>>

\* Seeded variant for checking: the key is cleaned up although it was not acquired.
CleanupWithoutAcquire(r) ==
    /\ pc[r] \in {"acquire", "discard", "recover"}
    /\ Goto(r, "cleanup")
    /\ Until(r, CleanupTimeout)
    /\ UNCHANGED <<clock, idem, rateCount, orders, outbox, startedAt, createdAt,
                   tx, seen, target, attempts, reply, acquiredAt>>

\* A call that fails without an effect before the key is owned: the Redis
\* script, the deletion of a garbled value, the recovery query.
FailBeforeAcquire(r) ==
    /\ pc[r] \in {"acquire", "discard", "recover"}
    /\ Return(r, "error")
    /\ UNCHANGED <<clock, idem, rateCount, orders, outbox, createdAt, tx, target,
                   acquiredAt>>

\* rateLimitScript counts the call even when it is refused.  A lost reply
\* refuses the call although it was counted.
checkRateLimit(r) ==
    /\ pc[r] = "rateLimit"
    /\ rateCount' = rateCount + 1
    /\ \/ /\ rateCount + 1 <= RateLimit
          /\ Goto(r, "validate")
          /\ UNCHANGED deadline
       \/ /\ rateCount + 1 > RateLimit \/ "reply_lost" \in Faults
          /\ Goto(r, "cleanup")
          /\ Until(r, CleanupTimeout)
    /\ UNCHANGED <<clock, idem, orders, outbox, startedAt, createdAt, tx, seen,
                   target, attempts, reply, acquiredAt>>

\* validateMarket succeeds and saveOrder takes the time of the order before it
\* opens the transaction; refusals and errors are FailBeforeSave.
validateMarket(r) ==
    /\ pc[r] = "validate"
    /\ createdAt' = [createdAt EXCEPT ![r] = clock]
    /\ Goto(r, "insert")
    /\ UNCHANGED <<clock, idem, rateCount, orders, outbox, locals, tx, target,
                   reply, acquiredAt>>

\* The rate limiter or the market check fails, or the transaction cannot be
\* opened: nothing to roll back.
FailBeforeSave(r) ==
    /\ pc[r] \in {"rateLimit", "validate", "insert"}
    /\ Goto(r, "cleanup")
    /\ Until(r, CleanupTimeout)
    /\ UNCHANGED <<clock, idem, rateCount, orders, outbox, startedAt, createdAt,
                   tx, seen, target, attempts, reply, acquiredAt>>

\* saveOrder opens the transaction and inserts the order into orders.
SaveOrder(r) ==
    /\ pc[r] = "insert"
    /\ tx' = [tx EXCEPT ![r] = {"order"}]
    /\ Goto(r, "produce")
    /\ UNCHANGED <<clock, idem, rateCount, orders, outbox, locals, createdAt,
                   target, reply, acquiredAt>>

\* Seeded variant for checking: the event is written outside the transaction.
ProduceOutsideTransaction(r) ==
    /\ pc[r] = "produce"
    /\ outbox' = outbox \cup {r}
    /\ Goto(r, "commit")
    /\ Until(r, ServiceTimeout)
    /\ UNCHANGED <<clock, idem, rateCount, orders, tx, startedAt, createdAt, seen,
                   target, attempts, reply, acquiredAt>>

\* Seeded variant for checking: the record is completed before the commit.
CompleteBeforeCommit(r) ==
    /\ pc[r] = "produce"
    /\ target' = [target EXCEPT ![r] = [order |-> r, status |-> "created"]]
    /\ Goto(r, "complete")
    /\ Until(r, CompleteTimeout)
    /\ UNCHANGED <<clock, idem, rateCount, orders, outbox, tx, startedAt, createdAt,
                   seen, attempts, reply, acquiredAt>>

\* The OrderCreated row joins the transaction; the commit has a context of
\* its own.
ProduceOrderCreated(r) ==
    /\ pc[r] = "produce"
    /\ tx' = [tx EXCEPT ![r] = @ \cup {"event"}]
    /\ Goto(r, "commit")
    /\ Until(r, ServiceTimeout)
    /\ UNCHANGED <<clock, idem, rateCount, orders, outbox, startedAt, createdAt,
                   seen, target, attempts, reply, acquiredAt>>

\* PostgreSQL makes the rows of the transaction durable.
ApplyTransaction(r) ==
    /\ orders' = [orders EXCEPT ![r] = IF "order" \in tx[r] THEN "created" ELSE @]
    /\ outbox' = IF "event" \in tx[r] THEN outbox \cup {r} ELSE outbox
    /\ tx' = [tx EXCEPT ![r] = {}]

commitTransaction(r) ==
    /\ pc[r] = "commit"
    /\ ApplyTransaction(r)
    /\ target' = [target EXCEPT ![r] = [order |-> r, status |-> "created"]]
    /\ Goto(r, "complete")
    /\ Until(r, CompleteTimeout)
    /\ UNCHANGED <<clock, idem, rateCount, startedAt, createdAt, seen, attempts,
                   reply, acquiredAt>>

\* An INSERT or the commit fails, or the commit succeeds and reports failure.
FailTransaction(r) ==
    /\ \/ /\ pc[r] \in {"insert", "produce", "commit"}
          /\ UNCHANGED <<orders, outbox, tx>>
       \/ /\ pc[r] = "commit"
          /\ "commit" \in Faults
          /\ ApplyTransaction(r)
    /\ Goto(r, "rollback")
    /\ Until(r, ServiceTimeout)
    /\ UNCHANGED <<clock, idem, rateCount, startedAt, createdAt, seen, target,
                   attempts, reply, acquiredAt>>

rollbackTransaction(r) ==
    /\ pc[r] = "rollback"
    /\ tx' = [tx EXCEPT ![r] = {}]
    /\ Goto(r, "cleanup")
    /\ Until(r, CleanupTimeout)
    /\ UNCHANGED <<clock, idem, rateCount, orders, outbox, startedAt, createdAt,
                   seen, target, attempts, reply, acquiredAt>>

\* DEL of the key, whoever owns it by now; an error is only logged.
failCleanup(r) ==
    /\ pc[r] = "cleanup"
    /\ idem' \in {Absent, idem}
    /\ Return(r, "error")
    /\ UNCHANGED <<clock, rateCount, orders, outbox, createdAt, tx, target,
                   acquiredAt>>

\* completeScript on an existing key: the value is replaced, the TTL stays.
SetCompleted(r) ==
    /\ idem.state # "absent"
    /\ idem' = [state |-> "completed", startedAt |-> 0, answer |-> target[r],
                expiresAt |-> idem.expiresAt, owner |-> idem.owner]

CompleteIdempotency(r) ==
    /\ pc[r] = "complete"
    /\ \/ /\ SetCompleted(r)
          /\ Return(r, "ok")
       \/ /\ idem.state = "absent"
          /\ Goto(r, "restore")
          /\ UNCHANGED <<idem, reply, locals>>
    /\ UNCHANGED <<clock, rateCount, orders, outbox, createdAt, tx, target,
                   acquiredAt>>

\* The key had expired: SetWithTTL writes it anew, over what may be there.
SetRestored(r) ==
    idem' = [state |-> "completed", startedAt |-> 0, answer |-> target[r],
             expiresAt |-> clock + RequestTTL, owner |-> NoOrder]

RestoreExpiredKey(r) ==
    /\ pc[r] = "restore"
    /\ SetRestored(r)
    /\ Return(r, "ok")
    /\ UNCHANGED <<clock, rateCount, orders, outbox, createdAt, tx, target,
                   acquiredAt>>

\* After a failed attempt of Complete: another one, or give up.  The order is
\* committed, so that the answer is "ok" even then.
RetryComplete(r) ==
    /\ attempts[r] + 1 < CompleteAttempts
    /\ attempts' = [attempts EXCEPT ![r] = @ + 1]
    /\ Goto(r, "complete")
    /\ UNCHANGED <<reply, deadline, startedAt, seen>>

\* Seeded variant for checking: the attempts are not limited.
RetryUnlimited(r) ==
    /\ attempts' = [attempts EXCEPT ![r] = @ + 1]
    /\ Goto(r, "complete")
    /\ UNCHANGED <<reply, deadline, startedAt, seen>>

\* Seeded variant for checking: the attempts are not counted.
RetryUncounted(r) ==
    /\ Goto(r, "complete")
    /\ UNCHANGED <<reply, locals>>

\* Seeded variant for checking: the client is told that the call failed.
GiveUpWithError(r) ==
    \/ attempts[r] + 1 >= CompleteAttempts /\ Return(r, "error")
    \/ RetryComplete(r)

AfterFailedAttempt(r) ==
    \/ attempts[r] + 1 >= CompleteAttempts /\ Return(r, "ok")
    \/ RetryComplete(r)

\* An attempt fails, executed or not.
CompleteAttemptFails(r) ==
    /\ \/ /\ pc[r] \in {"complete", "restore"}
          /\ UNCHANGED idem
       \/ /\ pc[r] = "complete"
          /\ "reply_lost" \in Faults
          /\ SetCompleted(r)
       \/ /\ pc[r] = "restore"
          /\ "reply_lost" \in Faults
          /\ SetRestored(r)
    /\ AfterFailedAttempt(r)
    /\ UNCHANGED <<clock, rateCount, orders, outbox, createdAt, tx, target,
                   acquiredAt>>

-----------------------------------------------------------------------------
(* The environment.                                                        *)

\* The process serving r dies; PostgreSQL drops its open transaction.
Crash(r) ==
    /\ "crash" \in Faults
    /\ pc[r] \notin Finished
    /\ Goto(r, "crashed")
    /\ Forget(r)
    /\ tx' = [tx EXCEPT ![r] = {}]
    /\ UNCHANGED <<clock, idem, rateCount, orders, outbox, createdAt, target,
                   reply, acquiredAt>>

\* The reply is lost and the client library sends the command again: after
\* this one the script meets r's own entry, the DEL somebody else's.
Resend(r) ==
    /\ "resend" \in Faults
    /\ \/ /\ pc[r] = "acquire"
          /\ SetProcessing(r)
       \/ /\ pc[r] = "cleanup"
          /\ idem' = Absent
          /\ UNCHANGED acquiredAt
    /\ UNCHANGED <<clock, rateCount, orders, outbox, pc, locals, createdAt, tx,
                   target, reply>>

\* CompensationService cancels a committed order.
CancelOrder(r) ==
    /\ orders[r] = "created"
    /\ orders' = [orders EXCEPT ![r] = "cancelled"]
    /\ UNCHANGED <<clock, idem, rateCount, outbox, requestVars>>

\* The key holds something this version would not write.
ForeignValue ==
    /\ "foreign" \in Faults
    /\ idem.state = "processing" /\ idem.startedAt # 0
    /\ \/ \E s \in {"garbled", "unknown"} : idem' = [idem EXCEPT !.state = s]
       \/ idem' = [idem EXCEPT !.startedAt = 0]
    /\ UNCHANGED <<clock, rateCount, orders, outbox, requestVars>>

\* PEXPIRE of the rate counter.
RateWindowEnds ==
    /\ rateCount > 0
    /\ rateCount' = 0
    /\ UNCHANGED <<clock, idem, orders, outbox, requestVars>>

\* Time passes.  Redis drops the key when its TTL is over.  Unless processes
\* may stall, every phase ends by its deadline.
Tick ==
    /\ clock < MaxClock
    /\ "late" \in Faults \/ \A r \in Requests : pc[r] \notin Finished => clock < deadline[r]
    /\ clock' = clock + 1
    /\ idem' = IF idem.state # "absent" /\ idem.expiresAt <= clock + 1
               THEN Absent ELSE idem
    /\ UNCHANGED <<rateCount, orders, outbox, requestVars>>

\* What the handler of r does by itself.
Handler(r) ==
    \/ Acquire(r) \/ AcquireReplyLost(r) \/ AcquireExisting(r)
    \/ DiscardGarbled(r) \/ tryRecoverOrderFromProcessing(r)
    \/ FailBeforeAcquire(r)
    \/ checkRateLimit(r) \/ validateMarket(r) \/ FailBeforeSave(r)
    \/ SaveOrder(r) \/ ProduceOrderCreated(r) \/ commitTransaction(r)
    \/ FailTransaction(r) \/ rollbackTransaction(r) \/ failCleanup(r)
    \/ CompleteIdempotency(r) \/ RestoreExpiredKey(r) \/ CompleteAttemptFails(r)

Next ==
    \/ \E r \in Requests : Begin(r) \/ Handler(r) \/ Crash(r) \/ Resend(r)
                               \/ CancelOrder(r)
    \/ ForeignValue \/ RateWindowEnds \/ Tick

Spec == Init /\ [][Next]_vars

\* Every call of the handler runs under a timeout and returns, with an error
\* if nothing better, and the client library resends at most three times: a
\* request that was begun keeps taking steps of its own.
FairSpec == Spec /\ \A r \in Requests : WF_vars(Handler(r))

-----------------------------------------------------------------------------
(* Properties.                                                             *)

\* The variables keep their types; the attempts of Complete stay within
\* complete_attempts (completeIdempotencyChecking).
TypeOK ==
    /\ clock \in 1 .. MaxClock
    /\ idem \in Entry
    /\ rateCount \in Nat
    /\ orders \in [Requests -> OrderStatus \cup {"none"}]
    /\ outbox \subseteq Requests
    /\ pc \in [Requests -> Labels]
    /\ deadline \in [Requests -> Nat]
    /\ startedAt \in [Requests -> Nat]
    /\ createdAt \in [Requests -> Nat]
    /\ tx \in [Requests -> SUBSET {"order", "event"}]
    /\ seen \in [Requests -> [startedAt : Nat, owner : Requests \cup {NoOrder}]]
    /\ target \in [Requests -> Answer]
    /\ attempts \in [Requests -> 0 .. CompleteAttempts]
    /\ reply \in [Requests -> {"none", "ok", "error", "processing"}]
    /\ acquiredAt \in [Requests -> Nat]

\* An answer that CreateOrder may give: its order is committed, and a status
\* "cancelled" is one the order has reached (it may be behind, never ahead).
Durable(a) ==
    /\ a.order \in Requests
    /\ orders[a.order] # "none"
    /\ a.status = "cancelled" => orders[a.order] = "cancelled"

\* Whatever crashes, expires, is lost or repeated: an answer "ok", and a
\* completed record that later answers are read from, name a committed order.
SuccessIsDurable ==
    /\ \A r \in Requests : reply[r] = "ok" => Durable(target[r])
    /\ idem.state = "completed" => Durable(idem.answer)

\* saveOrder writes the order and its OrderCreated event in one transaction:
\* neither exists without the other, at whatever step it fails or dies.
OrderAndEventAtomic ==
    \A r \in Requests : orders[r] # "none" <=> r \in outbox

\* A request that took the key and answered an error left no order: only then
\* may its cleanup free the key for a retry.
ErrorMeansNoOrder ==
    \A r \in Requests : reply[r] = "error" => orders[r] = "none"

\* Two orders of the same request were taken in charge at least the TTL of the
\* idempotency key apart: no duplicate within the TTL.
DedupWithinTTL ==
    \A r, s \in Requests :
        r # s /\ orders[r] # "none" /\ orders[s] # "none" =>
            \/ acquiredAt[r] + RequestTTL <= acquiredAt[s]
            \/ acquiredAt[s] + RequestTTL <= acquiredAt[r]

\* The DEL of failCleanup names no owner, yet it never frees the key of another
\* attempt: what it meets is the entry that this request acquired, or a record
\* that the restore of an older order has put there meanwhile.
CleanupSparesOthers ==
    \A r \in Requests : pc[r] = "cleanup" => idem.owner \in {r, NoOrder}

\* Two answers "ok" name the same order, unless the key had run out between the
\* attempts they stand for: a client that repeats its call within the TTL is
\* told of one order, whichever of the calls made it.
AnswersAgree ==
    \A r, s \in Requests :
        reply[r] = "ok" /\ reply[s] = "ok" /\ target[r].order # target[s].order =>
            \/ acquiredAt[target[r].order] + RequestTTL <= acquiredAt[target[s].order]
            \/ acquiredAt[target[s].order] + RequestTTL <= acquiredAt[target[r].order]

\* The recovery of a processing entry never answers with an order of an
\* attempt older than the one that owns the entry (created_at >= started_at).
RecoveryNeverOlder ==
    \A r \in Requests :
        pc[r] \in {"complete", "restore"} /\ target[r].order # r =>
            acquiredAt[target[r].order] >= acquiredAt[seen[r].owner]

\* Every request that was begun is answered, unless its process dies.
RequestAnswered ==
    \A r \in Requests : pc[r] = "acquire" ~> pc[r] \in {"done", "crashed"}

-----------------------------------------------------------------------------
(* The inductive invariants behind the theorems of OrderCreationProofs.    *)

\* For every fault: what a handler will answer is durable already, and an
\* open transaction holds the order before the event.
DurableInv ==
    /\ SuccessIsDurable
    /\ OrderAndEventAtomic
    /\ \A r \in Requests :
        /\ pc[r] \in {"complete", "restore"} => Durable(target[r])
        /\ pc[r] \in BeforeCommit => orders[r] = "none"
        /\ pc[r] = "commit" => tx[r] = {"order", "event"}
        /\ pc[r] = "produce" => tx[r] = {"order"}

\* Faults under which the TTL protects against duplicates, and the relation
\* between the timeouts and the TTL that it needs: the slowest way from the
\* acquisition to the cleanup (call, commit, rollback, DEL) fits in the TTL.
SafeFaults == Faults \subseteq {"crash", "reply_lost"}
TTLCoversHandler == 3 * ServiceTimeout + CleanupTimeout < RequestTTL

\* Labels at which a request owns the key and may yet commit or delete it.
Owning == {"rateLimit", "validate", "insert", "produce", "commit", "rollback",
           "cleanup"}
Holder(r) == pc[r] \in Owning \/ orders[r] # "none"

\* How long after the acquisition a phase can last.
Span(label) ==
    CASE label \in {"rateLimit", "validate", "insert", "produce"} -> ServiceTimeout
      [] label = "commit" -> 2 * ServiceTimeout
      [] label = "rollback" -> 3 * ServiceTimeout
      [] label = "cleanup" -> 3 * ServiceTimeout + CleanupTimeout

\* Where a request stands, in time.
TimingInv ==
    \A r \in Requests :
        /\ acquiredAt[r] <= clock
        /\ pc[r] \in {"idle", "acquire"} => acquiredAt[r] = 0
        /\ pc[r] # "discard"
        /\ pc[r] \notin Finished => clock <= deadline[r]
        /\ pc[r] = "acquire" => /\ startedAt[r] > 0
                               /\ startedAt[r] <= clock
                               /\ deadline[r] = startedAt[r] + ServiceTimeout
        /\ pc[r] \in Owning => /\ acquiredAt[r] > 0
                               /\ orders[r] = "none"
                               /\ deadline[r] <= acquiredAt[r] + Span(pc[r])
        /\ orders[r] # "none" => acquiredAt[r] > 0
        /\ reply[r] = "error" => pc[r] = "done" /\ orders[r] = "none"

\* A holder's key is there until its TTL is over.
KeyInv ==
    /\ idem.state \in {"absent", "processing", "completed"}
    /\ \A r \in Requests :
        Holder(r) /\ clock < acquiredAt[r] + RequestTTL =>
            /\ idem.state # "absent"
            /\ idem.expiresAt >= acquiredAt[r] + RequestTTL

\* In that time the entry is its own, or one that was restored over it.
OwnerInv ==
    \A r \in Requests :
        Holder(r) /\ clock < acquiredAt[r] + RequestTTL => idem.owner \in {r, NoOrder}

\* No request acquires the key within the TTL of an earlier holder.
ApartInv ==
    \A r, s \in Requests :
        /\ r # s /\ Holder(r) /\ Holder(s) =>
            \/ acquiredAt[r] + RequestTTL <= acquiredAt[s]
            \/ acquiredAt[s] + RequestTTL <= acquiredAt[r]
        /\ Holder(s) /\ acquiredAt[s] < acquiredAt[r] =>
            acquiredAt[s] + RequestTTL <= acquiredAt[r]

\* started_at of an entry is close to the acquisition, created_at of an order
\* close to its own.
RecoveryInv ==
    /\ idem.state = "processing" =>
        /\ idem.owner \in Requests
        /\ acquiredAt[idem.owner] > 0
        /\ acquiredAt[idem.owner] <= idem.startedAt + ServiceTimeout
    /\ \A r \in Requests :
        /\ pc[r] = "recover" =>
            /\ seen[r].owner \in Requests
            /\ acquiredAt[seen[r].owner] > 0
            /\ acquiredAt[seen[r].owner] <= seen[r].startedAt + ServiceTimeout
        /\ pc[r] \in {"complete", "restore"} /\ target[r].order # r =>
            /\ target[r].order \in Requests
            /\ acquiredAt[target[r].order] > 0
            /\ seen[r].owner \in Requests
            /\ acquiredAt[seen[r].owner] > 0
            /\ acquiredAt[target[r].order] >= acquiredAt[seen[r].owner]
        /\ pc[r] \in {"insert", "produce", "commit"} \/ orders[r] # "none" =>
            createdAt[r] <= acquiredAt[r] + ServiceTimeout

DedupInv == TimingInv /\ KeyInv /\ ApartInv /\ RecoveryInv
=============================================================================
