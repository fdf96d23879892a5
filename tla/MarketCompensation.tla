------------------------ MODULE MarketCompensation ------------------------
(***************************************************************************)
(* CompensationService.ProcessMarketStateChanged with the inbox, the order *)
(* rows it cancels, the block state in Redis, and the consumer group that  *)
(* delivers market.state.changed to it: ConsumeClaim and the middlewares   *)
(* PanicRecovery, DLQ and Retry around the handler.                        *)
(*                                                                         *)
(* One market, one partition (events are keyed by market).  Positions of   *)
(* the log count from 0, as Kafka offsets do.  From BeginProcessing to the *)
(* end of the transaction the inbox row is locked, and so are the order    *)
(* rows that the UPDATE touched: PostgreSQL makes others wait.             *)
(***************************************************************************)
EXTENDS Integers, Sequences, FiniteSets

CONSTANTS
    Consumers,      \* instances of the consumer group
    None,           \* no consumer
    Events,         \* market.state.changed events, by event id
    Unavailable,    \* the events that disable or delete the market
    Malformed,      \* messages that UnmarshalMarketStateChanged refuses
    UpdatedAt,      \* updated_at of an event in milliseconds
    Orders,         \* orders of the market
    DLQEnabled,     \* kafka.consumer.dlq_enabled
    MaxRetries,     \* kafka.consumer.max_retries
    MaxLog,         \* bound on publications, repeated ones included
    Histories,      \* bound: what the partition may hold in the end
    MaxDisruptions  \* bound on take-overs, ended sessions and crashes

ASSUME CompensationAssumption ==
    /\ None \notin Consumers
    /\ Unavailable \subseteq Events /\ Malformed \subseteq Events
    /\ UpdatedAt \in [Events -> Nat]
    /\ DLQEnabled \in BOOLEAN
    /\ MaxRetries \in Nat /\ MaxLog \in Nat /\ MaxDisruptions \in Nat
    /\ Histories \subseteq Seq(Events)

VARIABLES
    log,         \* the partition
    due,         \* auxiliary: orders that were active when an event was first published
    offset,      \* committed offset of the group
    owner,       \* the member that the partition is assigned to
    disruptions, \* take-overs, ended sessions and crashes so far
    orders,      \* committed status of every order
    notices,     \* committed OrderStatusUpdated rows per order
    inbox,       \* committed inbox status per event
    rowLock,     \* consumer whose transaction holds the inbox row
    block,       \* market:block:<id> in Redis
    dlq,         \* positions published to the dead letter topic
    pc,          \* step of the member in its message
    session,     \* its session: none, open, or ending (context cancelled)
    position,    \* position in hand, or the next one
    marked,      \* next position after the messages marked in the session
    retries,     \* retries of the message in hand
    matched,     \* order rows that the running UPDATE found active
    cancelling   \* order rows updated by the open transaction

groupVars == <<log, due, offset, owner, disruptions>>
tableVars == <<orders, notices, inbox>>
sharedVars == <<tableVars, rowLock, block, dlq>>
txVars == <<matched, cancelling>>
memberVars == <<session, position, marked, retries>>
vars == <<groupVars, sharedVars, pc, memberVars, txVars>>

NoBlock == [at |-> 0, blocked |-> FALSE, present |-> FALSE]

Init ==
    /\ log = << >> /\ due = [e \in Events |-> {}] /\ offset = 0 /\ owner = None /\ disruptions = 0
    /\ orders = [o \in Orders |-> "none"]
    /\ notices = [o \in Orders |-> 0]
    /\ inbox = [e \in Events |-> "none"]
    /\ rowLock = [e \in Events |-> None]
    /\ block = NoBlock
    /\ dlq = {}
    /\ pc = [c \in Consumers |-> "idle"]
    /\ session = [c \in Consumers |-> "none"]
    /\ position = [c \in Consumers |-> 0]
    /\ marked = [c \in Consumers |-> 0]
    /\ retries = [c \in Consumers |-> 0]
    /\ matched = [c \in Consumers |-> {}]
    /\ cancelling = [c \in Consumers |-> {}]

Goto(c, label) == pc' = [pc EXCEPT ![c] = label]
EventOf(c) == log[position[c] + 1]
Published == {log[i] : i \in 1 .. Len(log)}
Disrupt == disruptions < MaxDisruptions /\ disruptions' = disruptions + 1

-----------------------------------------------------------------------------
(* The consumer group.                                                     *)

\* Consume: the member joins and starts at the committed offset.  It may take
\* the partition from an owner that missed its heartbeats and is still busy.
Consume(c) ==
    /\ session[c] = "none"
    /\ \/ /\ owner \in Consumers => session[owner] = "none"
          /\ UNCHANGED disruptions
       \/ /\ owner \in Consumers /\ session[owner] # "none"
          /\ Disrupt
    /\ owner' = c
    /\ session' = [session EXCEPT ![c] = "open"]
    /\ position' = [position EXCEPT ![c] = offset]
    /\ marked' = [marked EXCEPT ![c] = offset]
    /\ UNCHANGED <<log, due, offset, sharedVars, pc, retries, txVars>>

\* The session context is cancelled: a rebalance, a lost heartbeat, or Stop.
CancelSession(c) ==
    /\ session[c] = "open"
    /\ Disrupt
    /\ session' = [session EXCEPT ![c] = "ending"]
    /\ UNCHANGED <<log, due, offset, owner, sharedVars, pc, position, marked, retries, txVars>>

\* ConsumeClaim selects between a message and the end of the session; when
\* both are ready it may take either.
ConsumeClaim(c) ==
    /\ pc[c] = "idle" /\ session[c] # "none"
    /\ position[c] < Len(log)
    /\ Goto(c, "begin")
    /\ retries' = [retries EXCEPT ![c] = 0]
    /\ UNCHANGED <<groupVars, sharedVars, session, position, marked, txVars>>

\* ConsumeClaim returns, with an error or at the end of the session.
EndSession(c) ==
    /\ \/ pc[c] = "idle" /\ session[c] = "ending"
       \/ pc[c] = "error"
    /\ Goto(c, "idle")
    /\ session' = [session EXCEPT ![c] = "none"]
    /\ UNCHANGED <<groupVars, sharedVars, position, marked, retries, txVars>>

\* handleMessageResult: success, or the dead letter topic took the message.
MarkMessage(c) ==
    /\ pc[c] = "mark"
    /\ Goto(c, "idle")
    /\ position' = [position EXCEPT ![c] = @ + 1]
    /\ marked' = [marked EXCEPT ![c] = position[c] + 1]
    /\ UNCHANGED <<groupVars, sharedVars, session, retries, txVars>>

\* The client library commits marked offsets in the background and when the
\* session ends; the broker refuses a member that is no longer the owner.
CommitOffset(c) ==
    /\ owner = c /\ session[c] # "none"
    /\ marked[c] > offset
    /\ offset' = marked[c]
    /\ UNCHANGED <<log, due, owner, disruptions, sharedVars, pc, memberVars, txVars>>

-----------------------------------------------------------------------------
(* The middlewares.                                                        *)

\* ErrStopConsumeClaim: handleMessageResult returns nil and marks nothing; the
\* loop of ConsumeClaim goes on with the next message.
StopConsumeClaim(c) ==
    /\ session[c] = "ending"
    /\ Goto(c, "idle")
    /\ position' = [position EXCEPT ![c] = @ + 1]
    /\ UNCHANGED retries

\* Seeded variant for checking: what the last retry could not do is dropped.
ExhaustedIsSkipped(c) == "mark"

\* An error after the last retry: to the dead letter topic, else up to
\* ConsumeClaim.
Exhausted(c) == IF DLQEnabled THEN "dlq" ELSE "error"

\* Seeded variants for checking: one attempt too many, and attempts that are
\* not counted.
RetryOnceMore(c) ==
    \/ /\ retries[c] <= MaxRetries
       /\ Goto(c, "begin")
       /\ retries' = [retries EXCEPT ![c] = @ + 1]
       /\ UNCHANGED position
    \/ /\ retries[c] > MaxRetries
       /\ Goto(c, Exhausted(c))
       /\ UNCHANGED <<position, retries>>

RetryUncounted(c) ==
    /\ Goto(c, "begin")
    /\ UNCHANGED <<position, retries>>

\* RetryMiddleware: another attempt after the backoff, unless the context ends.
HandlerFails(c) ==
    \/ /\ retries[c] < MaxRetries
       /\ \/ /\ Goto(c, "begin")
             /\ retries' = [retries EXCEPT ![c] = @ + 1]
             /\ UNCHANGED position
          \/ StopConsumeClaim(c)
    \/ /\ retries[c] >= MaxRetries
       /\ Goto(c, Exhausted(c))
       /\ UNCHANGED <<position, retries>>

\* A message that cannot be decoded is not retried.
handleMarketStateChanged(c) ==
    /\ pc[c] = "begin" /\ EventOf(c) \in Malformed
    /\ Goto(c, IF DLQEnabled THEN "dlq" ELSE "mark")
    /\ UNCHANGED <<groupVars, sharedVars, memberVars, txVars>>

sendToDLQ(c) ==
    /\ pc[c] = "dlq" /\ session[c] = "open"
    /\ dlq' = dlq \cup {position[c]}
    /\ Goto(c, "mark")
    /\ UNCHANGED <<groupVars, tableVars, rowLock, block, memberVars, txVars>>

\* The context is over, or the dead letter topic refuses the message.
sendToDLQFails(c) ==
    /\ pc[c] = "dlq"
    /\ \/ StopConsumeClaim(c)
       \/ /\ Goto(c, "error")
          /\ UNCHANGED <<position, retries>>
    /\ UNCHANGED <<groupVars, sharedVars, session, marked, txVars>>

-----------------------------------------------------------------------------
(* ProcessMarketStateChanged.                                              *)

\* The transaction of c ends, its row locks with it.
ReleaseRows(c) ==
    /\ rowLock' = [e \in Events |-> IF rowLock[e] = c THEN None ELSE rowLock[e]]
    /\ matched' = [matched EXCEPT ![c] = {}]
    /\ cancelling' = [cancelling EXCEPT ![c] = {}]

\* BEGIN, then the upsert of the inbox row: it waits for a transaction that
\* holds the row, takes a new or a failed row, and skips a processed one.
BeginProcessing(c) ==
    /\ pc[c] = "begin" /\ session[c] = "open"
    /\ EventOf(c) \notin Malformed
    /\ rowLock[EventOf(c)] = None
    /\ \/ /\ inbox[EventOf(c)] \in {"none", "failed"}
          /\ rowLock' = [rowLock EXCEPT ![EventOf(c)] = c]
          /\ Goto(c, "apply")
       \/ /\ inbox[EventOf(c)] \notin {"none", "failed"}
          /\ Goto(c, "skip")
          /\ UNCHANGED rowLock
    /\ UNCHANGED <<groupVars, tableVars, block, dlq, memberVars, txVars>>

\* synchronizeStateScript: an older timestamp does not replace a newer one.
SynchronizeState(at, blocked) ==
    block' = IF block.present /\ at < block.at THEN block
             ELSE [at |-> at, blocked |-> blocked, present |-> TRUE]

\* Seeded variant for checking: Redis is told before the commit.
SynchronizeInTransaction(c) ==
    /\ pc[c] = "apply" /\ session[c] = "open"
    /\ \/ /\ EventOf(c) \in Unavailable
          /\ matched' = [matched EXCEPT ![c] = {o \in Orders : orders[o] = "created"}]
          /\ Goto(c, "cancel")
       \/ /\ EventOf(c) \notin Unavailable
          /\ Goto(c, "commit")
          /\ UNCHANGED matched
    /\ SynchronizeState(UpdatedAt[EventOf(c)], EventOf(c) \in Unavailable)
    /\ UNCHANGED <<groupVars, tableVars, rowLock, dlq, memberVars, cancelling>>

\* Nothing to cancel when the market is available; otherwise the UPDATE starts
\* with the rows that are active in its snapshot.
applyCompensationTransaction(c) ==
    /\ pc[c] = "apply" /\ session[c] = "open"
    /\ \/ /\ EventOf(c) \in Unavailable
          /\ matched' = [matched EXCEPT ![c] = {o \in Orders : orders[o] = "created"}]
          /\ Goto(c, "cancel")
       \/ /\ EventOf(c) \notin Unavailable
          /\ Goto(c, "commit")
          /\ UNCHANGED matched
    /\ UNCHANGED <<groupVars, sharedVars, memberVars, cancelling>>

\* Rows of the snapshot whose condition holds when their lock is granted.
StillActive(c) == {o \in matched[c] : orders[o] = "created"}

\* Seeded variant for checking: rows that another transaction holds are left out.
CancelUnlockedOrders(c) ==
    /\ pc[c] = "cancel" /\ session[c] = "open"
    /\ cancelling' = [cancelling EXCEPT ![c] =
                         StillActive(c) \ UNION {cancelling[d] : d \in Consumers}]
    /\ Goto(c, "commit")
    /\ UNCHANGED <<groupVars, sharedVars, memberVars, matched>>

\* The UPDATE waits for transactions that hold one of its rows; then one
\* status event for each cancelled order goes to the outbox.
CancelActiveOrdersByMarket(c) ==
    /\ pc[c] = "cancel" /\ session[c] = "open"
    /\ \A d \in Consumers : cancelling[d] \cap matched[c] = {}
    /\ cancelling' = [cancelling EXCEPT ![c] = StillActive(c)]
    /\ Goto(c, "commit")
    /\ UNCHANGED <<groupVars, sharedVars, memberVars, matched>>

\* The row of the event, and one OrderStatusUpdated row for each cancelled order.
MarkProcessed(c) == inbox' = [inbox EXCEPT ![EventOf(c)] = "processed"]

ProduceOrderStatusUpdated(c) ==
    notices' = [o \in Orders |-> IF o \in cancelling[c] THEN notices[o] + 1 ELSE notices[o]]

\* What PostgreSQL makes durable: the row processed, the orders cancelled,
\* their events in the outbox.
ApplyTransaction(c) ==
    /\ MarkProcessed(c)
    /\ orders' = [o \in Orders |-> IF o \in cancelling[c] THEN "cancelled" ELSE orders[o]]
    /\ ProduceOrderStatusUpdated(c)
    /\ ReleaseRows(c)

\* MarkProcessed and COMMIT; COMMIT does not depend on the session context.
commitTransaction(c) ==
    /\ pc[c] = "commit"
    /\ ApplyTransaction(c)
    /\ Goto(c, "sync")
    /\ UNCHANGED <<groupVars, block, dlq, memberVars>>

\* A duplicate: the empty transaction commits; the block state is set again.
handleSkippedEvent(c) ==
    /\ pc[c] = "skip"
    /\ Goto(c, "sync")
    /\ UNCHANGED <<groupVars, sharedVars, memberVars, txVars>>

\* After the commit; an error is only logged.
trySynchronizeMarketBlockState(c) ==
    /\ pc[c] = "sync"
    /\ \/ SynchronizeState(UpdatedAt[EventOf(c)], EventOf(c) \in Unavailable)
       \/ UNCHANGED block
    /\ Goto(c, "mark")
    /\ UNCHANGED <<groupVars, tableVars, rowLock, dlq, memberVars, txVars>>

\* BEGIN fails, or a commit fails: rolled back, nothing recorded.  A commit
\* whose answer is lost may have succeeded all the same.
FailWithoutRecord(c) ==
    /\ \/ /\ \/ pc[c] = "begin" /\ EventOf(c) \notin Malformed
             \/ pc[c] \in {"skip", "commit"}
          /\ ReleaseRows(c)
          /\ UNCHANGED tableVars
       \/ /\ pc[c] = "commit"
          /\ ApplyTransaction(c)
    /\ HandlerFails(c)
    /\ UNCHANGED <<groupVars, block, dlq, session, marked>>

\* failProcessing, first half: an error of BeginProcessing, of the
\* cancellation or of MarkProcessed rolls the transaction back.
failProcessing(c) ==
    /\ \/ pc[c] = "begin" /\ EventOf(c) \notin Malformed
       \/ pc[c] \in {"apply", "cancel", "commit"}
    /\ ReleaseRows(c)
    /\ Goto(c, "saveFailed")
    /\ UNCHANGED <<groupVars, tableVars, block, dlq, memberVars>>

\* The row that SaveFailed may change: none, or one that is not processed.
MayFail(e) == inbox[e] # "processed"

\* failProcessing, second half: the row becomes failed outside the rolled back
\* transaction, unless it is processed or the statement fails.
SaveFailed(c) ==
    /\ pc[c] = "saveFailed"
    /\ \/ /\ rowLock[EventOf(c)] = None
          /\ MayFail(EventOf(c))
          /\ inbox' = [inbox EXCEPT ![EventOf(c)] = "failed"]
       \/ UNCHANGED inbox
    /\ HandlerFails(c)
    /\ UNCHANGED <<groupVars, orders, notices, rowLock, block, dlq, session, marked, txVars>>

\* PanicRecoveryMiddleware: the deferred rollback runs, the error goes to
\* ConsumeClaim past the other middlewares.
HandlerPanics(c) ==
    /\ pc[c] \in {"begin", "apply", "cancel", "commit", "skip", "sync", "saveFailed"}
    /\ Disrupt
    /\ ReleaseRows(c)
    /\ Goto(c, "error")
    /\ UNCHANGED <<log, due, offset, owner, tableVars, block, dlq, memberVars>>

-----------------------------------------------------------------------------
(* The environment.                                                        *)

\* The outbox worker of the spot service publishes at least once, and not
\* always in order.
Publish(e) ==
    /\ Len(log) < MaxLog
    /\ log' = Append(log, e)
    /\ \E h \in Histories : Len(h) >= Len(log') /\ SubSeq(h, 1, Len(log')) = log'
    /\ due' = IF e \in Published THEN due
              ELSE [due EXCEPT ![e] = {o \in Orders : orders[o] = "created"}]
    /\ UNCHANGED <<offset, owner, disruptions, sharedVars, pc, memberVars, txVars>>

\* CreateOrder commits an order of the market.
SaveOrder(o) ==
    /\ orders[o] = "none"
    /\ orders' = [orders EXCEPT ![o] = "created"]
    /\ UNCHANGED <<groupVars, notices, inbox, rowLock, block, dlq, pc, memberVars, txVars>>

\* The process of c dies; PostgreSQL rolls its transaction back.
Crash(c) ==
    /\ session[c] # "none"
    /\ Disrupt
    /\ ReleaseRows(c)
    /\ Goto(c, "idle")
    /\ session' = [session EXCEPT ![c] = "none"]
    /\ UNCHANGED <<log, due, offset, owner, tableVars, block, dlq, position, marked, retries>>

\* market_block_ttl is over.
ExpireBlock ==
    /\ block.present
    /\ block' = NoBlock
    /\ UNCHANGED <<groupVars, tableVars, rowLock, dlq, pc, memberVars, txVars>>

\* Steps of the code and of the client library on behalf of c.
Step(c) ==
    \/ Consume(c) \/ ConsumeClaim(c) \/ EndSession(c) \/ MarkMessage(c)
    \/ CommitOffset(c) \/ handleMarketStateChanged(c)
    \/ BeginProcessing(c) \/ applyCompensationTransaction(c)
    \/ CancelActiveOrdersByMarket(c) \/ commitTransaction(c)
    \/ handleSkippedEvent(c) \/ trySynchronizeMarketBlockState(c)
    \/ FailWithoutRecord(c) \/ failProcessing(c) \/ SaveFailed(c)
    \/ sendToDLQ(c) \/ sendToDLQFails(c)

Next ==
    \/ \E c \in Consumers : Step(c) \/ CancelSession(c) \/ HandlerPanics(c) \/ Crash(c)
    \/ \E e \in Events : Publish(e)
    \/ \E o \in Orders : SaveOrder(o)
    \/ ExpireBlock

Spec == Init /\ [][Next]_vars

\* Every call of the handler has a timeout, so a member that runs takes its
\* next step; the dead letter topic does not refuse one message for ever.
FairSpec ==
    /\ Spec
    /\ \A c \in Consumers : WF_vars(Step(c))
    /\ \A p \in 0 .. MaxLog - 1 : SF_vars(\E c \in Consumers : sendToDLQ(c) /\ position[c] = p)

-----------------------------------------------------------------------------
(* Properties.                                                             *)

Labels == {"idle", "begin", "apply", "cancel", "commit", "sync", "skip",
           "saveFailed", "dlq", "mark", "error"}

\* Types of all variables.  Retries stay within max_retries, and a member at
\* work on a message has a session and the message in hand.
TypeOK ==
    /\ log \in Seq(Events) /\ due \in [Events -> SUBSET Orders]
    /\ offset \in Nat /\ owner \in Consumers \cup {None} /\ disruptions \in 0 .. MaxDisruptions
    /\ orders \in [Orders -> {"none", "created", "cancelled"}]
    /\ notices \in [Orders -> Nat]
    /\ inbox \in [Events -> {"none", "failed", "processed"}]
    /\ rowLock \in [Events -> Consumers \cup {None}]
    /\ block \in [at : Nat, blocked : BOOLEAN, present : BOOLEAN]
    /\ dlq \subseteq Nat
    /\ pc \in [Consumers -> Labels]
    /\ session \in [Consumers -> {"none", "open", "ending"}]
    /\ position \in [Consumers -> Nat]
    /\ marked \in [Consumers -> Nat]
    /\ retries \in [Consumers -> 0 .. MaxRetries]
    /\ matched \in [Consumers -> SUBSET Orders]
    /\ cancelling \in [Consumers -> SUBSET Orders]
    /\ \A c \in Consumers : pc[c] # "idle" => session[c] # "none" /\ position[c] < Len(log)

\* A cancelled order has exactly one OrderStatusUpdated row and any other order
\* has none, however often its market's events are delivered and whichever
\* members handle them at the same time (CancelActiveOrdersByMarket and
\* publishCancelledOrderEvents in one transaction).
CancelNotifiedOnce ==
    \A o \in Orders : notices[o] = IF orders[o] = "cancelled" THEN 1 ELSE 0

\* p is dealt with: its event was processed or it is in the dead letter topic;
\* without that topic a message that cannot be decoded is skipped.
Settled(p) ==
    \/ inbox[log[p + 1]] = "processed"
    \/ p \in dlq
    \/ ~DLQEnabled /\ log[p + 1] \in Malformed

\* The group never commits an offset past a message that is not dealt with:
\* a failed, interrupted or panicked attempt is delivered again
\* (handleMessageResult marks only what is done).
NothingLost == \A p \in 0 .. offset - 1 : Settled(p)

\* A processed inbox row stays processed: a member that fails late, after
\* another one processed the same event, does not open it for a second
\* cancellation (the WHERE of SaveFailed and of tryStartProcessing).
ProcessedIsFinal ==
    [][\A e \in Events : inbox[e] = "processed" => inbox'[e] = "processed"]_vars

Contract == INSTANCE CompensationContract WITH
    published <- Published,
    applied <- {e \in Events : inbox[e] = "processed"}

\* ProcessMarketStateChanged applies an event once and as a whole, whatever is
\* delivered again, runs at the same time, fails, panics or dies: an event that
\* closes the market leaves no order active that was active when it was published,
\* announces each cancellation, and is never applied again.
KeepsContract == Contract!ContractSpec

\* The block state in Redis is that of an event whose compensation committed:
\* trySynchronizeMarketBlockState runs only after the commit, and a rolled
\* back attempt leaves no trace in Redis.
BlockFollowsCommit ==
    block.present =>
        \E e \in Events : /\ inbox[e] = "processed"
                          /\ UpdatedAt[e] = block.at
                          /\ (e \in Unavailable) = block.blocked

\* Every published message is dealt with in the end, however members wait for
\* each other's rows, once the group is not disrupted any more: again and again
\* nothing in the partition is left (and what is settled stays settled).
EveryMessageSettled == []<>(\A p \in 0 .. Len(log) - 1 : Settled(p))

-----------------------------------------------------------------------------
(* Inductive strengthenings, used by the proofs.                           *)

\* Orders that event e closes and that are still active.
StillDue(e) == {o \in due[e] : orders[o] = "created"}

\* What a transaction of c is about to apply: the row of its event is its own
\* and open, and the UPDATE has, or is going to have, every order that is due.
TransactionInv(c) ==
    /\ pc[c] \in {"apply", "cancel", "commit"} =>
          /\ rowLock[EventOf(c)] = c
          /\ inbox[EventOf(c)] # "processed"
    /\ pc[c] = "cancel" => EventOf(c) \in Unavailable /\ StillDue(EventOf(c)) \subseteq matched[c]
    /\ pc[c] = "commit" =>
          IF EventOf(c) \in Unavailable THEN StillDue(EventOf(c)) \subseteq cancelling[c]
                                        ELSE cancelling[c] = {}
    /\ pc[c] \notin {"cancel", "commit"} => matched[c] = {} /\ cancelling[c] = {}
    /\ pc[c] = "cancel" => cancelling[c] = {}

DueInv ==
    /\ \A e \in Events : \A o \in due[e] : orders[o] # "none"
    /\ \A c \in Consumers : TransactionInv(c)

\* Rows that an open transaction updated are active for everybody else, and no
\* two transactions hold the same row.
RowsInv ==
    /\ CancelNotifiedOnce
    /\ \A c \in Consumers : \A o \in cancelling[c] : orders[o] = "created"
    /\ \A c, d \in Consumers : c # d => cancelling[c] \cap cancelling[d] = {}

\* What a member tells Redis has been committed.
SyncInv ==
    /\ BlockFollowsCommit
    /\ \A c \in Consumers : pc[c] \in {"sync", "skip"} => inbox[EventOf(c)] = "processed"

\* A member is at the first message it has not marked.
AtMark(c) == position[c] = marked[c]

\* Where a member is in the partition: all it marked is settled; it is ahead of
\* its marks only after ErrStopConsumeClaim, and then it reaches no mark.
MemberInv(c) ==
    /\ marked[c] <= position[c] /\ position[c] <= Len(log)
    /\ \A p \in 0 .. marked[c] - 1 : Settled(p)
    /\ session[c] = "open" => AtMark(c)
    /\ pc[c] \in {"apply", "cancel", "commit", "sync", "skip", "mark"} => AtMark(c)
    /\ pc[c] = "mark" => Settled(position[c])

DeliveryInv ==
    /\ offset <= Len(log)
    /\ NothingLost
    /\ \A c \in Consumers : MemberInv(c)
=============================================================================
