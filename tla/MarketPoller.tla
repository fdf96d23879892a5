---------------------------- MODULE MarketPoller ----------------------------
(***************************************************************************)
(* MarketPoller of the spot service: it reads the market rows that changed *)
(* after its cursor and announces them in the outbox together with the new *)
(* cursor.  What the poll does to the caches afterwards is in              *)
(* MarketViewer.tla.                                                       *)
(*                                                                         *)
(* A change is a transaction that updates some rows; a trigger sets their  *)
(* updated_at to NOW(), the start of that transaction.  The contents of a  *)
(* row are its revision.  Market ids are numbers, ordered like UUIDs.      *)
(***************************************************************************)
EXTENDS Integers, FiniteSets

CONSTANTS
    Instances,      \* running instances of the spot service
    Markets,        \* ids of the rows of market_store
    Writers,        \* transactions that change markets at the same time
    BatchSize,      \* market_poller.batch_size
    Serialized,     \* changes commit in the order of their updated_at
    Faults,         \* which of FaultKinds may happen
    MaxClock,       \* bound on timestamps
    MaxFaults       \* bound on faults

(***************************************************************************)
(*  crash       the process dies between two steps;                        *)
(*  db          a statement or a commit fails without effect;              *)
(*  commit      PostgreSQL committed, Commit returns an error.             *)
(***************************************************************************)
FaultKinds == {"crash", "db", "commit"}

ASSUME PollerAssumption ==
    /\ IsFiniteSet(Markets) /\ Markets \subseteq Nat \ {0}
    /\ BatchSize \in Nat \ {0}
    /\ Serialized \in BOOLEAN
    /\ Faults \subseteq FaultKinds
    /\ MaxClock \in Nat /\ MaxFaults \in Nat

VARIABLES
    clock,       \* the next timestamp
    openTx,      \* start of the transaction of a writer, 0 if it has none
    rows,        \* committed market_store: updated_at and revision
    outbox,      \* announced revisions of markets
    savedCursor, \* the row of market_poller_cursor
    pc,          \* step of the poller
    cursor,      \* lastSeenAt and lastSeenID in memory
    batch,       \* rows that ListUpdatedSince returned
    faults,      \* faults so far
    late         \* auxiliary: markets whose last change committed behind a poller

rowVars == <<clock, openTx, rows, late>>
dbVars == <<outbox, savedCursor>>
pollVars == <<pc, cursor, batch>>
vars == <<rowVars, dbVars, pollVars, faults>>

\* The zero time and uuid.Nil.
NoCursor == [at |-> 0, id |-> 0]

\* The migration gives all rows the same updated_at.
Init ==
    /\ clock = 2
    /\ openTx = [w \in Writers |-> 0]
    /\ rows = [m \in Markets |-> [at |-> 1, revision |-> 1]]
    /\ outbox = {}
    /\ savedCursor = NoCursor
    /\ pc = [i \in Instances |-> "down"]
    /\ cursor = [i \in Instances |-> NoCursor]
    /\ batch = [i \in Instances |-> {}]
    /\ faults = 0
    /\ late = {}

Goto(i, label) == pc' = [pc EXCEPT ![i] = label]
Fault(kind) == kind \in Faults /\ faults < MaxFaults /\ faults' = faults + 1

\* (updated_at, id) of a row, and the order of such pairs in PostgreSQL.
Key(m) == [at |-> rows[m].at, id |-> m]
Before(k, l) == k.at < l.at \/ (k.at = l.at /\ k.id < l.id)

-----------------------------------------------------------------------------
(* Changes of markets.                                                     *)

BeginChange(w) ==
    /\ openTx[w] = 0 /\ clock < MaxClock
    /\ openTx' = [openTx EXCEPT ![w] = clock]
    /\ clock' = clock + 1
    /\ UNCHANGED <<rows, late, dbVars, pollVars, faults>>

\* A poller has read, or a cursor has passed, the place of k.
Reached(k) ==
    \/ ~Before(savedCursor, k)
    \/ \E i \in Instances :
          \/ ~Before(cursor[i], k)
          \/ \E r \in batch[i] : ~Before([at |-> r.at, id |-> r.market], k)

\* The trigger set_market_updated_at, and the commit.
CommitChange(w) ==
    /\ openTx[w] # 0
    /\ Serialized => \A m \in Markets : rows[m].at < openTx[w]
    /\ \E S \in SUBSET Markets :
          /\ S # {}
          /\ rows' = [m \in Markets |->
                        IF m \in S THEN [at |-> openTx[w], revision |-> rows[m].revision + 1]
                        ELSE rows[m]]
          /\ late' = (late \ S) \cup {m \in S : Reached([at |-> openTx[w], id |-> m])}
    /\ openTx' = [openTx EXCEPT ![w] = 0]
    /\ UNCHANGED <<clock, dbVars, pollVars, faults>>

-----------------------------------------------------------------------------
(* The poller.                                                             *)

\* Init loads the cursor when the process starts; Run starts with a poll.
\* When Run is restarted after an error the cursor in memory stays.
loadCursor(i) ==
    /\ pc[i] = "down"
    /\ cursor' = [cursor EXCEPT ![i] = savedCursor]
    /\ Goto(i, "poll")
    /\ UNCHANGED <<rowVars, dbVars, batch, faults>>

\* Seeded variant for checking: the id is left out of the comparison.
ChangedSinceTime(k) == {m \in Markets : k.at < rows[m].at}

\* WHERE (updated_at, id) > (lastSeenAt, lastSeenID).
ChangedSince(k) == {m \in Markets : Before(k, Key(m))}

\* Seeded variant for checking: no LIMIT.
AllChanged(k) == {ChangedSince(k)}

\* ORDER BY updated_at, id LIMIT batchSize.
FirstChanged(k) ==
    {S \in SUBSET ChangedSince(k) :
       /\ Cardinality(S) = IF Cardinality(ChangedSince(k)) < BatchSize
                           THEN Cardinality(ChangedSince(k)) ELSE BatchSize
       /\ \A m \in S, n \in ChangedSince(k) \ S : Before(Key(m), Key(n))}

\* A poll that finds nothing, or cannot read, leaves everything as it is.
ListUpdatedSince(i) ==
    /\ pc[i] = "poll"
    /\ \E S \in FirstChanged(cursor[i]) :
          /\ S # {}
          /\ batch' = [batch EXCEPT
                         ![i] = {[market |-> m, at |-> rows[m].at, revision |-> rows[m].revision] :
                                   m \in S}]
    /\ Goto(i, "publish")
    /\ UNCHANGED <<rowVars, dbVars, cursor, faults>>

\* buildNextPollerCursor: the last row of the batch.
NextCursor(i, k) ==
    /\ \E r \in batch[i] : k = [at |-> r.at, id |-> r.market]
    /\ \A r \in batch[i] : ~Before(k, [at |-> r.at, id |-> r.market])

\* One transaction: an outbox row for each market, and the cursor.
SaveBatch(i, k) ==
    /\ outbox' = outbox \cup {[market |-> r.market, revision |-> r.revision] : r \in batch[i]}
    /\ savedCursor' = k

\* Seeded variant for checking: the cursor in memory is not advanced.
PublishAndStay(i) ==
    /\ pc[i] = "publish"
    /\ \E k \in [at : {r.at : r \in batch[i]}, id : Markets] :
          NextCursor(i, k) /\ SaveBatch(i, k)
    /\ Goto(i, "poll")
    /\ batch' = [batch EXCEPT ![i] = {}]
    /\ UNCHANGED <<rowVars, cursor, faults>>

\* PublishMarketStateChanged commits; processNextBatch advances the cursor in
\* memory; the next batch follows at once or with the next tick.
PublishMarketStateChanged(i) ==
    /\ pc[i] = "publish"
    /\ \E k \in [at : {r.at : r \in batch[i]}, id : Markets] :
          /\ NextCursor(i, k)
          /\ SaveBatch(i, k)
          /\ cursor' = [cursor EXCEPT ![i] = k]
    /\ Goto(i, "poll")
    /\ batch' = [batch EXCEPT ![i] = {}]
    /\ UNCHANGED <<rowVars, faults>>

\* An error ends the poll; the batch is given up, the cursor stays.
AbandonBatch(i) ==
    /\ batch' = [batch EXCEPT ![i] = {}]
    /\ Goto(i, "poll")
    /\ UNCHANGED cursor

\* The poll times out or the transaction fails; or it commits and reports failure.
PollFails(i) ==
    /\ pc[i] = "publish"
    /\ \/ Fault("db") /\ UNCHANGED dbVars
       \/ /\ Fault("commit")
          /\ \E k \in [at : {r.at : r \in batch[i]}, id : Markets] :
                NextCursor(i, k) /\ SaveBatch(i, k)
    /\ AbandonBatch(i)
    /\ UNCHANGED rowVars

Crash(i) ==
    /\ pc[i] # "down"
    /\ Fault("crash")
    /\ Goto(i, "down")
    /\ cursor' = [cursor EXCEPT ![i] = NoCursor]
    /\ batch' = [batch EXCEPT ![i] = {}]
    /\ UNCHANGED <<rowVars, dbVars>>

Poll(i) == loadCursor(i) \/ ListUpdatedSince(i) \/ PublishMarketStateChanged(i)

Next ==
    \/ \E w \in Writers : BeginChange(w) \/ CommitChange(w)
    \/ \E i \in Instances : Poll(i) \/ PollFails(i) \/ Crash(i)

Spec == Init /\ [][Next]_vars

\* The ticker of Run fires again and again, a poller that returned an error is
\* restarted, and every call has a timeout.
FairSpec == Spec /\ \A i \in Instances : WF_vars(Poll(i))

-----------------------------------------------------------------------------
(* Properties.                                                             *)

\* Types of all variables.
Types ==
    /\ clock \in Nat
    /\ openTx \in [Writers -> Nat]
    /\ rows \in [Markets -> [at : Nat, revision : Nat]]
    /\ outbox \subseteq [market : Markets, revision : Nat]
    /\ savedCursor \in [at : Nat, id : Nat]
    /\ pc \in [Instances -> {"down", "poll", "publish"}]
    /\ cursor \in [Instances -> [at : Nat, id : Nat]]
    /\ batch \in [Instances -> SUBSET [market : Markets, at : Nat, revision : Nat]]
    /\ faults \in 0 .. MaxFaults
    /\ late \subseteq Markets

\* A poller has a batch exactly while it publishes it, and the batch has at most
\* batch_size rows.
BatchOK ==
    \A i \in Instances : /\ IsFiniteSet(batch[i])
                         /\ Cardinality(batch[i]) <= BatchSize
                         /\ pc[i] = "publish" <=> batch[i] # {}

\* Type invariant: the types of the variables, and the size of a batch.
TypeOK == Types /\ BatchOK

\* The current contents of m are in the outbox.
Announced(m) == [market |-> m, revision |-> rows[m].revision] \in outbox

\* The change of m is still ahead of the saved cursor and of all running pollers.
Ahead(m) ==
    /\ Before(savedCursor, Key(m))
    /\ \A i \in Instances : Before(cursor[i], Key(m))

\* No cursor, neither the saved one nor that of a running poller, is past a
\* change that was not announced: whatever fails, is lost or restarts, a change
\* is read again until it is in the outbox (cursor and events are saved in one
\* transaction, and ListUpdatedSince compares updated_at and id).
NoChangeSkipped == \A m \in Markets : Announced(m) \/ Ahead(m)

\* The one way to lose a change, in whatever order transactions commit: its
\* updated_at, the start of its transaction, is not after all that pollers had
\* read when it committed.  Failures, restarts, overlapping instances, batches
\* cut off inside one updated_at and commits of unknown outcome lose nothing.
SkippedOnlyIfLate == \A m \in Markets \ late : Announced(m) \/ Ahead(m)

\* Every change of a market is announced, or a later one of the same market is,
\* because a poll that failed is repeated from the old cursor; unless a late one
\* takes its place.
EveryChangeAnnounced ==
    \A m \in Markets : \A n \in 1 .. MaxClock - 1 :
       rows[m].revision = n /\ m \notin late ~>
          m \in late \/ \E e \in outbox : e.market = m /\ e.revision >= n

-----------------------------------------------------------------------------
(* Inductive strengthenings.                                               *)

\* No change that is yet to be announced is passed over by a batch: it is in
\* the batch, or comes after all of it.
InBatchOrAfter(m, i) ==
    \/ [market |-> m, at |-> rows[m].at, revision |-> rows[m].revision] \in batch[i]
    \/ \A r \in batch[i] : Before([at |-> r.at, id |-> r.market], Key(m))

LateInv ==
    \A m \in Markets \ late :
       Announced(m) \/ (Ahead(m) /\ \A i \in Instances : InBatchOrAfter(m, i))

\* A cursor, or a row that was read, is not ahead of all rows.
Behind(time) == time = 0 \/ \E m \in Markets : time <= rows[m].at

\* When changes commit in the order of their updated_at, none is late.
SerialInv ==
    /\ late = {}
    /\ \A m \in Markets : rows[m].at > 0
    /\ Behind(savedCursor.at)
    /\ \A i \in Instances : /\ Behind(cursor[i].at)
                            /\ \A r \in batch[i] : Behind(r.at)
=============================================================================
