---------------------------- MODULE OutboxWorker ----------------------------
(***************************************************************************)
(* The transactional outbox of both services: the outbox table, the        *)
(* workers that poll it (one per instance of the service), and the Kafka   *)
(* producer client through which they publish.                             *)
(*                                                                         *)
(* Time is left open: a retry may become due and a send may time out at    *)
(* any moment.  Nothing ends a batch at processing_timeout: a lock may     *)
(* grow older than that while its worker is still busy (ReleaseOverrun).   *)
(***************************************************************************)
EXTENDS Integers, FiniteSets

CONSTANTS
    Workers,        \* running instances of the worker
    Events,         \* rows of the outbox
    Unsupported,    \* rows whose event type has no topic
    CreatedAt,      \* created_at of a row
    BatchSize,      \* kafka.outbox.batch_size
    MaxRetries,     \* kafka.outbox.max_retries
    MaxFaults       \* bound on crashes, shutdowns, failed statements and overruns

ASSUME OutboxAssumption ==
    /\ IsFiniteSet(Workers) /\ Workers # {}
    /\ IsFiniteSet(Events)
    /\ Unsupported \subseteq Events
    /\ CreatedAt \in [Events -> Nat]
    /\ BatchSize \in Nat \ {0}
    /\ MaxRetries \in Nat
    /\ MaxFaults \in Nat

VARIABLES
    status,     \* outbox.status; none before the row is committed
    retryCount, \* outbox.retry_count
    due,        \* outbox.available_at is over
    delivered,  \* events that reached the topic
    failures,   \* failed sends of an event, up to MaxRetries + 1 (history)
    pc,         \* step of the worker
    claimed,    \* rows of its batch as ClaimPendingEvents returned them
    current,    \* the event in hand
    late,       \* messages still in the producer after the send gave up
    overrun,    \* a row was released under its worker (history)
    faults      \* crashes, shutdowns, failed statements and overruns so far

tableVars == <<status, retryCount, due>>
vars == <<tableVars, delivered, failures, pc, claimed, current, late, overrun, faults>>

Row == [event : Events, retryCount : Nat]

Init ==
    /\ status = [e \in Events |-> "none"]
    /\ retryCount = [e \in Events |-> 0]
    /\ due = [e \in Events |-> FALSE]
    /\ delivered = {}
    /\ failures = [e \in Events |-> 0]
    /\ pc = [w \in Workers |-> "idle"]
    /\ claimed = [w \in Workers |-> {}]
    /\ current \in [Workers -> Events]
    /\ late = [w \in Workers |-> {}]
    /\ overrun = FALSE
    /\ faults = 0

Goto(w, label) == pc' = [pc EXCEPT ![w] = label]
Fault == faults < MaxFaults /\ faults' = faults + 1

\* History: the count stops where the property below no longer tells values
\* apart.
CountFailure(e) ==
    failures' = [failures EXCEPT ![e] = IF @ > MaxRetries THEN @ ELSE @ + 1]

\* Events that w still has to publish or to record.
Held(w) == {row.event : row \in claimed[w]}

\* The worker is done with its event; its row leaves the batch.
NextEvent(w) ==
    /\ Goto(w, "idle")
    /\ claimed' = [claimed EXCEPT ![w] = {row \in @ : row.event # current[w]}]

-----------------------------------------------------------------------------
(* The table.                                                              *)

\* SaveOutboxEvent in the transaction of the business change, which commits.
SaveOutboxEvent(e) ==
    /\ status[e] = "none"
    /\ status' = [status EXCEPT ![e] = "pending"]
    /\ due' = [due EXCEPT ![e] = TRUE]
    /\ UNCHANGED <<retryCount, delivered, failures, pc, claimed, current, late, overrun, faults>>

\* available_at of a scheduled retry passes.
RetryDue(e) ==
    /\ status[e] = "pending" /\ ~due[e]
    /\ due' = [due EXCEPT ![e] = TRUE]
    /\ UNCHANGED <<status, retryCount, delivered, failures, pc, claimed, current, late, overrun, faults>>

\* Seeded variant for checking: the LIMIT is forgotten.
AllReady == {{e \in Events : status[e] = "pending" /\ due[e]}}

\* Batches that the candidates query may return: the oldest due rows.
Candidates ==
    LET ready == {e \in Events : status[e] = "pending" /\ due[e]}
    IN  {S \in SUBSET ready :
           /\ Cardinality(S) = IF Cardinality(ready) < BatchSize THEN Cardinality(ready)
                                                                ELSE BatchSize
           /\ \A e \in S, f \in ready \ S : CreatedAt[e] <= CreatedAt[f]}

\* processBatch claims a batch in one statement.
ClaimPendingEvents(w) ==
    /\ pc[w] = "idle" /\ claimed[w] = {}
    /\ \E S \in Candidates :
          /\ S # {}
          /\ status' = [e \in Events |-> IF e \in S THEN "processing" ELSE status[e]]
          /\ claimed' = [claimed EXCEPT
                           ![w] = {[event |-> e, retryCount |-> retryCount[e]] : e \in S}]
    /\ UNCHANGED <<retryCount, due, delivered, failures, pc, current, late, overrun, faults>>

\* The rows are claimed but the answer is lost: the batch is given up.
ClaimReplyLost(w) ==
    /\ pc[w] = "idle" /\ claimed[w] = {}
    /\ Fault
    /\ \E S \in Candidates :
          /\ S # {}
          /\ status' = [e \in Events |-> IF e \in S THEN "processing" ELSE status[e]]
    /\ UNCHANGED <<retryCount, due, delivered, failures, pc, claimed, current, late, overrun>>

\* Seeded variant for checking: the age of the lock is not looked at.
AnyProcessing(e) == status[e] = "processing"

\* The lock of e outlived its worker: nobody will record a result any more.
Stuck(e) ==
    /\ status[e] = "processing"
    /\ \A w \in Workers : e \notin Held(w)

\* releaseStuck on start and on its ticker; it runs between batches.
ReleaseStuckEvents(w) ==
    /\ pc[w] = "idle" /\ claimed[w] = {}
    /\ \E S \in SUBSET {e \in Events : Stuck(e)} :
          /\ S # {}
          /\ status' = [e \in Events |-> IF e \in S THEN "pending" ELSE status[e]]
          /\ due' = [e \in Events |-> e \in S \/ due[e]]
    /\ UNCHANGED <<retryCount, delivered, failures, pc, claimed, current, late, overrun, faults>>

\* The same statement finds locks older than processing_timeout whose worker
\* is still at work on its batch; it has no way to tell.
ReleaseOverrun(w) ==
    /\ pc[w] = "idle" /\ claimed[w] = {}
    /\ Fault
    /\ \E S \in SUBSET {e \in Events : status[e] = "processing"} :
          /\ \E e \in S : ~Stuck(e)
          /\ status' = [e \in Events |-> IF e \in S THEN "pending" ELSE status[e]]
          /\ due' = [e \in Events |-> e \in S \/ due[e]]
    /\ overrun' = TRUE
    /\ UNCHANGED <<retryCount, delivered, failures, pc, claimed, current, late>>

-----------------------------------------------------------------------------
(* The producer client.                                                    *)

\* processEvent hands the next row of the batch to the producer; an event
\* type without a topic, or a producer that is closing, is an error at once.
SendMessage(w) ==
    /\ pc[w] = "idle"
    /\ \E e \in Held(w) :
          /\ current' = [current EXCEPT ![w] = e]
          /\ \/ /\ e \notin Unsupported
                /\ Goto(w, "wait")
                /\ UNCHANGED failures
             \/ /\ Goto(w, "error")
                /\ CountFailure(e)
    /\ UNCHANGED <<tableVars, delivered, claimed, late, overrun, faults>>

\* handleSuccess: the broker has the message.
handleSuccess(w) ==
    /\ pc[w] = "wait"
    /\ delivered' = delivered \cup {current[w]}
    /\ Goto(w, "mark")
    /\ UNCHANGED <<tableVars, failures, claimed, current, late, overrun, faults>>

\* handleError: the broker refused it, or kept it and the answer was lost.
handleError(w) ==
    /\ pc[w] = "wait"
    /\ delivered' \in {delivered, delivered \cup {current[w]}}
    /\ CountFailure(current[w])
    /\ Goto(w, "error")
    /\ UNCHANGED <<tableVars, claimed, current, late, overrun, faults>>

\* waitPublishResult gives up at its timeout; the message stays queued.
PublishTimesOut(w) ==
    /\ pc[w] = "wait"
    /\ late' = [late EXCEPT ![w] = @ \cup {current[w]}]
    /\ CountFailure(current[w])
    /\ Goto(w, "error")
    /\ UNCHANGED <<tableVars, delivered, claimed, current, overrun, faults>>

\* The producer delivers or drops a message nobody waits for any more.
LateResult(w, e) ==
    /\ e \in late[w]
    /\ late' = [late EXCEPT ![w] = @ \ {e}]
    /\ delivered' \in {delivered, delivered \cup {e}}
    /\ UNCHANGED <<tableVars, failures, pc, claimed, current, overrun, faults>>

-----------------------------------------------------------------------------
(* What the worker records.                                                *)

\* Seeded variant for checking: the row is written whatever its status.
WriteRow(e, s, n) ==
    /\ status' = [status EXCEPT ![e] = s]
    /\ retryCount' = [retryCount EXCEPT ![e] = n]
    /\ due' = [due EXCEPT ![e] = FALSE]

\* UPDATE ... WHERE id = e AND status = 'processing'; when no row matches the
\* error is only logged.
UpdateProcessing(e, s, n) ==
    \/ /\ status[e] = "processing"
       /\ status' = [status EXCEPT ![e] = s]
       /\ retryCount' = [retryCount EXCEPT ![e] = n]
       /\ due' = [due EXCEPT ![e] = FALSE]
    \/ /\ status[e] # "processing"
       /\ UNCHANGED tableVars

\* The send succeeded.
MarkPublished(w) ==
    /\ pc[w] = "mark"
    /\ UpdateProcessing(current[w], "published", retryCount[current[w]])
    /\ NextEvent(w)
    /\ UNCHANGED <<delivered, failures, current, late, overrun, faults>>

\* Seeded variants for checking: one retry too few, and one too many.
ExhaustedEarly(w) ==
    \E row \in claimed[w] : row.event = current[w] /\ row.retryCount + 1 >= MaxRetries

ExhaustedLate(w) ==
    \E row \in claimed[w] : row.event = current[w] /\ row.retryCount > MaxRetries

\* handleSendError looks at retry_count as it was when the row was claimed.
Exhausted(w) ==
    \E row \in claimed[w] : row.event = current[w] /\ row.retryCount >= MaxRetries

\* Seeded variant for checking: no send is ever the last one.
RetryForEver(w) ==
    /\ pc[w] = "error"
    /\ UpdateProcessing(current[w], "pending", retryCount[current[w]])
    /\ NextEvent(w)
    /\ UNCHANGED <<delivered, failures, current, late, overrun, faults>>

\* handleSendError: failed after the last retry, else pending again later.
handleSendError(w) ==
    /\ pc[w] = "error"
    /\ UpdateProcessing(current[w], IF Exhausted(w) THEN "failed" ELSE "pending",
                        retryCount[current[w]] + 1)
    /\ NextEvent(w)
    /\ UNCHANGED <<delivered, failures, current, late, overrun, faults>>

\* A statement of MarkPublished or handleSendError fails; the row stays as it
\* is until releaseStuck finds it.
RecordFails(w) ==
    /\ pc[w] \in {"mark", "error"}
    /\ Fault
    /\ NextEvent(w)
    /\ UNCHANGED <<tableVars, delivered, failures, current, late, overrun>>

\* The service stops between two events of a batch.
Interrupt(w) ==
    /\ pc[w] = "idle" /\ claimed[w] # {}
    /\ Fault
    /\ claimed' = [claimed EXCEPT ![w] = {}]
    /\ UNCHANGED <<tableVars, delivered, failures, pc, current, late, overrun>>

\* The process dies with its batch and the messages in its producer.
Crash(w) ==
    /\ claimed[w] # {} \/ late[w] # {}
    /\ Fault
    /\ Goto(w, "idle")
    /\ claimed' = [claimed EXCEPT ![w] = {}]
    /\ late' = [late EXCEPT ![w] = {}]
    /\ UNCHANGED <<tableVars, delivered, failures, current, overrun>>

Step(w) ==
    \/ ClaimPendingEvents(w) \/ ReleaseStuckEvents(w) \/ SendMessage(w)
    \/ handleSuccess(w) \/ handleError(w) \/ PublishTimesOut(w)
    \/ MarkPublished(w) \/ handleSendError(w)

Next ==
    \/ \E w \in Workers :
          \/ Step(w) \/ ClaimReplyLost(w) \/ ReleaseOverrun(w)
          \/ RecordFails(w) \/ Interrupt(w) \/ Crash(w)
          \/ \E e \in Events : LateResult(w, e)
    \/ \E e \in Events : SaveOutboxEvent(e) \/ RetryDue(e)

Spec == Init /\ [][Next]_vars

\* The tickers of Run fire again and again, every call has a timeout, and time
\* passes.
FairSpec ==
    /\ Spec
    /\ \A w \in Workers : WF_vars(Step(w))
    /\ \A e \in Events : WF_vars(RetryDue(e))

-----------------------------------------------------------------------------
(* Properties.                                                             *)

\* Types of all variables.  A batch has at most BatchSize rows, one for each of
\* its events, and a worker at work on an event has its row.
TypeOK ==
    /\ status \in [Events -> {"none", "pending", "processing", "published", "failed"}]
    /\ retryCount \in [Events -> Nat]
    /\ due \in [Events -> BOOLEAN]
    /\ delivered \subseteq Events
    /\ failures \in [Events -> Nat]
    /\ pc \in [Workers -> {"idle", "wait", "mark", "error"}]
    /\ claimed \in [Workers -> SUBSET Row]
    /\ current \in [Workers -> Events]
    /\ late \in [Workers -> SUBSET Events]
    /\ overrun \in BOOLEAN
    /\ faults \in 0 .. MaxFaults
    /\ \A w \in Workers :
          /\ Cardinality(claimed[w]) <= BatchSize
          /\ \A r1, r2 \in claimed[w] : r1.event = r2.event => r1 = r2
          /\ pc[w] # "idle" => current[w] \in Held(w)

\* The outbox as a contract: saved, delivered at least once or given up.
Saved == {e \in Events : status[e] # "none"}

Outcome == [e \in Events |-> CASE status[e] = "published" -> "published"
                               [] status[e] = "failed"    -> "abandoned"
                               [] OTHER                   -> "open"]

Contract == INSTANCE OutboxContract WITH
    saved <- Saved, topic <- delivered, outcome <- Outcome

\* Whatever workers crash, overlap or answer late, the outbox keeps its
\* contract: a row is published only if its event reached the topic, and a row
\* that is published or failed never changes again.
KeepsContract == Contract!ContractSpec

\* A row is failed only after its event was sent max_retries times after the
\* first attempt and all of those sends failed (handleSendError), even when
\* workers overlap and look at old retry counts.
FailedAfterAllRetries ==
    \A e \in Events : status[e] = "failed" => failures[e] >= MaxRetries + 1

\* A row's retry_count passes max_retries by no more than the number of
\* workers, even when batches outlive processing_timeout and each worker
\* decides by the count it claimed (handleSendError): a worker holds one claim
\* of a row at a time, so it can count one old claim beyond the limit, and the
\* first claim at the limit closes the row.
RetryBound == \A e \in Events : retryCount[e] <= MaxRetries + Cardinality(Workers)

\* As long as no batch has outlived processing_timeout, a row is in the hands
\* of one worker, which knows its retry count (SKIP LOCKED in
\* ClaimPendingEvents, and releaseStuck).
OneWorkerPerRow ==
    ~overrun =>
       /\ \A v, w \in Workers : v # w => Held(v) \cap Held(w) = {}
       /\ \A w \in Workers : \A row \in claimed[w] :
             status[row.event] = "processing" /\ retryCount[row.event] = row.retryCount

\* docs.md says that an error counts the retry first and then fails the row
\* whose count has reached max_retries, so that a row waiting for a retry is
\* below max_retries.
PendingBelowMaxRetries ==
    \A e \in Events : status[e] = "pending" => retryCount[e] < MaxRetries

\* Every saved row is published or failed in the end, through crashes, lost
\* answers, failed statements and overlapping batches, once those stop.
EveryRowClosed ==
    \A e \in Events : status[e] # "none" ~> status[e] \in {"published", "failed"}

-----------------------------------------------------------------------------
(* Inductive strengthenings.                                               *)

\* What a worker holds, or left behind in its producer, was committed; what it
\* marks as published reached the topic.
SavedInv ==
    \A w \in Workers :
       /\ \A e \in Held(w) \cup late[w] : status[e] # "none"
       /\ pc[w] = "mark" => current[w] \in delivered

\* Workers that claimed e before its count reached the limit.
Stale(e) ==
    {w \in Workers : \E row \in claimed[w] : row.event = e /\ row.retryCount < MaxRetries}

\* An open row at the limit leaves room for every worker that can still count
\* an old claim, and for the one that closes it.
RowBounded(e) ==
    \/ status[e] \in {"published", "failed"} /\ retryCount[e] <= MaxRetries + Cardinality(Workers)
    \/ retryCount[e] < MaxRetries
    \/ retryCount[e] + Cardinality(Stale(e)) < MaxRetries + Cardinality(Workers)

OpenRowsInv == \A e \in Events : RowBounded(e)

\* Workers about to record a failed send of e.
Recording(e) == {w \in Workers : pc[w] = "error" /\ current[w] = e}

RowCounted(e) ==
    \/ failures[e] > MaxRetries
    \/ retryCount[e] + Cardinality(Recording(e)) <= failures[e]

\* Every counted retry was a failed send, and so is every retry that a worker
\* is about to count; a worker never looks at a count that is ahead of the row.
CountInv ==
    /\ \A e \in Events : RowCounted(e)
    /\ \A w \in Workers : \A row \in claimed[w] : row.retryCount <= retryCount[row.event]
=============================================================================
