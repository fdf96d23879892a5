------------------------- MODULE OutboxWorkerProofs -------------------------
(***************************************************************************)
(* Proofs about the outbox worker: its types, the contract it implements,  *)
(* and what retry counts mean when batches overlap.                        *)
(***************************************************************************)
EXTENDS OutboxWorker, Functions, FiniteSetTheorems, TLAPS

\* A batch has no more rows than events were claimed.
LEMMA BatchSizeLemma ==
    ASSUME NEW S, IsFiniteSet(S), NEW rc
    PROVE  LET rows == {[event |-> e, retryCount |-> rc[e]] : e \in S}
           IN  IsFiniteSet(rows) /\ Cardinality(rows) <= Cardinality(S)
<1> DEFINE rows == {[event |-> e, retryCount |-> rc[e]] : e \in S}
           f == [e \in S |-> [event |-> e, retryCount |-> rc[e]]]
<1>1. f \in [S -> rows]
  OBVIOUS
<1>2. \A r \in rows : \E e \in S : f[e] = r
  OBVIOUS
<1>3. f \in Surjection(S, rows)
  BY <1>1, <1>2 DEF Surjection
<1> HIDE DEF rows, f
<1>4. IsFiniteSet(rows) /\ Cardinality(rows) <= Cardinality(S)
  BY <1>3, FS_Surjection
<1> QED
  BY <1>4 DEF rows

\* A claimed batch is a set of pending rows with at most BatchSize elements.
LEMMA CandidatesLemma ==
    ASSUME TypeOK, NEW S \in Candidates
    PROVE  /\ S \subseteq Events
           /\ \A e \in S : status[e] = "pending"
           /\ IsFiniteSet(S)
           /\ Cardinality(S) <= BatchSize
<1> DEFINE ready == {e \in Events : status[e] = "pending" /\ due[e]}
<1>1. /\ S \subseteq ready
      /\ Cardinality(S) = IF Cardinality(ready) < BatchSize THEN Cardinality(ready)
                                                            ELSE BatchSize
  BY DEF Candidates
<1>2. S \in SUBSET Events /\ \A e \in S : status[e] = "pending"
  BY <1>1
<1>3. IsFiniteSet(S)
  BY <1>2, OutboxAssumption, FS_Subset
<1>4. ready \in SUBSET Events
  OBVIOUS
<1>5. Cardinality(ready) \in Nat
  BY <1>4, OutboxAssumption, FS_Subset, FS_CardinalityType
<1>6. Cardinality(S) <= BatchSize
  <2> HIDE DEF ready
  <2> QED BY <1>1, <1>5, OutboxAssumption
<1> QED
  BY <1>2, <1>3, <1>6

-----------------------------------------------------------------------------
(* Types.                                                                  *)

\* Batches are finite; the bound on their size is a conjunct of TypeOK.
FiniteBatches == \A w \in Workers : IsFiniteSet(claimed[w])

\* Fewer rows are still a batch.
LEMMA SmallerBatch ==
    ASSUME NEW rows, NEW smaller \in SUBSET rows, IsFiniteSet(rows),
           Cardinality(rows) <= BatchSize,
           \A r1, r2 \in rows : r1.event = r2.event => r1 = r2
    PROVE  /\ IsFiniteSet(smaller)
           /\ Cardinality(smaller) <= BatchSize
           /\ \A r1, r2 \in smaller : r1.event = r2.event => r1 = r2
<1>1. IsFiniteSet(smaller) /\ Cardinality(smaller) <= Cardinality(rows)
  BY FS_Subset
<1>2. Cardinality(smaller) \in Nat /\ Cardinality(rows) \in Nat
  BY <1>1, FS_CardinalityType
<1>3. Cardinality(smaller) <= BatchSize
  BY <1>1, <1>2, OutboxAssumption
<1> QED
  BY <1>1, <1>3

\* The worker that is done with its event keeps the rest of its batch.
LEMMA NextEventBatch ==
    ASSUME TypeOK, FiniteBatches, NEW w \in Workers, NextEvent(w)
    PROVE  /\ pc' \in [Workers -> {"idle", "wait", "mark", "error"}]
           /\ claimed' \in [Workers -> SUBSET Row]
           /\ \A v \in Workers :
                 /\ IsFiniteSet(claimed'[v])
                 /\ Cardinality(claimed'[v]) <= BatchSize
                 /\ \A r1, r2 \in claimed'[v] : r1.event = r2.event => r1 = r2
                 /\ pc'[v] # "idle" => v # w /\ pc'[v] = pc[v] /\ claimed'[v] = claimed[v]
<1>1. /\ pc' = [pc EXCEPT ![w] = "idle"]
      /\ claimed' = [claimed EXCEPT ![w] = {row \in @ : row.event # current[w]}]
  BY DEF NextEvent, Goto
<1>2. /\ pc \in [Workers -> {"idle", "wait", "mark", "error"}]
      /\ claimed \in [Workers -> SUBSET Row]
      /\ \A v \in Workers :
            /\ Cardinality(claimed[v]) <= BatchSize
            /\ \A r1, r2 \in claimed[v] : r1.event = r2.event => r1 = r2
  BY DEF TypeOK
<1>3. /\ pc' \in [Workers -> {"idle", "wait", "mark", "error"}]
      /\ claimed' \in [Workers -> SUBSET Row]
      /\ \A v \in Workers : claimed'[v] \subseteq claimed[v]
      /\ \A v \in Workers : pc'[v] # "idle" => v # w /\ pc'[v] = pc[v] /\ claimed'[v] = claimed[v]
  BY <1>1, <1>2
<1>4. ASSUME NEW v \in Workers
      PROVE  /\ IsFiniteSet(claimed'[v])
             /\ Cardinality(claimed'[v]) <= BatchSize
             /\ \A r1, r2 \in claimed'[v] : r1.event = r2.event => r1 = r2
  <2>1. claimed'[v] \in SUBSET claimed[v]
    BY <1>3
  <2>2. IsFiniteSet(claimed[v])
    BY DEF FiniteBatches
  <2> QED
    BY <2>1, <2>2, <1>2, SmallerBatch
<1> QED
  BY <1>3, <1>4

\* What TypeOK says of the variables and batches that a step leaves alone.
LEMMA TypeFacts ==
    ASSUME TypeOK
    PROVE  /\ status \in [Events -> {"none", "pending", "processing", "published", "failed"}]
           /\ retryCount \in [Events -> Nat]
           /\ due \in [Events -> BOOLEAN]
           /\ delivered \subseteq Events
           /\ failures \in [Events -> Nat]
           /\ pc \in [Workers -> {"idle", "wait", "mark", "error"}]
           /\ claimed \in [Workers -> SUBSET Row]
           /\ current \in [Workers -> Events]
           /\ late \in [Workers -> SUBSET Events]
           /\ overrun \in BOOLEAN
           /\ faults \in 0 .. MaxFaults
           /\ \A w \in Workers :
                 /\ Cardinality(claimed[w]) <= BatchSize
                 /\ \A r1, r2 \in claimed[w] : r1.event = r2.event => r1 = r2
                 /\ pc[w] # "idle" => current[w] \in Held(w)
           /\ \A w \in Workers : Held(w) \subseteq Events
<1>1. claimed \in [Workers -> SUBSET Row]
  BY DEF TypeOK
<1>2. \A w \in Workers : Held(w) \subseteq Events
  BY <1>1 DEF Held, Row
<1> QED
  BY <1>2 DEF TypeOK

\* A failed send leaves a number of failures.
LEMMA CountFailureType ==
    ASSUME failures \in [Events -> Nat], NEW e \in Events, CountFailure(e)
    PROVE  failures' \in [Events -> Nat]
BY OutboxAssumption DEF CountFailure

\* A fault is counted within the bound.
LEMMA FaultType ==
    ASSUME faults \in 0 .. MaxFaults, Fault
    PROVE  faults' \in 0 .. MaxFaults
BY OutboxAssumption DEF Fault

\* What the worker records keeps the types of the row.
LEMMA UpdateProcessingType ==
    ASSUME TypeOK, NEW e \in Events, NEW n \in Nat,
           NEW s \in {"pending", "published", "failed"}, UpdateProcessing(e, s, n)
    PROVE  /\ status' \in [Events -> {"none", "pending", "processing", "published", "failed"}]
           /\ retryCount' \in [Events -> Nat]
           /\ due' \in [Events -> BOOLEAN]
<1>1. CASE UNCHANGED tableVars
  BY <1>1, TypeFacts DEF tableVars
<1>2. CASE /\ status' = [status EXCEPT ![e] = s]
           /\ retryCount' = [retryCount EXCEPT ![e] = n]
           /\ due' = [due EXCEPT ![e] = FALSE]
  BY <1>2, TypeFacts
<1> QED
  BY <1>1, <1>2 DEF UpdateProcessing

\* Steps that leave every batch alone, and start work only on a row in hand.
LEMMA SameBatches ==
    ASSUME TypeOK, FiniteBatches, UNCHANGED claimed,
           pc' \in [Workers -> {"idle", "wait", "mark", "error"}],
           \A v \in Workers : pc'[v] # "idle" => current'[v] \in Held(v)
    PROVE  /\ FiniteBatches'
           /\ claimed' \in [Workers -> SUBSET Row]
           /\ (\A v \in Workers :
                  /\ Cardinality(claimed[v]) <= BatchSize
                  /\ \A r1, r2 \in claimed[v] : r1.event = r2.event => r1 = r2
                  /\ pc[v] # "idle" => current[v] \in Held(v))'
<1>1. \A v \in Workers : Held(v)' = Held(v)
  BY DEF Held
<1> QED
  BY <1>1, TypeFacts DEF FiniteBatches

\* One step of the induction for TypeOK.
LEMMA TypeStep ==
    ASSUME TypeOK, FiniteBatches, [Next]_vars
    PROVE  TypeOK' /\ FiniteBatches'
<1> USE TypeFacts
<1>1. ASSUME NEW e \in Events, SaveOutboxEvent(e) \/ RetryDue(e)
      PROVE  TypeOK' /\ FiniteBatches'
  <2>1. /\ status' \in [Events -> {"none", "pending", "processing", "published", "failed"}]
        /\ due' = [due EXCEPT ![e] = TRUE]
        /\ UNCHANGED <<retryCount, delivered, failures, pc, claimed, current, late, overrun, faults>>
    <3>1. CASE SaveOutboxEvent(e)
      BY <3>1 DEF SaveOutboxEvent
    <3>2. CASE RetryDue(e)
      BY <3>2 DEF RetryDue
    <3> QED
      BY <1>1, <3>1, <3>2
  <2>2. due' \in [Events -> BOOLEAN]
    BY <2>1
  <2> QED
    BY <2>1, <2>2, SameBatches DEF TypeOK
<1>2. ASSUME NEW w \in Workers, ClaimPendingEvents(w)
      PROVE  TypeOK' /\ FiniteBatches'
  <2>1. PICK S \in Candidates :
           /\ status' = [e \in Events |-> IF e \in S THEN "processing" ELSE status[e]]
           /\ claimed' = [claimed EXCEPT
                            ![w] = {[event |-> e, retryCount |-> retryCount[e]] : e \in S}]
    BY <1>2 DEF ClaimPendingEvents
  <2>2. /\ pc[w] = "idle"
        /\ UNCHANGED <<retryCount, due, delivered, failures, pc, current, late, overrun, faults>>
    BY <1>2 DEF ClaimPendingEvents
  <2> DEFINE rows == {[event |-> e, retryCount |-> retryCount[e]] : e \in S}
  <2>3. S \subseteq Events /\ IsFiniteSet(S) /\ Cardinality(S) <= BatchSize
    BY CandidatesLemma
  <2>4. IsFiniteSet(rows) /\ Cardinality(rows) <= BatchSize
    <3>1. IsFiniteSet(rows) /\ Cardinality(rows) <= Cardinality(S)
      BY <2>3, BatchSizeLemma
    <3>2. Cardinality(rows) \in Nat /\ Cardinality(S) \in Nat
      BY <2>3, <3>1, FS_CardinalityType
    <3> HIDE DEF rows
    <3> QED
      BY <2>3, <3>1, <3>2, OutboxAssumption
  <2>5. rows \subseteq Row /\ \A r1, r2 \in rows : r1.event = r2.event => r1 = r2
    BY <2>3 DEF Row
  <2>6. status' \in [Events -> {"none", "pending", "processing", "published", "failed"}]
    BY <2>1
  <2>7. claimed' = [claimed EXCEPT ![w] = rows]
    BY <2>1
  <2> HIDE DEF rows
  <2>8. claimed' \in [Workers -> SUBSET Row]
    BY <2>5, <2>7
  <2>9. ASSUME NEW v \in Workers
        PROVE  /\ IsFiniteSet(claimed'[v])
               /\ Cardinality(claimed'[v]) <= BatchSize
               /\ \A r1, r2 \in claimed'[v] : r1.event = r2.event => r1 = r2
               /\ pc'[v] # "idle" => current'[v] \in Held(v)'
    <3>1. CASE v = w
      BY <3>1, <2>2, <2>4, <2>5, <2>7
    <3>2. CASE v # w
      <4>1. claimed'[v] = claimed[v] /\ pc'[v] = pc[v] /\ current'[v] = current[v]
        BY <3>2, <2>2, <2>7
      <4>2. Held(v)' = Held(v)
        BY <4>1 DEF Held
      <4> QED
        BY <4>1, <4>2 DEF FiniteBatches
    <3> QED
      BY <3>1, <3>2
  <2> QED
    BY <2>2, <2>6, <2>8, <2>9 DEF TypeOK, FiniteBatches
<1>3. ASSUME NEW w \in Workers,
             ClaimReplyLost(w) \/ ReleaseStuckEvents(w) \/ ReleaseOverrun(w)
      PROVE  TypeOK' /\ FiniteBatches'
  <2>1. /\ status' \in [Events -> {"none", "pending", "processing", "published", "failed"}]
        /\ due' \in [Events -> BOOLEAN]
        /\ UNCHANGED <<retryCount, delivered, failures, pc, claimed, current, late>>
        /\ overrun' \in BOOLEAN
        /\ Fault \/ UNCHANGED faults
    <3>1. CASE ClaimReplyLost(w)
      BY <3>1 DEF ClaimReplyLost
    <3>2. CASE ReleaseStuckEvents(w) \/ ReleaseOverrun(w)
      <4>1. PICK S \in SUBSET Events :
               /\ status' = [e \in Events |-> IF e \in S THEN "pending" ELSE status[e]]
               /\ due' = [e \in Events |-> e \in S \/ due[e]]
        BY <3>2 DEF ReleaseStuckEvents, ReleaseOverrun
      <4>2. due' \in [Events -> BOOLEAN]
        BY <4>1, Zenon
      <4>3. overrun' \in BOOLEAN
        BY <3>2 DEF ReleaseStuckEvents, ReleaseOverrun
      <4> QED
        BY <3>2, <4>1, <4>2, <4>3 DEF ReleaseStuckEvents, ReleaseOverrun
    <3> QED
      BY <1>3, <3>1, <3>2
  <2>2. faults' \in 0 .. MaxFaults
    BY <2>1, FaultType
  <2> QED
    BY <2>1, <2>2, SameBatches DEF TypeOK
<1>4. ASSUME NEW w \in Workers, SendMessage(w)
      PROVE  TypeOK' /\ FiniteBatches'
  <2>1. PICK e \in Held(w) :
           /\ current' = [current EXCEPT ![w] = e]
           /\ \/ Goto(w, "wait") /\ UNCHANGED failures
              \/ Goto(w, "error") /\ CountFailure(e)
    BY <1>4 DEF SendMessage
  <2>2. UNCHANGED <<tableVars, delivered, claimed, late, overrun, faults>>
    BY <1>4 DEF SendMessage
  <2>3. e \in Events
    BY <2>1
  <2>4. failures' \in [Events -> Nat]
    BY <2>1, <2>3, CountFailureType
  <2>5. /\ pc' \in [Workers -> {"idle", "wait", "mark", "error"}]
        /\ current' \in [Workers -> Events]
        /\ \A v \in Workers : pc'[v] # "idle" => current'[v] \in Held(v)
    BY <2>1, <2>3 DEF Goto
  <2> QED
    BY <2>2, <2>4, <2>5, SameBatches DEF TypeOK, tableVars
<1>5. ASSUME NEW w \in Workers, handleSuccess(w) \/ handleError(w) \/ PublishTimesOut(w)
      PROVE  TypeOK' /\ FiniteBatches'
  <2>1. /\ pc[w] = "wait"
        /\ Goto(w, "mark") \/ Goto(w, "error")
        /\ CountFailure(current[w]) \/ UNCHANGED failures
        /\ delivered' \subseteq Events
        /\ late' \in [Workers -> SUBSET Events]
        /\ UNCHANGED <<tableVars, claimed, current, overrun, faults>>
    BY <1>5 DEF handleSuccess, handleError, PublishTimesOut
  <2>2. failures' \in [Events -> Nat]
    BY <2>1, CountFailureType
  <2>3. /\ pc' \in [Workers -> {"idle", "wait", "mark", "error"}]
        /\ \A v \in Workers : pc'[v] # "idle" => current'[v] \in Held(v)
    BY <2>1 DEF Goto
  <2> QED
    BY <2>1, <2>2, <2>3, SameBatches DEF TypeOK, tableVars
<1>6. ASSUME NEW w \in Workers, NEW e \in Events, LateResult(w, e)
      PROVE  TypeOK' /\ FiniteBatches'
  <2>1. /\ delivered' \subseteq Events
        /\ late' \in [Workers -> SUBSET Events]
        /\ UNCHANGED <<tableVars, failures, pc, claimed, current, overrun, faults>>
    BY <1>6 DEF LateResult
  <2> QED
    BY <2>1, SameBatches DEF TypeOK, tableVars
<1>7. ASSUME NEW w \in Workers, MarkPublished(w) \/ handleSendError(w) \/ RecordFails(w)
      PROVE  TypeOK' /\ FiniteBatches'
  <2>1. /\ NextEvent(w)
        /\ UNCHANGED <<delivered, failures, current, late, overrun>>
        /\ Fault \/ UNCHANGED faults
    BY <1>7 DEF MarkPublished, handleSendError, RecordFails
  <2>2. /\ status' \in [Events -> {"none", "pending", "processing", "published", "failed"}]
        /\ retryCount' \in [Events -> Nat]
        /\ due' \in [Events -> BOOLEAN]
    <3>1. CASE MarkPublished(w)
      BY <3>1, UpdateProcessingType DEF MarkPublished
    <3>2. CASE handleSendError(w)
      <4>1. PICK s \in {"pending", "published", "failed"} :
               UpdateProcessing(current[w], s, retryCount[current[w]] + 1)
        BY <3>2 DEF handleSendError
      <4>2. retryCount[current[w]] + 1 \in Nat
        OBVIOUS
      <4> QED
        BY <4>1, <4>2, UpdateProcessingType
    <3>3. CASE RecordFails(w)
      BY <3>3 DEF RecordFails, tableVars
    <3> QED
      BY <1>7, <3>1, <3>2, <3>3
  <2>3. faults' \in 0 .. MaxFaults
    BY <2>1, FaultType
  <2>4. ASSUME NEW v \in Workers, pc'[v] # "idle"
        PROVE  current'[v] \in Held(v)'
    <3>1. pc'[v] = pc[v] /\ claimed'[v] = claimed[v] /\ current'[v] = current[v]
      BY <2>1, <2>4, NextEventBatch
    <3> QED
      BY <2>4, <3>1 DEF Held
  <2> QED
    BY <2>1, <2>2, <2>3, <2>4, NextEventBatch DEF TypeOK, FiniteBatches
<1>8. ASSUME NEW w \in Workers, Interrupt(w) \/ Crash(w)
      PROVE  TypeOK' /\ FiniteBatches'
  <2>1. /\ Fault
        /\ pc' \in [Workers -> {"idle", "wait", "mark", "error"}]
        /\ pc'[w] = "idle" /\ \A v \in Workers \ {w} : pc'[v] = pc[v]
        /\ claimed' = [claimed EXCEPT ![w] = {}]
        /\ late' \in [Workers -> SUBSET Events]
        /\ UNCHANGED <<tableVars, delivered, failures, current, overrun>>
    BY <1>8 DEF Interrupt, Crash, Goto
  <2>2. faults' \in 0 .. MaxFaults
    BY <2>1, FaultType
  <2>3. ASSUME NEW v \in Workers
        PROVE  /\ IsFiniteSet(claimed'[v])
               /\ Cardinality(claimed'[v]) <= BatchSize
               /\ \A r1, r2 \in claimed'[v] : r1.event = r2.event => r1 = r2
               /\ pc'[v] # "idle" => current'[v] \in Held(v)'
    <3>1. CASE v = w
      <4>1. claimed'[v] = {} /\ pc'[v] = "idle"
        BY <2>1, <3>1
      <4> QED
        BY <4>1, FS_EmptySet, OutboxAssumption
    <3>2. CASE v # w
      <4>1. claimed'[v] = claimed[v] /\ pc'[v] = pc[v] /\ current'[v] = current[v]
        BY <3>2, <2>1
      <4>2. Held(v)' = Held(v)
        BY <4>1 DEF Held
      <4> QED
        BY <4>1, <4>2 DEF FiniteBatches
    <3> QED
      BY <3>1, <3>2
  <2>4. claimed' \in [Workers -> SUBSET Row]
    BY <2>1
  <2> QED
    BY <2>1, <2>2, <2>3, <2>4 DEF TypeOK, FiniteBatches, tableVars
<1>9. CASE UNCHANGED vars
  BY <1>9, SameBatches DEF TypeOK, vars, tableVars
<1> QED
  BY <1>1, <1>2, <1>3, <1>4, <1>5, <1>6, <1>7, <1>8, <1>9 DEF Next, Step

\* TypeOK with the finiteness of batches that its bound needs.
LEMMA TypesHold == Spec => [](TypeOK /\ FiniteBatches)
<1>1. Init => TypeOK /\ FiniteBatches
  <2> SUFFICES ASSUME Init
               PROVE  TypeOK /\ FiniteBatches
    OBVIOUS
  <2>1. overrun \in BOOLEAN
    BY DEF Init
  <2>2. \A w \in Workers : claimed[w] = {} /\ pc[w] = "idle"
    BY DEF Init
  <2>3. \A w \in Workers : IsFiniteSet(claimed[w]) /\ Cardinality(claimed[w]) = 0
    BY <2>2, FS_EmptySet
  <2> QED
    BY <2>1, <2>2, <2>3, OutboxAssumption DEF Init, TypeOK, FiniteBatches
<1>2. TypeOK /\ FiniteBatches /\ [Next]_vars => (TypeOK /\ FiniteBatches)'
  BY TypeStep
<1> QED
  BY <1>1, <1>2, PTL DEF Spec

\* The outbox row states, the batches and the producer queue stay in their
\* types; no batch is larger than batch_size (the LIMIT of ClaimPendingEvents).
THEOREM OutboxTypeCorrect == Spec => []TypeOK
BY TypesHold, PTL

-----------------------------------------------------------------------------
(* The contract.                                                           *)

\* The events in hand after the worker is done with one.
LEMMA NextEventHeld ==
    ASSUME TypeOK, NEW w \in Workers, NextEvent(w)
    PROVE  /\ Held(w)' = Held(w) \ {current[w]}
           /\ pc'[w] = "idle"
           /\ \A v \in Workers \ {w} :
                 pc'[v] = pc[v] /\ claimed'[v] = claimed[v] /\ Held(v)' = Held(v)
<1>1. /\ claimed'[w] = {row \in claimed[w] : row.event # current[w]}
      /\ pc'[w] = "idle"
      /\ \A v \in Workers \ {w} : pc'[v] = pc[v] /\ claimed'[v] = claimed[v]
  BY TypeFacts DEF NextEvent, Goto
<1>2. Held(w)' = Held(w) \ {current[w]}
  BY <1>1 DEF Held
<1>3. \A v \in Workers \ {w} : Held(v)' = Held(v)
  BY <1>1 DEF Held
<1> QED
  BY <1>1, <1>2, <1>3

\* The events in hand after a claim.
LEMMA ClaimHeld ==
    ASSUME TypeOK, NEW w \in Workers, NEW S \in SUBSET Events,
           claimed' = [claimed EXCEPT
                         ![w] = {[event |-> e, retryCount |-> retryCount[e]] : e \in S}]
    PROVE  Held(w)' = S /\ \A v \in Workers \ {w} : Held(v)' = Held(v)
<1>1. /\ claimed'[w] = {[event |-> e, retryCount |-> retryCount[e]] : e \in S}
      /\ \A v \in Workers \ {w} : claimed'[v] = claimed[v]
  BY TypeFacts
<1>2. ASSUME NEW e \in S
      PROVE  e \in Held(w)'
  <2>1. [event |-> e, retryCount |-> retryCount[e]] \in claimed'[w]
    BY <1>1
  <2>2. [event |-> e, retryCount |-> retryCount[e]].event = e
    OBVIOUS
  <2> QED
    BY <2>1, <2>2 DEF Held
<1>3. ASSUME NEW e \in Held(w)'
      PROVE  e \in S
  <2>1. PICK row \in claimed'[w] : e = row.event
    BY DEF Held
  <2>2. PICK f \in S : row = [event |-> f, retryCount |-> retryCount[f]]
    BY <1>1
  <2> QED
    BY <2>1, <2>2
<1>4. \A v \in Workers \ {w} : Held(v)' = Held(v)
  BY <1>1 DEF Held
<1> QED
  BY <1>2, <1>3, <1>4

\* No step takes a committed row away.
LEMMA StaysSaved ==
    ASSUME TypeOK, [Next]_vars, NEW e \in Events, status[e] # "none"
    PROVE  status'[e] # "none"
<1> USE TypeFacts
<1>1. ASSUME NEW f \in Events, SaveOutboxEvent(f) \/ RetryDue(f)
      PROVE  status'[e] # "none"
  BY <1>1 DEF SaveOutboxEvent, RetryDue
<1>2. ASSUME NEW w \in Workers,
             \/ ClaimPendingEvents(w) \/ ClaimReplyLost(w)
             \/ ReleaseStuckEvents(w) \/ ReleaseOverrun(w)
      PROVE  status'[e] # "none"
  BY <1>2 DEF ClaimPendingEvents, ClaimReplyLost, ReleaseStuckEvents, ReleaseOverrun
<1>3. ASSUME NEW w \in Workers, MarkPublished(w) \/ handleSendError(w)
      PROVE  status'[e] # "none"
  BY <1>3 DEF MarkPublished, handleSendError, UpdateProcessing, tableVars
<1>4. ASSUME NEW w \in Workers,
             \/ SendMessage(w) \/ handleSuccess(w) \/ handleError(w) \/ PublishTimesOut(w)
             \/ RecordFails(w) \/ Interrupt(w) \/ Crash(w)
             \/ \E f \in Events : LateResult(w, f)
      PROVE  status'[e] # "none"
  BY <1>4 DEF SendMessage, handleSuccess, handleError, PublishTimesOut, RecordFails,
              Interrupt, Crash, LateResult, tableVars
<1> QED
  BY <1>1, <1>2, <1>3, <1>4 DEF Next, Step, vars, tableVars

\* Where a worker's events come from in one step.
LEMMA HeldStep ==
    ASSUME TypeOK, [Next]_vars, NEW w \in Workers
    PROVE  /\ \A e \in Held(w)' : e \in Held(w) \/ status[e] = "pending"
           /\ \A e \in late'[w] : e \in late[w] \/ e \in Held(w)
<1> USE TypeFacts
<1>1. ASSUME NEW v \in Workers, ClaimPendingEvents(v)
      PROVE  /\ \A e \in Held(w)' : e \in Held(w) \/ status[e] = "pending"
             /\ UNCHANGED late
  <2>1. PICK S \in Candidates :
           claimed' = [claimed EXCEPT
                         ![v] = {[event |-> e, retryCount |-> retryCount[e]] : e \in S}]
    BY <1>1 DEF ClaimPendingEvents
  <2>2. S \in SUBSET Events /\ \A e \in S : status[e] = "pending"
    BY CandidatesLemma
  <2>3. Held(v)' = S /\ \A u \in Workers \ {v} : Held(u)' = Held(u)
    BY <2>1, <2>2, ClaimHeld
  <2> QED
    BY <1>1, <2>2, <2>3 DEF ClaimPendingEvents
<1>2. ASSUME NEW v \in Workers, MarkPublished(v) \/ handleSendError(v) \/ RecordFails(v)
      PROVE  Held(w)' \subseteq Held(w) /\ UNCHANGED late
  <2>1. NextEvent(v) /\ UNCHANGED late
    BY <1>2 DEF MarkPublished, handleSendError, RecordFails
  <2> QED
    BY <2>1, NextEventHeld
<1>3. ASSUME NEW v \in Workers, Interrupt(v) \/ Crash(v)
      PROVE  Held(w)' \subseteq Held(w) /\ late'[w] \subseteq late[w]
  <2>1. claimed'[w] \subseteq claimed[w] /\ late'[w] \subseteq late[w]
    BY <1>3 DEF Interrupt, Crash
  <2> QED
    BY <2>1 DEF Held
<1>4. ASSUME NEW v \in Workers, PublishTimesOut(v)
      PROVE  /\ Held(w)' = Held(w)
             /\ \A e \in late'[w] : e \in late[w] \/ e \in Held(w)
  <2>1. claimed' = claimed /\ current[v] \in Held(v)
    BY <1>4 DEF PublishTimesOut
  <2> QED
    BY <1>4, <2>1 DEF PublishTimesOut, Held
<1>5. ASSUME NEW v \in Workers, \E e \in Events : LateResult(v, e)
      PROVE  Held(w)' = Held(w) /\ late'[w] \subseteq late[w]
  BY <1>5 DEF LateResult, Held
<1>6. ASSUME \/ \E v \in Workers :
                   \/ ClaimReplyLost(v) \/ ReleaseStuckEvents(v) \/ ReleaseOverrun(v)
                   \/ SendMessage(v) \/ handleSuccess(v) \/ handleError(v)
             \/ \E e \in Events : SaveOutboxEvent(e) \/ RetryDue(e)
             \/ UNCHANGED vars
      PROVE  Held(w)' = Held(w) /\ UNCHANGED late
  <2>1. UNCHANGED <<claimed, late>>
    BY <1>6 DEF ClaimReplyLost, ReleaseStuckEvents, ReleaseOverrun, SendMessage, handleSuccess,
                handleError, SaveOutboxEvent, RetryDue, vars
  <2> QED
    BY <2>1 DEF Held
<1> QED
  BY <1>1, <1>2, <1>3, <1>4, <1>5, <1>6 DEF Next, Step

\* A worker marks a row as published because its event reached the topic.
LEMMA MarkStep ==
    ASSUME TypeOK, SavedInv, [Next]_vars, NEW w \in Workers, pc'[w] = "mark"
    PROVE  current'[w] \in delivered'
<1> USE TypeFacts
<1>1. ASSUME NEW v \in Workers, handleSuccess(v)
      PROVE  current'[w] \in delivered'
  BY <1>1 DEF handleSuccess, Goto, SavedInv
<1>2. ASSUME NEW v \in Workers,
             SendMessage(v) \/ handleError(v) \/ PublishTimesOut(v)
      PROVE  current'[w] \in delivered'
  BY <1>2 DEF SendMessage, handleError, PublishTimesOut, Goto, SavedInv
<1>3. ASSUME NEW v \in Workers,
             \/ MarkPublished(v) \/ handleSendError(v) \/ RecordFails(v)
             \/ Interrupt(v) \/ Crash(v)
      PROVE  current'[w] \in delivered'
  <2>1. /\ UNCHANGED <<current, delivered>>
        /\ pc[w] = "mark"
    BY <1>3 DEF MarkPublished, handleSendError, RecordFails, NextEvent, Interrupt, Crash, Goto
  <2> QED
    BY <2>1 DEF SavedInv
<1>4. ASSUME \/ \E v \in Workers :
                   \/ ClaimPendingEvents(v) \/ ClaimReplyLost(v)
                   \/ ReleaseStuckEvents(v) \/ ReleaseOverrun(v)
                   \/ \E e \in Events : LateResult(v, e)
             \/ \E e \in Events : SaveOutboxEvent(e) \/ RetryDue(e)
             \/ UNCHANGED vars
      PROVE  current'[w] \in delivered'
  <2>1. UNCHANGED <<pc, current>> /\ delivered \subseteq delivered'
    BY <1>4 DEF ClaimPendingEvents, ClaimReplyLost, ReleaseStuckEvents, ReleaseOverrun,
                LateResult, SaveOutboxEvent, RetryDue, vars
  <2> QED
    BY <2>1 DEF SavedInv
<1> QED
  BY <1>1, <1>2, <1>3, <1>4 DEF Next, Step

\* One step of the induction for SavedInv.
LEMMA SavedStep ==
    ASSUME TypeOK, TypeOK', SavedInv, [Next]_vars
    PROVE  SavedInv'
<1>1. ASSUME NEW w \in Workers, NEW e \in Held(w)' \cup late'[w]
      PROVE  status'[e] # "none"
  <2>1. e \in Events
    <3>1. claimed'[w] \subseteq Row /\ late'[w] \subseteq Events
      BY DEF TypeOK
    <3> QED
      BY <3>1 DEF Held, Row
  <2>2. e \in Held(w) \/ status[e] = "pending" \/ e \in late[w]
    BY HeldStep
  <2>3. status[e] # "none"
    BY <2>2 DEF SavedInv
  <2> QED
    BY <2>1, <2>3, StaysSaved
<1> QED
  BY <1>1, MarkStep DEF SavedInv

\* A step that closes no row and saves none leaves the contract alone.
LEMMA SameContract ==
    ASSUME TypeOK, TypeOK',
           \A e \in Events :
              \/ status'[e] = status[e]
              \/ {status[e], status'[e]} \subseteq {"pending", "processing"}
    PROVE  Saved' = Saved /\ Outcome' = Outcome
<1>1. \A e \in Events : status[e] = "none" <=> status'[e] = "none"
  OBVIOUS
<1>2. Saved' = Saved
  BY <1>1 DEF Saved
<1>3. \A e \in Events :
         /\ status[e] = "published" <=> status'[e] = "published"
         /\ status[e] = "failed" <=> status'[e] = "failed"
  OBVIOUS
<1>4. Outcome' = Outcome
  BY <1>3 DEF Outcome
<1> QED
  BY <1>2, <1>4

\* UPDATE ... WHERE status = 'processing' closes an open row, or changes nothing
\* the contract can see; a row is closed as published only if its event is in
\* the topic.
LEMMA UpdateKeepsContract ==
    ASSUME TypeOK, TypeOK', NEW e \in Events, NEW n,
           NEW s \in {"pending", "published", "failed"},
           UpdateProcessing(e, s, n), s = "published" => e \in delivered,
           UNCHANGED delivered
    PROVE  [Contract!ContractNext]_(Contract!contractVars)
<1> USE TypeFacts
<1>1. CASE status[e] # "processing" \/ s = "pending"
  <2>1. \A f \in Events :
           \/ status'[f] = status[f]
           \/ {status[f], status'[f]} \subseteq {"pending", "processing"}
    BY <1>1 DEF UpdateProcessing, tableVars
  <2> QED
    BY <2>1, SameContract DEF Contract!contractVars
<1>2. CASE status[e] = "processing" /\ s # "pending"
  <2>1. status' = [status EXCEPT ![e] = s]
    BY <1>2 DEF UpdateProcessing
  <2>2. Saved' = Saved /\ e \in Saved
    BY <1>2, <2>1 DEF Saved
  <2>3. Outcome[e] = "open"
    BY <1>2 DEF Outcome
  <2>4. CASE s = "published"
    <3>1. Outcome' = [Outcome EXCEPT ![e] = "published"]
      BY <2>1, <2>4 DEF Outcome
    <3>2. Contract!Close(e)
      BY <2>2, <2>3, <2>4, <3>1 DEF Contract!Close
    <3> QED
      BY <3>2 DEF Contract!ContractNext
  <2>5. CASE s = "failed"
    <3>1. Outcome' = [Outcome EXCEPT ![e] = "abandoned"]
      BY <2>1, <2>5 DEF Outcome
    <3>2. Contract!Close(e)
      BY <2>2, <2>3, <3>1 DEF Contract!Close
    <3> QED
      BY <3>2 DEF Contract!ContractNext
  <2> QED
    BY <1>2, <2>4, <2>5
<1> QED
  BY <1>1, <1>2

\* Every step of the workers is a step of the contract or leaves it alone.
LEMMA ContractStep ==
    ASSUME TypeOK, TypeOK', SavedInv, [Next]_vars
    PROVE  [Contract!ContractNext]_(Contract!contractVars)
<1> USE TypeFacts
<1>1. ASSUME NEW e \in Events, SaveOutboxEvent(e)
      PROVE  Contract!ContractNext
  <2>1. /\ status[e] = "none"
        /\ status' = [status EXCEPT ![e] = "pending"]
        /\ delivered' = delivered
    BY <1>1 DEF SaveOutboxEvent
  <2>2. e \notin Saved /\ Saved' = Saved \cup {e}
    BY <2>1 DEF Saved
  <2>3. Outcome' = Outcome
    BY <2>1 DEF Outcome
  <2>4. Contract!Save(e)
    BY <2>1, <2>2, <2>3 DEF Contract!Save
  <2> QED
    BY <2>4 DEF Contract!ContractNext
<1>2. ASSUME NEW w \in Workers, NEW e \in Events, status[e] # "none",
             delivered' \in {delivered, delivered \cup {e}}, UNCHANGED tableVars
      PROVE  [Contract!ContractNext]_(Contract!contractVars)
  <2>1. Saved' = Saved /\ Outcome' = Outcome /\ e \in Saved
    BY <1>2 DEF tableVars, Saved, Outcome
  <2>2. CASE delivered' = delivered
    BY <2>1, <2>2 DEF Contract!contractVars
  <2>3. CASE delivered' = delivered \cup {e}
    BY <2>1, <2>3 DEF Contract!Deliver, Contract!ContractNext
  <2> QED
    BY <1>2, <2>2, <2>3
<1>3. ASSUME NEW w \in Workers, handleSuccess(w) \/ handleError(w)
      PROVE  [Contract!ContractNext]_(Contract!contractVars)
  <2>1. /\ pc[w] = "wait"
        /\ delivered' \in {delivered, delivered \cup {current[w]}}
        /\ UNCHANGED tableVars
    BY <1>3 DEF handleSuccess, handleError
  <2>2. current[w] \in Events /\ status[current[w]] # "none"
    BY <2>1 DEF SavedInv
  <2> QED
    BY <2>1, <2>2, <1>2
<1>4. ASSUME NEW w \in Workers, NEW e \in Events, LateResult(w, e)
      PROVE  [Contract!ContractNext]_(Contract!contractVars)
  <2>1. /\ status[e] # "none"
        /\ delivered' \in {delivered, delivered \cup {e}}
        /\ UNCHANGED tableVars
    BY <1>4 DEF LateResult, SavedInv
  <2> QED
    BY <2>1, <1>2
<1>5. ASSUME NEW w \in Workers, MarkPublished(w)
      PROVE  [Contract!ContractNext]_(Contract!contractVars)
  BY <1>5, UpdateKeepsContract DEF MarkPublished, SavedInv
<1>6. ASSUME NEW w \in Workers, handleSendError(w)
      PROVE  [Contract!ContractNext]_(Contract!contractVars)
  <2>1. PICK s \in {"pending", "failed"} :
           UpdateProcessing(current[w], s, retryCount[current[w]] + 1)
    BY <1>6 DEF handleSendError
  <2> QED
    BY <1>6, <2>1, UpdateKeepsContract DEF handleSendError
<1>7. ASSUME NEW w \in Workers,
             \/ ClaimPendingEvents(w) \/ ClaimReplyLost(w)
             \/ ReleaseStuckEvents(w) \/ ReleaseOverrun(w)
      PROVE  UNCHANGED Contract!contractVars
  <2>1. PICK S \in SUBSET Events, s \in {"pending", "processing"} :
           /\ \A e \in S : status[e] \in {"pending", "processing"}
           /\ status' = [e \in Events |-> IF e \in S THEN s ELSE status[e]]
    <3>1. CASE ClaimPendingEvents(w) \/ ClaimReplyLost(w)
      <4>1. PICK S \in Candidates :
               status' = [e \in Events |-> IF e \in S THEN "processing" ELSE status[e]]
        BY <3>1 DEF ClaimPendingEvents, ClaimReplyLost
      <4>2. S \in SUBSET Events /\ \A e \in S : status[e] = "pending"
        BY CandidatesLemma
      <4> QED
        BY <4>1, <4>2
    <3>2. CASE ReleaseStuckEvents(w) \/ ReleaseOverrun(w)
      <4>1. \A e \in Events : Stuck(e) => status[e] = "processing"
        BY DEF Stuck
      <4>2. PICK S \in SUBSET Events :
               /\ \A e \in S : status[e] = "processing"
               /\ status' = [e \in Events |-> IF e \in S THEN "pending" ELSE status[e]]
        <5>1. CASE ReleaseStuckEvents(w)
          BY <4>1, <5>1 DEF ReleaseStuckEvents
        <5>2. CASE ReleaseOverrun(w)
          BY <5>2 DEF ReleaseOverrun
        <5> QED
          BY <3>2, <5>1, <5>2
      <4> QED
        BY <4>2
    <3> QED
      BY <1>7, <3>1, <3>2
  <2>2. UNCHANGED delivered
    BY <1>7 DEF ClaimPendingEvents, ClaimReplyLost, ReleaseStuckEvents, ReleaseOverrun
  <2>3. Saved' = Saved /\ Outcome' = Outcome
    BY <2>1, SameContract
  <2> QED
    BY <2>2, <2>3 DEF Contract!contractVars
<1>8. ASSUME \/ \E w \in Workers :
                   \/ SendMessage(w) \/ PublishTimesOut(w) \/ RecordFails(w)
                   \/ Interrupt(w) \/ Crash(w)
             \/ \E e \in Events : RetryDue(e)
             \/ UNCHANGED vars
      PROVE  UNCHANGED Contract!contractVars
  <2>1. UNCHANGED <<status, delivered>>
    BY <1>8 DEF SendMessage, PublishTimesOut, RecordFails, Interrupt, Crash, RetryDue,
                vars, tableVars
  <2> QED
    BY <2>1 DEF Contract!contractVars, Saved, Outcome
<1> QED
  BY <1>1, <1>3, <1>4, <1>5, <1>6, <1>7, <1>8 DEF Next, Step

\* The workers implement the outbox contract, for any number of workers and
\* rows: no event reaches the topic before its transaction committed, a row is
\* published only if its event reached the topic, and a closed row stays closed
\* (the status = 'processing' conditions of MarkPublished, ScheduleRetry and
\* MarkFailed).
THEOREM WorkersKeepContract == Spec => KeepsContract
<1>1. Init => SavedInv
  BY DEF Init, SavedInv, Held
<1>2. Init => Contract!ContractInit
  BY DEF Init, Contract!ContractInit, Saved, Outcome
<1>3. TypeOK /\ TypeOK' /\ SavedInv /\ [Next]_vars => SavedInv'
  BY SavedStep
<1>4. TypeOK /\ TypeOK' /\ SavedInv /\ [Next]_vars =>
         [Contract!ContractNext]_(Contract!contractVars)
  BY ContractStep
<1> QED
  BY <1>1, <1>2, <1>3, <1>4, OutboxTypeCorrect, PTL DEF Spec, KeepsContract, Contract!ContractSpec

-----------------------------------------------------------------------------
(* Ownership, as long as no batch has outlived processing_timeout.         *)

\* The row a worker holds, when it is the only one.
LEMMA HeldRow ==
    ASSUME TypeOK, OneWorkerPerRow, ~overrun, NEW w \in Workers, NEW e \in Held(w)
    PROVE  /\ e \in Events
           /\ status[e] = "processing"
           /\ \A v \in Workers \ {w} : e \notin Held(v)
           /\ \A row \in claimed[w] : row.event = e => row.retryCount = retryCount[e]
<1>1. PICK r \in claimed[w] : r.event = e
  BY DEF Held
<1>2. e \in Events
  BY TypeFacts
<1>3. status[e] = "processing"
  BY <1>1 DEF OneWorkerPerRow
<1>4. \A v \in Workers \ {w} : e \notin Held(v)
  BY DEF OneWorkerPerRow
<1> QED
  BY <1>2, <1>3, <1>4 DEF OneWorkerPerRow

\* A step that changes only rows nobody holds keeps them apart.
LEMMA OthersRows ==
    ASSUME TypeOK, OneWorkerPerRow, ~overrun,
           \A v \in Workers : claimed'[v] \subseteq claimed[v],
           \A v \in Workers : \A row \in claimed'[v] :
              status'[row.event] = status[row.event] /\ retryCount'[row.event] = retryCount[row.event]
    PROVE  OneWorkerPerRow'
<1>1. \A v \in Workers : Held(v)' \subseteq Held(v)
  BY DEF Held
<1> QED
  BY <1>1 DEF OneWorkerPerRow

\* One step of the induction for OneWorkerPerRow.
LEMMA OneWorkerStep ==
    ASSUME TypeOK, OneWorkerPerRow, [Next]_vars
    PROVE  OneWorkerPerRow'
<1> USE TypeFacts
<1> SUFFICES ASSUME ~overrun'
             PROVE  OneWorkerPerRow'
  BY DEF OneWorkerPerRow
<1>6. ~overrun /\ \A w \in Workers : ~ReleaseOverrun(w)
  BY DEF Next, Step, vars, SaveOutboxEvent, RetryDue, ClaimPendingEvents, ClaimReplyLost,
         ReleaseStuckEvents, ReleaseOverrun, SendMessage, handleSuccess, handleError,
         PublishTimesOut, LateResult, MarkPublished, handleSendError, RecordFails, Interrupt, Crash
<1>1. ASSUME NEW e \in Events, SaveOutboxEvent(e)
      PROVE  OneWorkerPerRow'
  <2>1. /\ status[e] = "none"
        /\ status' = [status EXCEPT ![e] = "pending"]
        /\ UNCHANGED <<retryCount, claimed>>
    BY <1>1 DEF SaveOutboxEvent
  <2>2. \A w \in Workers : \A row \in claimed[w] : status[row.event] # "none"
    BY <1>6 DEF OneWorkerPerRow
  <2>3. \A w \in Workers : \A row \in claimed[w] : row.event \in Events
    BY DEF Row
  <2> QED
    BY <2>1, <2>2, <2>3, <1>6, OthersRows
<1>2. ASSUME NEW w \in Workers, ClaimPendingEvents(w)
      PROVE  OneWorkerPerRow'
  <2>1. PICK S \in Candidates :
           /\ status' = [e \in Events |-> IF e \in S THEN "processing" ELSE status[e]]
           /\ claimed' = [claimed EXCEPT
                            ![w] = {[event |-> e, retryCount |-> retryCount[e]] : e \in S}]
    BY <1>2 DEF ClaimPendingEvents
  <2>2. retryCount' = retryCount
    BY <1>2 DEF ClaimPendingEvents
  <2>3. S \in SUBSET Events /\ \A e \in S : status[e] = "pending"
    BY CandidatesLemma
  <2>4. Held(w)' = S /\ \A v \in Workers \ {w} : Held(v)' = Held(v)
    BY <2>1, <2>3, ClaimHeld
  <2>5. \A v \in Workers : S \cap Held(v) = {}
    BY <2>3, <1>6, HeldRow
  <2>6. \A u, v \in Workers : u # v => Held(u)' \cap Held(v)' = {}
    BY <1>6, <2>4, <2>5 DEF OneWorkerPerRow
  <2>7. ASSUME NEW v \in Workers, NEW row \in claimed'[v]
        PROVE  status'[row.event] = "processing" /\ retryCount'[row.event] = row.retryCount
    <3>1. CASE v = w
      <4>1. PICK e \in S : row = [event |-> e, retryCount |-> retryCount[e]]
        BY <2>1, <2>7, <3>1
      <4> QED
        BY <4>1, <2>1, <2>2, <2>3
    <3>2. CASE v # w
      <4>1. row \in claimed[v]
        BY <2>1, <2>7, <3>2
      <4>2. row.event \in Events
        BY <4>1 DEF Row
      <4> QED
        BY <1>6, <4>1, <4>2, <2>1, <2>2 DEF OneWorkerPerRow
    <3> QED
      BY <3>1, <3>2
  <2> QED
    BY <2>6, <2>7 DEF OneWorkerPerRow
<1>3. ASSUME NEW w \in Workers, ClaimReplyLost(w) \/ ReleaseStuckEvents(w)
      PROVE  OneWorkerPerRow'
  <2>1. UNCHANGED <<retryCount, claimed>>
    BY <1>3 DEF ClaimReplyLost, ReleaseStuckEvents
  <2>2. PICK S \in SUBSET Events, s \in {"pending", "processing"} :
           /\ \A e \in S : status[e] = "pending" \/ \A v \in Workers : e \notin Held(v)
           /\ status' = [e \in Events |-> IF e \in S THEN s ELSE status[e]]
    <3>1. CASE ClaimReplyLost(w)
      <4>1. PICK S \in Candidates :
               status' = [e \in Events |-> IF e \in S THEN "processing" ELSE status[e]]
        BY <3>1 DEF ClaimReplyLost
      <4>2. S \in SUBSET Events /\ \A e \in S : status[e] = "pending"
        BY CandidatesLemma
      <4> QED
        BY <4>1, <4>2
    <3>2. CASE ReleaseStuckEvents(w)
      <4>1. PICK S \in SUBSET {e \in Events : Stuck(e)} :
               status' = [e \in Events |-> IF e \in S THEN "pending" ELSE status[e]]
        BY <3>2 DEF ReleaseStuckEvents
      <4>2. S \in SUBSET Events /\ \A e \in S : \A v \in Workers : e \notin Held(v)
        BY <4>1 DEF Stuck
      <4> QED
        BY <4>1, <4>2
    <3> QED
      BY <1>3, <3>1, <3>2
  <2>3. ASSUME NEW v \in Workers, NEW row \in claimed[v]
        PROVE  status'[row.event] = status[row.event]
    <3>1. row.event \in Held(v) /\ row.event \in Events
      BY DEF Held, Row
    <3>2. row.event \notin S
      BY <2>2, <3>1, <1>6, HeldRow
    <3> QED
      BY <2>2, <3>1, <3>2
  <2> QED
    BY <2>1, <2>3, <1>6, OthersRows
<1>4. ASSUME NEW w \in Workers, MarkPublished(w) \/ handleSendError(w)
      PROVE  OneWorkerPerRow'
  <2>1. /\ pc[w] # "idle"
        /\ NextEvent(w)
        /\ \A e \in Events \ {current[w]} :
              status'[e] = status[e] /\ retryCount'[e] = retryCount[e]
    BY <1>4 DEF MarkPublished, handleSendError, UpdateProcessing, tableVars
  <2>2. current[w] \in Held(w)
    BY <2>1
  <2>3. \A v \in Workers : claimed'[v] \subseteq claimed[v]
    BY <2>1 DEF NextEvent
  <2>4. ASSUME NEW v \in Workers, NEW row \in claimed'[v]
        PROVE  row.event \in Events \ {current[w]}
    <3>1. row.event \in Events /\ row.event \in Held(v)
      BY <2>3 DEF Row, Held
    <3>2. CASE v = w
      BY <2>1, <3>1, <3>2 DEF NextEvent
    <3>3. CASE v # w
      BY <2>2, <3>1, <3>3, <1>6, HeldRow
    <3> QED
      BY <3>1, <3>2, <3>3
  <2> QED
    BY <2>1, <2>3, <2>4, <1>6, OthersRows
<1>5. ASSUME \/ \E w \in Workers :
                   \/ SendMessage(w) \/ handleSuccess(w) \/ handleError(w) \/ PublishTimesOut(w)
                   \/ RecordFails(w) \/ Interrupt(w) \/ Crash(w)
                   \/ \E e \in Events : LateResult(w, e)
             \/ \E e \in Events : RetryDue(e)
             \/ UNCHANGED vars
      PROVE  OneWorkerPerRow'
  <2>1. UNCHANGED <<status, retryCount>> /\ \A v \in Workers : claimed'[v] \subseteq claimed[v]
    BY <1>5 DEF SendMessage, handleSuccess, handleError, PublishTimesOut, RecordFails,
                NextEvent, Interrupt, Crash, LateResult, RetryDue, vars, tableVars
  <2> QED
    BY <2>1, <1>6, OthersRows
<1> QED
  BY <1>1, <1>2, <1>3, <1>4, <1>5, <1>6 DEF Next, Step

\* As long as no batch has outlived processing_timeout, no two workers have the
\* same row in hand, and the retry count a worker looks at is the row's.
THEOREM RowsAreOwned == Spec => []OneWorkerPerRow
<1>1. Init => OneWorkerPerRow
  BY DEF Init, OneWorkerPerRow, Held
<1>2. TypeOK /\ OneWorkerPerRow /\ [Next]_vars => OneWorkerPerRow'
  BY OneWorkerStep
<1> QED
  BY <1>1, <1>2, OutboxTypeCorrect, PTL DEF Spec

-----------------------------------------------------------------------------
(* The retry count when batches overlap.                                   *)

\* The workers with an old claim of a row, now and after a step.
LEMMA StaleFinite ==
    /\ Cardinality(Workers) \in Nat
    /\ \A e : /\ IsFiniteSet(Stale(e)) /\ Cardinality(Stale(e)) \in Nat
               /\ IsFiniteSet(Stale(e)') /\ Cardinality(Stale(e)') \in Nat
<1>1. \A e : Stale(e) \in SUBSET Workers /\ Stale(e)' \in SUBSET Workers
  BY DEF Stale
<1> QED
  BY <1>1, OutboxAssumption, FS_Subset, FS_CardinalityType

\* A row whose count stands still, of which nobody new has an old claim.
LEMMA BoundUntouched ==
    ASSUME TypeOK, TypeOK', NEW e \in Events, RowBounded(e), retryCount'[e] = retryCount[e],
           status[e] \in {"published", "failed"} => status'[e] = status[e],
           retryCount[e] >= MaxRetries => Stale(e)' \subseteq Stale(e)
    PROVE  RowBounded(e)'
<1>1. retryCount[e] \in Nat
  BY TypeFacts
<1>2. CASE status[e] \in {"published", "failed"} \/ retryCount[e] < MaxRetries
  BY <1>1, <1>2, StaleFinite, OutboxAssumption DEF RowBounded
<1>3. CASE status[e] \notin {"published", "failed"} /\ retryCount[e] >= MaxRetries
  <2>1. Cardinality(Stale(e)') <= Cardinality(Stale(e))
    BY <1>3, StaleFinite, FS_Subset
  <2>2. retryCount[e] + Cardinality(Stale(e)) < MaxRetries + Cardinality(Workers)
    BY <1>1, <1>3, OutboxAssumption DEF RowBounded
  <2>3. retryCount'[e] + Cardinality(Stale(e)') < MaxRetries + Cardinality(Workers)
    BY <1>1, <2>1, <2>2, StaleFinite, OutboxAssumption
  <2> QED
    BY <2>3 DEF RowBounded
<1> QED
  BY <1>1, <1>2, <1>3, OutboxAssumption

\* A worker closes the row, which may have been at the limit.
LEMMA BoundClosed ==
    ASSUME TypeOK, NEW e \in Events, RowBounded(e), status[e] = "processing",
           status'[e] \in {"published", "failed"},
           retryCount'[e] = retryCount[e] \/ retryCount'[e] = retryCount[e] + 1
    PROVE  RowBounded(e)'
<1>1. retryCount[e] \in Nat
  BY TypeFacts
<1>2. Cardinality(Workers) # 0
  BY OutboxAssumption, FS_EmptySet
<1>3. retryCount[e] < MaxRetries + Cardinality(Workers)
  BY <1>1, <1>2, StaleFinite, OutboxAssumption DEF RowBounded
<1> QED
  BY <1>1, <1>3, StaleFinite, OutboxAssumption DEF RowBounded

\* A worker counts a claim from before the limit and has it no longer.
LEMMA BoundCounted ==
    ASSUME TypeOK, NEW e \in Events, RowBounded(e), status[e] = "processing",
           NEW w \in Stale(e), Stale(e)' = Stale(e) \ {w},
           retryCount'[e] = retryCount[e] + 1
    PROVE  RowBounded(e)'
<1>1. retryCount[e] \in Nat
  BY TypeFacts
<1>2. Cardinality(Stale(e)') = Cardinality(Stale(e)) - 1
  BY StaleFinite, FS_RemoveElement
<1>3. CASE retryCount[e] < MaxRetries
  <2>1. Stale(e) \in SUBSET Workers
    BY DEF Stale
  <2>2. Cardinality(Stale(e)) <= Cardinality(Workers)
    BY <2>1, OutboxAssumption, FS_Subset
  <2>3. retryCount'[e] + Cardinality(Stale(e)') < MaxRetries + Cardinality(Workers)
    BY <1>1, <1>2, <1>3, <2>2, StaleFinite, OutboxAssumption
  <2> QED
    BY <2>3 DEF RowBounded
<1>4. CASE retryCount[e] >= MaxRetries
  <2>1. retryCount[e] + Cardinality(Stale(e)) < MaxRetries + Cardinality(Workers)
    BY <1>1, <1>4, OutboxAssumption DEF RowBounded
  <2>2. retryCount'[e] + Cardinality(Stale(e)') < MaxRetries + Cardinality(Workers)
    BY <1>1, <1>2, <2>1, StaleFinite, OutboxAssumption
  <2> QED
    BY <2>2 DEF RowBounded
<1> QED
  BY <1>1, <1>3, <1>4, OutboxAssumption

\* A closed row stays closed, and no row loses its count.
LEMMA ClosedStays ==
    ASSUME TypeOK, [Next]_vars, NEW e \in Events, status[e] \in {"published", "failed"}
    PROVE  status'[e] = status[e] /\ retryCount'[e] = retryCount[e]
<1> USE TypeFacts
<1>1. ASSUME \/ \E f \in Events : SaveOutboxEvent(f)
             \/ \E w \in Workers : ReleaseStuckEvents(w) \/ ReleaseOverrun(w)
      PROVE  status'[e] = status[e] /\ retryCount'[e] = retryCount[e]
  BY <1>1 DEF SaveOutboxEvent, ReleaseStuckEvents, ReleaseOverrun, Stuck
<1>2. ASSUME NEW w \in Workers, ClaimPendingEvents(w) \/ ClaimReplyLost(w)
      PROVE  status'[e] = status[e] /\ retryCount'[e] = retryCount[e]
  <2>1. PICK S \in Candidates :
           status' = [f \in Events |-> IF f \in S THEN "processing" ELSE status[f]]
    BY <1>2 DEF ClaimPendingEvents, ClaimReplyLost
  <2>2. e \notin S
    BY CandidatesLemma
  <2>3. retryCount' = retryCount
    BY <1>2 DEF ClaimPendingEvents, ClaimReplyLost
  <2> QED
    BY <2>1, <2>2, <2>3
<1>3. ASSUME NEW w \in Workers, MarkPublished(w) \/ handleSendError(w)
      PROVE  status'[e] = status[e] /\ retryCount'[e] = retryCount[e]
  BY <1>3 DEF MarkPublished, handleSendError, UpdateProcessing, tableVars
<1>4. ASSUME \/ \E w \in Workers :
                   \/ SendMessage(w) \/ handleSuccess(w) \/ handleError(w) \/ PublishTimesOut(w)
                   \/ RecordFails(w) \/ Interrupt(w) \/ Crash(w)
                   \/ \E f \in Events : LateResult(w, f)
             \/ \E f \in Events : RetryDue(f)
             \/ UNCHANGED vars
      PROVE  status' = status /\ retryCount' = retryCount
  BY <1>4 DEF SendMessage, handleSuccess, handleError, PublishTimesOut, RecordFails,
              Interrupt, Crash, LateResult, RetryDue, vars, tableVars
<1> QED
  BY <1>1, <1>2, <1>3, <1>4 DEF Next, Step

\* One step of the induction for OpenRowsInv.
LEMMA OpenRowsStep ==
    ASSUME TypeOK, TypeOK', OpenRowsInv, [Next]_vars
    PROVE  OpenRowsInv'
<1> USE TypeFacts
<1> SUFFICES ASSUME NEW e \in Events
             PROVE  RowBounded(e)'
  BY DEF OpenRowsInv
<1>1. RowBounded(e)
  BY DEF OpenRowsInv
<1>2. CASE status[e] \in {"published", "failed"}
  BY <1>1, <1>2, ClosedStays, StaleFinite, OutboxAssumption DEF RowBounded
<1> SUFFICES ASSUME status[e] \notin {"published", "failed"}
             PROVE  RowBounded(e)'
  BY <1>2
<1>3. ASSUME NEW w \in Workers, ClaimPendingEvents(w)
      PROVE  RowBounded(e)'
  <2>1. PICK S \in Candidates :
           claimed' = [claimed EXCEPT
                         ![w] = {[event |-> f, retryCount |-> retryCount[f]] : f \in S}]
    BY <1>3 DEF ClaimPendingEvents
  <2>2. retryCount' = retryCount
    BY <1>3 DEF ClaimPendingEvents
  <2>3. ASSUME retryCount[e] >= MaxRetries, NEW v \in Stale(e)'
        PROVE  v \in Stale(e)
    <3>1. PICK row \in claimed'[v] : row.event = e /\ row.retryCount < MaxRetries
      BY DEF Stale
    <3>2. CASE v = w
      <4>1. PICK f \in S : row = [event |-> f, retryCount |-> retryCount[f]]
        BY <2>1, <3>1, <3>2 DEF Stale
      <4> QED
        BY <2>3, <3>1, <4>1, OutboxAssumption
    <3>3. CASE v # w
      BY <2>1, <3>1, <3>3 DEF Stale
    <3> QED
      BY <3>2, <3>3
  <2> QED
    BY <1>1, <2>2, <2>3, BoundUntouched
<1>4. ASSUME NEW w \in Workers, MarkPublished(w) \/ handleSendError(w)
      PROVE  RowBounded(e)'
  <2>1. NextEvent(w) /\ pc[w] # "idle"
    BY <1>4 DEF MarkPublished, handleSendError
  <2>2. \A v \in Workers : claimed'[v] \subseteq claimed[v]
    BY <2>1 DEF NextEvent
  <2>3. Stale(e)' \subseteq Stale(e)
    BY <2>2 DEF Stale
  <2>4. CASE status[e] # "processing" \/ e # current[w]
    <3>1. retryCount'[e] = retryCount[e]
      BY <1>4, <2>4 DEF MarkPublished, handleSendError, UpdateProcessing, tableVars
    <3> QED
      BY <1>1, <2>3, <3>1, BoundUntouched
  <2>5. CASE /\ status[e] = "processing" /\ e = current[w]
             /\ MarkPublished(w) \/ Exhausted(w)
    <3>1. /\ status'[e] \in {"published", "failed"}
          /\ retryCount'[e] = retryCount[e] \/ retryCount'[e] = retryCount[e] + 1
      BY <1>4, <2>5 DEF MarkPublished, handleSendError, UpdateProcessing, tableVars
    <3> QED
      BY <1>1, <2>5, <3>1, BoundClosed
  <2>6. CASE /\ status[e] = "processing" /\ e = current[w]
             /\ handleSendError(w) /\ ~Exhausted(w)
    <3>1. retryCount'[e] = retryCount[e] + 1
      BY <2>6 DEF handleSendError, UpdateProcessing, tableVars
    <3>2. PICK row \in claimed[w] : row.event = e
      BY <2>1, <2>6 DEF Held
    <3>3. row.retryCount < MaxRetries
      <4>1. row.retryCount \in Nat
        BY <3>2 DEF Row
      <4> QED
        BY <2>6, <3>2, <4>1, OutboxAssumption DEF Exhausted
    <3>4. w \in Stale(e)
      BY <3>2, <3>3 DEF Stale
    <3>5. /\ claimed'[w] = {r \in claimed[w] : r.event # e}
          /\ \A v \in Workers \ {w} : claimed'[v] = claimed[v]
      BY <2>1, <2>6 DEF NextEvent
    <3>6. Stale(e)' = Stale(e) \ {w}
      BY <3>5 DEF Stale
    <3> QED
      BY <1>1, <2>6, <3>1, <3>4, <3>6, BoundCounted
  <2> QED
    BY <1>4, <2>4, <2>5, <2>6
<1>5. ASSUME \/ \E w \in Workers :
                   \/ ClaimReplyLost(w) \/ ReleaseStuckEvents(w) \/ ReleaseOverrun(w)
                   \/ SendMessage(w) \/ handleSuccess(w) \/ handleError(w) \/ PublishTimesOut(w)
                   \/ RecordFails(w) \/ Interrupt(w) \/ Crash(w)
                   \/ \E f \in Events : LateResult(w, f)
             \/ \E f \in Events : SaveOutboxEvent(f) \/ RetryDue(f)
             \/ UNCHANGED vars
      PROVE  RowBounded(e)'
  <2>1. retryCount' = retryCount /\ \A v \in Workers : claimed'[v] \subseteq claimed[v]
    BY <1>5 DEF ClaimReplyLost, ReleaseStuckEvents, ReleaseOverrun, SendMessage, handleSuccess,
                handleError, PublishTimesOut, RecordFails, NextEvent, Interrupt, Crash, LateResult,
                SaveOutboxEvent, RetryDue, vars, tableVars
  <2>2. Stale(e)' \subseteq Stale(e)
    BY <2>1 DEF Stale
  <2> QED
    BY <1>1, <2>1, <2>2, BoundUntouched
<1> QED
  BY <1>3, <1>4, <1>5 DEF Next, Step

\* retry_count passes max_retries by no more than the number of workers, whether
\* or not batches outlive processing_timeout (handleSendError decides by the
\* count of the claim, and the UPDATE adds one to the count of the row).
THEOREM RetriesAreBounded == Spec => []RetryBound
<1>1. Init => OpenRowsInv
  <2> SUFFICES ASSUME Init, NEW e \in Events
               PROVE  RowBounded(e)
    BY DEF OpenRowsInv
  <2>1. Stale(e) = {}
    BY DEF Init, Stale
  <2>2. Cardinality(Stale(e)) = 0 /\ Cardinality(Workers) # 0
    BY <2>1, OutboxAssumption, FS_EmptySet
  <2> QED
    BY <2>2, StaleFinite, OutboxAssumption DEF Init, RowBounded
<1>2. TypeOK /\ TypeOK' /\ OpenRowsInv /\ [Next]_vars => OpenRowsInv'
  BY OpenRowsStep
<1>3. TypeOK /\ OpenRowsInv => RetryBound
  BY TypeFacts, StaleFinite, OutboxAssumption DEF OpenRowsInv, RowBounded, RetryBound
<1> QED
  BY <1>1, <1>2, <1>3, OutboxTypeCorrect, PTL DEF Spec

-----------------------------------------------------------------------------
(* What retry counts mean when batches overlap.                            *)

\* The workers about to record a failure of a row are finitely many.
LEMMA RecordingFinite ==
    \A e : IsFiniteSet(Recording(e)) /\ Cardinality(Recording(e)) \in Nat
<1> SUFFICES ASSUME NEW e
             PROVE  IsFiniteSet(Recording(e)) /\ Cardinality(Recording(e)) \in Nat
  OBVIOUS
<1>1. Recording(e) \in SUBSET Workers
  BY DEF Recording
<1> QED
  BY <1>1, OutboxAssumption, FS_Subset, FS_CardinalityType

\* The same in the next state.
LEMMA RecordingFiniteNext ==
    \A e : IsFiniteSet(Recording(e)') /\ Cardinality(Recording(e)') \in Nat
<1> SUFFICES ASSUME NEW e
             PROVE  IsFiniteSet(Recording(e)') /\ Cardinality(Recording(e)') \in Nat
  OBVIOUS
<1>1. Recording(e)' \in SUBSET Workers
  BY DEF Recording
<1> QED
  BY <1>1, OutboxAssumption, FS_Subset, FS_CardinalityType

\* A row that is not touched, of which nobody new has a failure to record.
LEMMA CountUntouched ==
    ASSUME TypeOK, NEW e \in Events, RowCounted(e),
           Recording(e)' \subseteq Recording(e),
           retryCount'[e] = retryCount[e], failures'[e] = failures[e]
    PROVE  RowCounted(e)'
<1>1. Cardinality(Recording(e)') <= Cardinality(Recording(e))
  BY RecordingFinite, FS_Subset
<1> QED
  BY <1>1, RecordingFinite, RecordingFiniteNext, TypeFacts, OutboxAssumption DEF RowCounted

\* A send fails: one more failure, one more worker to record it.
LEMMA CountFailed ==
    ASSUME TypeOK, NEW e \in Events, RowCounted(e), NEW w, CountFailure(e),
           w \notin Recording(e), Recording(e)' = Recording(e) \cup {w},
           retryCount'[e] = retryCount[e]
    PROVE  RowCounted(e)'
<1>1. Cardinality(Recording(e)') = Cardinality(Recording(e)) + 1
  BY RecordingFinite, FS_AddElement
<1>2. failures'[e] = IF failures[e] > MaxRetries THEN failures[e] ELSE failures[e] + 1
  BY TypeFacts DEF CountFailure
<1> QED
  BY <1>1, <1>2, RecordingFinite, TypeFacts, OutboxAssumption DEF RowCounted

\* A failure is recorded, in the row or in vain.
LEMMA CountRecorded ==
    ASSUME TypeOK, NEW e \in Events, RowCounted(e), NEW w \in Recording(e),
           Recording(e)' = Recording(e) \ {w},
           retryCount'[e] = retryCount[e] \/ retryCount'[e] = retryCount[e] + 1,
           failures'[e] = failures[e]
    PROVE  RowCounted(e)'
<1>1. Cardinality(Recording(e)') = Cardinality(Recording(e)) - 1
  BY RecordingFinite, FS_RemoveElement
<1> QED
  BY <1>1, RecordingFinite, TypeFacts, OutboxAssumption DEF RowCounted

\* A worker goes on to record the failure of e.
LEMMA FailureStep ==
    ASSUME TypeOK, CountInv, NEW w \in Workers, NEW e \in Events, pc[w] # "error",
           pc' = [pc EXCEPT ![w] = "error"], current' = [current EXCEPT ![w] = e],
           CountFailure(e), UNCHANGED <<retryCount, claimed>>
    PROVE  CountInv'
<1> USE TypeFacts
<1>1. w \notin Recording(e) /\ Recording(e)' = Recording(e) \cup {w}
  BY DEF Recording
<1>2. \A f \in Events \ {e} : Recording(f)' = Recording(f) /\ failures'[f] = failures[f]
  BY DEF Recording, CountFailure
<1>3. \A f \in Events : RowCounted(f)
  BY DEF CountInv
<1>4. ASSUME NEW f \in Events PROVE RowCounted(f)'
  BY <1>1, <1>2, <1>3, CountFailed, CountUntouched
<1> QED
  BY <1>4 DEF CountInv

\* A step that records nothing and leaves no new failure behind.
LEMMA QuietStep ==
    ASSUME TypeOK, CountInv,
           \A e \in Events : Recording(e)' \subseteq Recording(e),
           UNCHANGED <<retryCount, failures>>,
           \A w \in Workers : claimed'[w] \subseteq claimed[w]
    PROVE  CountInv'
<1>1. \A f \in Events : RowCounted(f)
  BY DEF CountInv
<1>2. ASSUME NEW f \in Events PROVE RowCounted(f)'
  BY <1>1, CountUntouched
<1> QED
  BY <1>2 DEF CountInv

\* One step of the induction for CountInv.
LEMMA CountStep ==
    ASSUME TypeOK, CountInv, [Next]_vars
    PROVE  CountInv'
<1> USE TypeFacts
<1>1. ASSUME NEW w \in Workers, SendMessage(w)
      PROVE  CountInv'
  <2>1. PICK e \in Held(w) :
           /\ current' = [current EXCEPT ![w] = e]
           /\ \/ Goto(w, "wait") /\ UNCHANGED failures
              \/ Goto(w, "error") /\ CountFailure(e)
    BY <1>1 DEF SendMessage
  <2>2. pc[w] = "idle" /\ e \in Events /\ UNCHANGED <<retryCount, claimed>>
    BY <1>1 DEF SendMessage, tableVars
  <2>3. CASE Goto(w, "wait") /\ UNCHANGED failures
    <3>1. \A f \in Events : Recording(f)' \subseteq Recording(f)
      BY <2>1, <2>2, <2>3 DEF Recording, Goto
    <3> QED
      BY <2>2, <2>3, <3>1, QuietStep
  <2>4. CASE Goto(w, "error") /\ CountFailure(e)
    BY <2>1, <2>2, <2>4, FailureStep DEF Goto
  <2> QED
    BY <2>1, <2>3, <2>4
<1>2. ASSUME NEW w \in Workers, handleError(w) \/ PublishTimesOut(w)
      PROVE  CountInv'
  <2>1. /\ pc[w] = "wait" /\ Goto(w, "error") /\ CountFailure(current[w])
        /\ UNCHANGED <<retryCount, claimed, current>>
    BY <1>2 DEF handleError, PublishTimesOut, tableVars
  <2>2. current' = [current EXCEPT ![w] = current[w]]
    BY <2>1
  <2> QED
    BY <2>1, <2>2, FailureStep DEF Goto
<1>3. ASSUME NEW w \in Workers, handleSendError(w)
      PROVE  CountInv'
  <2> DEFINE e == current[w]
  <2>1. /\ pc[w] = "error" /\ e \in Events
        /\ NextEvent(w) /\ UNCHANGED <<failures, current>>
        /\ retryCount'[e] = retryCount[e] \/ retryCount'[e] = retryCount[e] + 1
        /\ \A f \in Events \ {e} : retryCount'[f] = retryCount[f]
    BY <1>3 DEF handleSendError, UpdateProcessing, tableVars
  <2>2. w \in Recording(e) /\ Recording(e)' = Recording(e) \ {w}
    BY <2>1 DEF Recording, NextEvent, Goto
  <2>3. \A f \in Events \ {e} : Recording(f)' = Recording(f)
    BY <2>1 DEF Recording, NextEvent, Goto
  <2>4. \A f \in Events : RowCounted(f)
    BY DEF CountInv
  <2>5. ASSUME NEW f \in Events PROVE RowCounted(f)'
    <3>1. CASE f = e
      BY <2>1, <2>2, <2>4, <3>1, CountRecorded
    <3>2. CASE f # e
      BY <2>1, <2>3, <2>4, <3>2, CountUntouched
    <3> QED
      BY <3>1, <3>2
  <2>6. ASSUME NEW v \in Workers, NEW row \in claimed'[v]
        PROVE  row.retryCount <= retryCount'[row.event]
    <3>1. row \in claimed[v]
      BY <2>1, <2>6 DEF NextEvent
    <3>2. row.event \in Events /\ row.retryCount \in Nat /\ row.retryCount <= retryCount[row.event]
      BY <3>1 DEF Row, CountInv
    <3> QED
      BY <2>1, <3>2
  <2> QED
    BY <2>5, <2>6 DEF CountInv
<1>4. ASSUME NEW w \in Workers, ClaimPendingEvents(w)
      PROVE  CountInv'
  <2>1. PICK S \in Candidates :
           claimed' = [claimed EXCEPT
                         ![w] = {[event |-> e, retryCount |-> retryCount[e]] : e \in S}]
    BY <1>4 DEF ClaimPendingEvents
  <2>2. UNCHANGED <<retryCount, failures, pc, current>>
    BY <1>4 DEF ClaimPendingEvents
  <2>3. S \in SUBSET Events
    BY CandidatesLemma
  <2>4. \A f \in Events : RowCounted(f)
    BY DEF CountInv
  <2>5. ASSUME NEW f \in Events PROVE RowCounted(f)'
    <3>1. Recording(f)' = Recording(f)
      BY <2>2 DEF Recording
    <3> QED
      BY <2>2, <2>4, <3>1, CountUntouched
  <2>6. ASSUME NEW v \in Workers, NEW row \in claimed'[v]
        PROVE  row.retryCount <= retryCount'[row.event]
    <3>1. CASE v = w
      <4>1. PICK e \in S : row = [event |-> e, retryCount |-> retryCount[e]]
        BY <2>1, <2>6, <3>1
      <4> QED
        BY <2>2, <2>3, <4>1
    <3>2. CASE v # w
      BY <2>1, <2>2, <2>6, <3>2 DEF CountInv
    <3> QED
      BY <3>1, <3>2
  <2> QED
    BY <2>5, <2>6 DEF CountInv
<1>5. ASSUME NEW w \in Workers,
             \/ MarkPublished(w) \/ RecordFails(w) \/ Interrupt(w) \/ Crash(w) \/ handleSuccess(w)
      PROVE  CountInv'
  <2>1. /\ UNCHANGED <<failures, current>>
        /\ retryCount' = retryCount
        /\ \A v \in Workers : pc'[v] = pc[v] \/ pc'[v] # "error"
        /\ \A v \in Workers : claimed'[v] \subseteq claimed[v]
    BY <1>5 DEF MarkPublished, UpdateProcessing, RecordFails, NextEvent, Interrupt, Crash,
                handleSuccess, Goto, tableVars
  <2>2. \A e \in Events : Recording(e)' \subseteq Recording(e)
    BY <2>1 DEF Recording
  <2> QED
    BY <2>1, <2>2, QuietStep
<1>6. ASSUME \/ \E w \in Workers :
                   \/ ClaimReplyLost(w) \/ ReleaseStuckEvents(w) \/ ReleaseOverrun(w)
                   \/ \E e \in Events : LateResult(w, e)
             \/ \E e \in Events : SaveOutboxEvent(e) \/ RetryDue(e)
             \/ UNCHANGED vars
      PROVE  CountInv'
  <2>1. UNCHANGED <<retryCount, failures, pc, current, claimed>>
    BY <1>6 DEF ClaimReplyLost, ReleaseStuckEvents, ReleaseOverrun, LateResult,
                SaveOutboxEvent, RetryDue, vars, tableVars
  <2>2. \A e \in Events : Recording(e)' \subseteq Recording(e)
    BY <2>1 DEF Recording
  <2> QED
    BY <2>1, <2>2, QuietStep
<1> QED
  BY <1>1, <1>2, <1>3, <1>4, <1>5, <1>6 DEF Next, Step

\* One step of the induction for FailedAfterAllRetries.
LEMMA FailedStep ==
    ASSUME TypeOK, TypeOK', CountInv, FailedAfterAllRetries, [Next]_vars
    PROVE  FailedAfterAllRetries'
<1> USE TypeFacts, OutboxAssumption
<1>1. ASSUME NEW w \in Workers, handleSendError(w)
      PROVE  FailedAfterAllRetries'
  <2> DEFINE e == current[w]
  <2>1. /\ pc[w] = "error" /\ e \in Events /\ UNCHANGED failures
        /\ \A f \in Events \ {e} : status'[f] = status[f]
        /\ status'[e] = "failed" => Exhausted(w) \/ status[e] = "failed"
    BY <1>1 DEF handleSendError, UpdateProcessing, tableVars
  <2>2. ASSUME Exhausted(w) PROVE failures[e] >= MaxRetries + 1
    <3>1. PICK row \in claimed[w] : row.event = e /\ row.retryCount >= MaxRetries
      BY <2>2 DEF Exhausted
    <3>2. row.retryCount \in Nat /\ row.retryCount <= retryCount[e]
      BY <3>1 DEF Row, CountInv
    <3>3. w \in Recording(e)
      BY <2>1 DEF Recording
    <3>4. Cardinality(Recording(e)) \in Nat /\ Cardinality(Recording(e)) # 0
      BY <3>3, RecordingFinite, FS_EmptySet
    <3>5. \/ failures[e] > MaxRetries
          \/ retryCount[e] + Cardinality(Recording(e)) <= failures[e]
      BY <2>1 DEF CountInv, RowCounted
    <3>6. retryCount[e] \in Nat /\ failures[e] \in Nat
      BY <2>1
    <3> QED
      BY <3>1, <3>2, <3>4, <3>5, <3>6
  <2> QED
    BY <2>1, <2>2 DEF FailedAfterAllRetries
<1>2. ASSUME NEW w \in Workers, SendMessage(w) \/ handleError(w) \/ PublishTimesOut(w)
      PROVE  FailedAfterAllRetries'
  <2>1. status' = status /\ \A e \in Events : failures'[e] >= failures[e]
    <3>1. CASE UNCHANGED failures
      BY <1>2, <3>1 DEF SendMessage, handleError, PublishTimesOut, tableVars
    <3>2. CASE \E e \in Events : CountFailure(e)
      BY <1>2, <3>2 DEF SendMessage, handleError, PublishTimesOut, tableVars, CountFailure
    <3> QED
      BY <1>2, <3>1, <3>2 DEF SendMessage, handleError, PublishTimesOut
  <2>2. \A e \in Events : failures[e] \in Nat /\ failures'[e] \in Nat
    BY DEF TypeOK
  <2> QED
    BY <2>1, <2>2 DEF FailedAfterAllRetries
<1>3. ASSUME NEW w \in Workers,
             \/ ClaimPendingEvents(w) \/ ClaimReplyLost(w)
             \/ ReleaseStuckEvents(w) \/ ReleaseOverrun(w)
      PROVE  FailedAfterAllRetries'
  BY <1>3 DEF ClaimPendingEvents, ClaimReplyLost, ReleaseStuckEvents, ReleaseOverrun,
              FailedAfterAllRetries
<1>4. ASSUME NEW w \in Workers,
             \/ MarkPublished(w) \/ handleSuccess(w)
             \/ RecordFails(w) \/ Interrupt(w) \/ Crash(w)
             \/ \E e \in Events : LateResult(w, e)
      PROVE  FailedAfterAllRetries'
  BY <1>4 DEF MarkPublished, UpdateProcessing, handleSuccess, RecordFails, Interrupt, Crash,
              LateResult, tableVars, FailedAfterAllRetries
<1>5. ASSUME \/ \E e \in Events : SaveOutboxEvent(e) \/ RetryDue(e)
             \/ UNCHANGED vars
      PROVE  FailedAfterAllRetries'
  BY <1>5 DEF SaveOutboxEvent, RetryDue, vars, tableVars, FailedAfterAllRetries
<1> QED
  BY <1>1, <1>2, <1>3, <1>4, <1>5 DEF Next, Step

\* A row is given up only after max_retries + 1 failed sends, even when batches
\* outlive processing_timeout and several workers send and count the same row
\* (handleSendError, MarkFailed).
THEOREM GivenUpAfterAllRetries == Spec => []FailedAfterAllRetries
<1>1. Init => CountInv /\ FailedAfterAllRetries
  <2> SUFFICES ASSUME Init
               PROVE  CountInv /\ FailedAfterAllRetries
    OBVIOUS
  <2>1. \A e \in Events : Recording(e) = {}
    BY DEF Init, Recording
  <2>2. \A e \in Events : Cardinality(Recording(e)) = 0
    BY <2>1, FS_EmptySet
  <2> QED
    BY <2>2, OutboxAssumption DEF Init, CountInv, RowCounted, FailedAfterAllRetries
<1>2. TypeOK /\ CountInv /\ [Next]_vars => CountInv'
  BY CountStep
<1>3. TypeOK /\ TypeOK' /\ CountInv /\ FailedAfterAllRetries /\ [Next]_vars
         => FailedAfterAllRetries'
  BY FailedStep
<1> QED
  BY <1>1, <1>2, <1>3, OutboxTypeCorrect, PTL DEF Spec
=============================================================================
