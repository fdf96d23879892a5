------------------------- MODULE MarketPollerProofs -------------------------
(***************************************************************************)
(* Proofs about the market poller: its types, the size of its batches, and *)
(* that its cursor passes no change that was not announced, but for those  *)
(* that commit behind it; and none does when changes commit in order.      *)
(***************************************************************************)
EXTENDS MarketPoller, Functions, FiniteSetTheorems, TLAPS

\* The rows of a batch are one for each of its markets.
LEMMA BatchRows ==
    ASSUME NEW S, IsFiniteSet(S)
    PROVE  LET read == {[market |-> m, at |-> rows[m].at, revision |-> rows[m].revision] : m \in S}
           IN  IsFiniteSet(read) /\ Cardinality(read) <= Cardinality(S)
<1> DEFINE read == {[market |-> m, at |-> rows[m].at, revision |-> rows[m].revision] : m \in S}
           f == [m \in S |-> [market |-> m, at |-> rows[m].at, revision |-> rows[m].revision]]
<1>1. f \in [S -> read]
  OBVIOUS
<1>2. \A r \in read : \E m \in S : f[m] = r
  OBVIOUS
<1>3. f \in Surjection(S, read)
  BY <1>1, <1>2 DEF Surjection
<1> HIDE DEF read, f
<1>4. IsFiniteSet(read) /\ Cardinality(read) <= Cardinality(S)
  BY <1>3, FS_Surjection
<1> QED
  BY <1>4 DEF read

\* ListUpdatedSince returns at most batch_size markets.
LEMMA FirstChangedSize ==
    ASSUME NEW k, NEW S \in FirstChanged(k)
    PROVE  /\ S \subseteq Markets
           /\ IsFiniteSet(S)
           /\ Cardinality(S) <= BatchSize
<1>1. /\ S \subseteq ChangedSince(k)
      /\ Cardinality(S) = IF Cardinality(ChangedSince(k)) < BatchSize
                          THEN Cardinality(ChangedSince(k)) ELSE BatchSize
  BY DEF FirstChanged
<1>2. ChangedSince(k) \in SUBSET Markets
  BY DEF ChangedSince
<1>3. S \in SUBSET Markets
  BY <1>1, <1>2
<1>4. IsFiniteSet(S)
  BY <1>3, PollerAssumption, FS_Subset
<1>5. Cardinality(ChangedSince(k)) \in Nat
  BY <1>2, PollerAssumption, FS_Subset, FS_CardinalityType
<1>6. Cardinality(S) <= BatchSize
  BY <1>1, <1>5, PollerAssumption
<1> QED
  BY <1>3, <1>4, <1>6

-----------------------------------------------------------------------------
(* Types.                                                                  *)

\* The cursor after a batch, and what SaveBatch writes, have their types.
LEMMA SaveBatchTypes ==
    ASSUME Types, NEW i \in Instances, NEW k, NextCursor(i, k), SaveBatch(i, k)
    PROVE  /\ k \in [at : Nat, id : Nat]
           /\ savedCursor' = k
           /\ outbox' \subseteq [market : Markets, revision : Nat]
<1>1. batch[i] \subseteq [market : Markets, at : Nat, revision : Nat]
  BY DEF Types
<1>2. PICK r \in batch[i] : k = [at |-> r.at, id |-> r.market]
  BY DEF NextCursor
<1>3. k \in [at : Nat, id : Nat]
  BY <1>1, <1>2, PollerAssumption
<1>4. \A q \in batch[i] : [market |-> q.market, revision |-> q.revision]
                            \in [market : Markets, revision : Nat]
  BY <1>1
<1> QED
  BY <1>3, <1>4 DEF SaveBatch, Types

\* One step keeps the types, batch sizes aside.
LEMMA TypesStep ==
    ASSUME Types, [Next]_vars
    PROVE  Types'
<1> USE DEF Types, Goto, Fault
<1>1. ASSUME NEW w \in Writers, BeginChange(w) PROVE Types'
  BY <1>1 DEF BeginChange, dbVars, pollVars
<1>2. ASSUME NEW w \in Writers, CommitChange(w) PROVE Types'
  BY <1>2 DEF CommitChange, dbVars, pollVars
<1>3. ASSUME NEW i \in Instances, loadCursor(i) PROVE Types'
  BY <1>3 DEF loadCursor, rowVars, dbVars
<1>4. ASSUME NEW i \in Instances, ListUpdatedSince(i) PROVE Types'
  <2>1. PICK S \in FirstChanged(cursor[i]) :
           /\ batch' = [batch EXCEPT
                          ![i] = {[market |-> m, at |-> rows[m].at,
                                   revision |-> rows[m].revision] : m \in S}]
           /\ Goto(i, "publish")
    BY <1>4 DEF ListUpdatedSince
  <2>2. S \subseteq Markets
    BY FirstChangedSize
  <2>3. {[market |-> m, at |-> rows[m].at, revision |-> rows[m].revision] : m \in S}
          \subseteq [market : Markets, at : Nat, revision : Nat]
    BY <2>2
  <2>4. batch' \in [Instances -> SUBSET [market : Markets, at : Nat, revision : Nat]]
    BY <2>1, <2>3
  <2>5. pc' \in [Instances -> {"down", "poll", "publish"}]
    BY <2>1
  <2> QED
    BY <1>4, <2>4, <2>5 DEF ListUpdatedSince, rowVars, dbVars
<1>5. ASSUME NEW i \in Instances, PublishMarketStateChanged(i) PROVE Types'
  <2>1. PICK k : NextCursor(i, k) /\ SaveBatch(i, k) /\ cursor' = [cursor EXCEPT ![i] = k]
    BY <1>5 DEF PublishMarketStateChanged
  <2>2. /\ k \in [at : Nat, id : Nat] /\ savedCursor' = k
        /\ outbox' \subseteq [market : Markets, revision : Nat]
    BY <2>1, SaveBatchTypes
  <2> QED
    BY <1>5, <2>1, <2>2 DEF PublishMarketStateChanged, rowVars
<1>6. ASSUME NEW i \in Instances, PollFails(i) PROVE Types'
  <2>1. /\ outbox' \subseteq [market : Markets, revision : Nat]
        /\ savedCursor' \in [at : Nat, id : Nat]
    <3>1. CASE UNCHANGED dbVars
      BY <3>1 DEF dbVars
    <3>2. CASE \E k : NextCursor(i, k) /\ SaveBatch(i, k)
      BY <3>2, SaveBatchTypes
    <3> QED
      BY <1>6, <3>1, <3>2 DEF PollFails
  <2>2. /\ pc' \in [Instances -> {"down", "poll", "publish"}]
        /\ batch' \in [Instances -> SUBSET [market : Markets, at : Nat, revision : Nat]]
        /\ cursor' = cursor
    BY <1>6 DEF PollFails, AbandonBatch
  <2>3. faults' \in 0 .. MaxFaults
    BY <1>6, PollerAssumption DEF PollFails
  <2> QED
    BY <1>6, <2>1, <2>2, <2>3 DEF PollFails, rowVars
<1>7. ASSUME NEW i \in Instances, Crash(i) PROVE Types'
  BY <1>7, PollerAssumption DEF Crash, rowVars, dbVars, NoCursor
<1>8. ASSUME UNCHANGED vars PROVE Types'
  BY <1>8 DEF vars, rowVars, dbVars, pollVars
<1> QED
  BY <1>1, <1>2, <1>3, <1>4, <1>5, <1>6, <1>7, <1>8
     DEF Next, Poll

\* A batch appears with the step to "publish" and goes with the step away.
LEMMA BatchStep ==
    ASSUME Types, BatchOK, [Next]_vars
    PROVE  BatchOK'
<1> USE DEF BatchOK, Goto
<1> DEFINE None(i) == batch' = [batch EXCEPT ![i] = {}] /\ \E l : l # "publish" /\ Goto(i, l)
<1>1. ASSUME NEW i \in Instances, None(i) PROVE BatchOK'
  <2>1. IsFiniteSet({}) /\ Cardinality({}) = 0
    BY FS_EmptySet
  <2> SUFFICES ASSUME NEW j \in Instances
               PROVE  /\ IsFiniteSet(batch'[j])
                      /\ Cardinality(batch'[j]) <= BatchSize
                      /\ pc'[j] = "publish" <=> batch'[j] # {}
    OBVIOUS
  <2>2. CASE j = i
    <3>1. batch'[j] = {} /\ pc'[j] # "publish"
      BY <1>1, <2>2 DEF Types
    <3> QED
      BY <2>1, <3>1, PollerAssumption
  <2>3. CASE j # i
    BY <1>1, <2>3 DEF Types
  <2> QED
    BY <2>2, <2>3
<1>2. ASSUME UNCHANGED <<pc, batch>> PROVE BatchOK'
  BY <1>2
<1>3. ASSUME NEW i \in Instances, NEW l, Goto(i, l), l # "publish", pc[i] # "publish",
             UNCHANGED batch
      PROVE  BatchOK'
  BY <1>3 DEF Types
<1>4. ASSUME NEW i \in Instances, ListUpdatedSince(i) PROVE BatchOK'
  <2>1. PICK S \in FirstChanged(cursor[i]) :
           /\ S # {}
           /\ batch' = [batch EXCEPT
                          ![i] = {[market |-> m, at |-> rows[m].at,
                                   revision |-> rows[m].revision] : m \in S}]
           /\ Goto(i, "publish")
    BY <1>4 DEF ListUpdatedSince
  <2> DEFINE read == {[market |-> m, at |-> rows[m].at, revision |-> rows[m].revision] : m \in S}
  <2>2. IsFiniteSet(S) /\ Cardinality(S) \in Nat /\ Cardinality(S) <= BatchSize
    BY FirstChangedSize, FS_CardinalityType
  <2>3. IsFiniteSet(read) /\ Cardinality(read) <= Cardinality(S)
    BY <2>2, BatchRows
  <2>4. Cardinality(read) \in Nat
    BY <2>3, FS_CardinalityType
  <2>5. S # {} => read # {}
    OBVIOUS
  <2> HIDE DEF read
  <2>6. S # {} /\ batch' = [batch EXCEPT ![i] = read] /\ Goto(i, "publish")
    BY <2>1 DEF read
  <2>7. Cardinality(read) <= BatchSize
    BY <2>2, <2>3, <2>4, PollerAssumption
  <2> QED
    BY <2>3, <2>5, <2>6, <2>7 DEF Types
<1>5. ASSUME NEW i \in Instances, PublishMarketStateChanged(i) PROVE BatchOK'
  BY <1>1, <1>5 DEF PublishMarketStateChanged
<1>6. ASSUME NEW i \in Instances, PollFails(i) PROVE BatchOK'
  BY <1>1, <1>6 DEF PollFails, AbandonBatch
<1>7. ASSUME NEW i \in Instances, loadCursor(i) PROVE BatchOK'
  BY <1>3, <1>7 DEF loadCursor
<1>8. ASSUME NEW i \in Instances, Crash(i) PROVE BatchOK'
  BY <1>1, <1>8 DEF Crash
<1> HIDE DEF BatchOK, Goto, None
<1> QED
  BY <1>2, <1>4, <1>5, <1>6, <1>7, <1>8
     DEF Next, Poll, BeginChange, CommitChange, vars, pollVars

\* The types hold at the start.
LEMMA TypesInit ==
    ASSUME Init
    PROVE  Types /\ BatchOK
<1>1. Types
  BY PollerAssumption DEF Init, Types, NoCursor
<1>2. IsFiniteSet({}) /\ Cardinality({}) = 0
  BY FS_EmptySet
<1>3. BatchOK
  BY <1>2, PollerAssumption DEF Init, BatchOK
<1> QED
  BY <1>1, <1>3

\* Type correctness of the market poller: in every reachable state the variables
\* have their types, a batch exists exactly while it is published, and it has at
\* most batch_size rows (ListUpdatedSince, processNextBatch).
THEOREM PollerTypeCorrect == Spec => []TypeOK
<1>1. Init => TypeOK
  BY TypesInit DEF TypeOK
<1>2. TypeOK /\ [Next]_vars => TypeOK'
  BY TypesStep, BatchStep DEF TypeOK
<1> QED
  BY <1>1, <1>2, PTL DEF Spec

-----------------------------------------------------------------------------
(* Only late changes are skipped.                                          *)

\* Steps that write neither rows nor outbox, and move a cursor only to the saved
\* one or back to the start, keep the invariant if they read no batch.
LEMMA LateKept ==
    ASSUME Types, LateInv, UNCHANGED <<rows, late, outbox, savedCursor>>,
           \A i \in Instances : \/ cursor'[i] = cursor[i]
                                \/ cursor'[i] = savedCursor
                                \/ cursor'[i] = NoCursor,
           \A i \in Instances : batch'[i] \in {batch[i], {}}
    PROVE  LateInv'
<1> SUFFICES ASSUME NEW m \in Markets, m \notin late, ~Announced(m)'
             PROVE  Ahead(m)' /\ \A i \in Instances : InBatchOrAfter(m, i)'
  BY DEF LateInv
<1>1. Ahead(m) /\ \A i \in Instances : InBatchOrAfter(m, i)
  BY DEF LateInv, Announced
<1>2. Before(NoCursor, Key(m))
  BY PollerAssumption DEF Before, Key, NoCursor, Types
<1>3. Ahead(m)'
  BY <1>1, <1>2 DEF Ahead, Before, Key
<1>4. \A i \in Instances : InBatchOrAfter(m, i)'
  BY <1>1 DEF InBatchOrAfter, Before, Key
<1> QED
  BY <1>3, <1>4

\* A change that is not late commits after every cursor and every row that was
\* read; the other rows stay as they are.
LEMMA LateCommit ==
    ASSUME Types, LateInv, NEW w \in Writers, CommitChange(w)
    PROVE  LateInv'
<1>1. PICK S \in SUBSET Markets :
         /\ rows' = [m \in Markets |->
                       IF m \in S THEN [at |-> openTx[w], revision |-> rows[m].revision + 1]
                       ELSE rows[m]]
         /\ late' = (late \ S) \cup {m \in S : Reached([at |-> openTx[w], id |-> m])}
  BY DEF CommitChange
<1>2. UNCHANGED <<outbox, savedCursor, cursor, batch>>
  BY DEF CommitChange, dbVars, pollVars
<1> SUFFICES ASSUME NEW m \in Markets, m \notin late'
             PROVE  (Announced(m) \/ (Ahead(m) /\ \A i \in Instances : InBatchOrAfter(m, i)))'
  BY DEF LateInv
<1>3. CASE m \in S
  <2>1. ~Reached([at |-> openTx[w], id |-> m])
    BY <1>1, <1>3
  <2>2. Key(m)' = [at |-> openTx[w], id |-> m]
    BY <1>1, <1>3 DEF Key
  <2>3. Ahead(m)'
    BY <1>2, <2>1, <2>2 DEF Reached, Ahead, Before
  <2>4. \A i \in Instances : InBatchOrAfter(m, i)'
    BY <1>2, <2>1, <2>2 DEF Reached, InBatchOrAfter, Before
  <2> QED
    BY <2>3, <2>4
<1>4. CASE m \notin S
  <2>1. m \notin late /\ rows'[m] = rows[m]
    BY <1>1, <1>4
  <2> QED
    BY <1>2, <2>1 DEF LateInv, Announced, Ahead, InBatchOrAfter, Before, Key
<1> QED
  BY <1>3, <1>4

\* The batch that was read is the beginning of what comes after the cursor.
LEMMA LateRead ==
    ASSUME Types, LateInv, NEW i \in Instances, ListUpdatedSince(i)
    PROVE  LateInv'
<1>1. UNCHANGED <<rows, late, outbox, savedCursor, cursor>>
  BY DEF ListUpdatedSince, rowVars, dbVars
<1>2. PICK S \in FirstChanged(cursor[i]) :
         batch' = [batch EXCEPT
                     ![i] = {[market |-> m, at |-> rows[m].at,
                              revision |-> rows[m].revision] : m \in S}]
  BY DEF ListUpdatedSince
<1> DEFINE read == {[market |-> m, at |-> rows[m].at, revision |-> rows[m].revision] : m \in S}
<1>3. batch'[i] = read /\ \A j \in Instances : j # i => batch'[j] = batch[j]
  BY <1>2 DEF Types
<1>4. \A m \in S, n \in Markets : n \notin S /\ Before(cursor[i], Key(n)) => Before(Key(m), Key(n))
  BY DEF FirstChanged, ChangedSince
<1> SUFFICES ASSUME NEW m \in Markets, m \notin late, ~Announced(m)
             PROVE  Ahead(m)' /\ \A j \in Instances : InBatchOrAfter(m, j)'
  BY <1>1 DEF LateInv, Announced
<1>5. Ahead(m) /\ \A j \in Instances : InBatchOrAfter(m, j)
  BY DEF LateInv
<1>6. Ahead(m)'
  BY <1>1, <1>5 DEF Ahead, Before, Key
<1>7. InBatchOrAfter(m, i)'
  <2>1. CASE m \in S
    BY <1>1, <1>3, <2>1 DEF InBatchOrAfter
  <2>2. CASE m \notin S
    <3>1. ASSUME NEW r \in read PROVE Before([at |-> r.at, id |-> r.market], Key(m))
      <4>1. PICK n \in S : r = [market |-> n, at |-> rows[n].at, revision |-> rows[n].revision]
        OBVIOUS
      <4>2. Before(Key(n), Key(m))
        BY <1>4, <1>5, <2>2 DEF Ahead
      <4> QED
        BY <4>1, <4>2 DEF Before, Key
    <3> QED
      BY <1>1, <1>3, <3>1 DEF InBatchOrAfter, Before, Key
  <2> QED
    BY <2>1, <2>2
<1>8. ASSUME NEW j \in Instances, j # i PROVE InBatchOrAfter(m, j)'
  BY <1>1, <1>3, <1>5, <1>8 DEF InBatchOrAfter, Before, Key
<1> QED
  BY <1>6, <1>7, <1>8

\* The events of a batch and its cursor are saved together; the cursor in memory
\* follows, or stays when the commit seems to have failed.
LEMMA LateSaved ==
    ASSUME Types, LateInv, NEW i \in Instances, NEW k,
           NextCursor(i, k), SaveBatch(i, k), UNCHANGED <<rows, late>>,
           cursor' \in {cursor, [cursor EXCEPT ![i] = k]},
           batch' = [batch EXCEPT ![i] = {}]
    PROVE  LateInv'
<1>1. PICK r \in batch[i] : k = [at |-> r.at, id |-> r.market]
  BY DEF NextCursor
<1>2. savedCursor' = k /\ \A j \in Instances : cursor'[j] \in {cursor[j], k}
  BY DEF Types, SaveBatch
<1>3. \A j \in Instances : batch'[j] \in {batch[j], {}}
  BY DEF Types
<1> SUFFICES ASSUME NEW m \in Markets, m \notin late, ~Announced(m)'
             PROVE  Ahead(m)' /\ \A j \in Instances : InBatchOrAfter(m, j)'
  BY DEF LateInv
<1>4. /\ ~Announced(m)
      /\ [market |-> m, at |-> rows[m].at, revision |-> rows[m].revision] \notin batch[i]
  BY DEF Announced, SaveBatch
<1>5. Ahead(m) /\ \A j \in Instances : InBatchOrAfter(m, j)
  BY <1>4 DEF LateInv
<1>6. Before(k, Key(m))
  BY <1>1, <1>4, <1>5 DEF InBatchOrAfter
<1>7. Ahead(m)'
  BY <1>2, <1>5, <1>6 DEF Ahead, Before, Key
<1>8. \A j \in Instances : InBatchOrAfter(m, j)'
  BY <1>3, <1>5 DEF InBatchOrAfter, Before, Key
<1> QED
  BY <1>7, <1>8

\* One step keeps the changes that are not late ahead of every cursor until they
\* are announced.
LEMMA LateStep ==
    ASSUME Types, LateInv, [Next]_vars
    PROVE  LateInv'
<1> USE DEF Types
<1>1. ASSUME NEW i \in Instances, PublishMarketStateChanged(i) PROVE LateInv'
  <2>1. PICK k : NextCursor(i, k) /\ SaveBatch(i, k) /\ cursor' = [cursor EXCEPT ![i] = k]
    BY <1>1 DEF PublishMarketStateChanged
  <2> QED
    BY <1>1, <2>1, LateSaved DEF PublishMarketStateChanged, rowVars
<1>2. ASSUME NEW i \in Instances, PollFails(i) PROVE LateInv'
  <2>1. CASE UNCHANGED dbVars
    BY <1>2, <2>1, LateKept DEF PollFails, AbandonBatch, rowVars, dbVars
  <2>2. CASE AbandonBatch(i) /\ \E k : NextCursor(i, k) /\ SaveBatch(i, k)
    BY <1>2, <2>2, LateSaved DEF PollFails, AbandonBatch, rowVars
  <2> QED
    BY <1>2, <2>1, <2>2 DEF PollFails
<1>3. ASSUME NEW i \in Instances, loadCursor(i) PROVE LateInv'
  BY <1>3, LateKept DEF loadCursor, rowVars, dbVars
<1>4. ASSUME NEW i \in Instances, Crash(i) PROVE LateInv'
  BY <1>4, LateKept DEF Crash, rowVars, dbVars
<1>5. ASSUME UNCHANGED <<rows, late, dbVars, pollVars>> PROVE LateInv'
  BY <1>5, LateKept DEF dbVars, pollVars
<1> QED
  BY <1>1, <1>2, <1>3, <1>4, <1>5, LateCommit, LateRead
     DEF Next, Poll, BeginChange, vars, rowVars

\* The inductive invariant holds in every reachable state.
LEMMA LateInvariant == Spec => [](Types /\ LateInv)
<1>1. Init => Types /\ LateInv
  <2>1. Init => LateInv
    BY PollerAssumption DEF Init, LateInv, Ahead, InBatchOrAfter, Before, Key, NoCursor
  <2> QED
    BY <2>1, TypesInit
<1>2. Types /\ LateInv /\ [Next]_vars => Types' /\ LateInv'
  BY TypesStep, LateStep
<1> QED
  BY <1>1, <1>2, PTL DEF Spec

\* In whatever order transactions commit, a change that no cursor has ahead of it
\* and that was not announced is one that committed behind what a poller had read:
\* for any number of instances, writers and markets and any batch size, crashes,
\* failed transactions and commits whose answer is lost skip nothing else
\* (PublishMarketStateChanged, ListUpdatedSince).
THEOREM OnlyLateChangesSkipped == Spec => []SkippedOnlyIfLate
<1>1. LateInv => SkippedOnlyIfLate
  BY DEF LateInv, SkippedOnlyIfLate
<1> QED
  BY <1>1, LateInvariant, PTL

-----------------------------------------------------------------------------
(* Nothing is late when changes commit in order.                           *)

\* Steps that change no row and take cursors and batches from rows, from the
\* saved cursor or from nowhere leave all of them behind the rows.
LEMMA SerialKept ==
    ASSUME Types, SerialInv, UNCHANGED <<rows, late>>,
           Behind(savedCursor'.at),
           \A i \in Instances : /\ Behind(cursor'[i].at)
                                /\ \A r \in batch'[i] : Behind(r.at)
    PROVE  SerialInv'
  BY DEF SerialInv, Behind

\* A change that commits in its turn has a later updated_at than all rows, hence
\* than all that was read.
LEMMA SerialCommit ==
    ASSUME Types, SerialInv, Serialized, NEW w \in Writers, CommitChange(w)
    PROVE  SerialInv'
<1>1. PICK S \in SUBSET Markets :
         /\ rows' = [m \in Markets |->
                       IF m \in S THEN [at |-> openTx[w], revision |-> rows[m].revision + 1]
                       ELSE rows[m]]
         /\ late' = (late \ S) \cup {m \in S : Reached([at |-> openTx[w], id |-> m])}
  BY DEF CommitChange
<1>2. /\ \A m \in Markets : rows[m].at \in Nat /\ rows[m].at < openTx[w]
      /\ openTx[w] \in Nat /\ openTx[w] > 0
      /\ UNCHANGED <<savedCursor, cursor, batch>>
  BY DEF CommitChange, Types, dbVars, pollVars
<1>3. \A m \in Markets : rows'[m].at \in Nat /\ rows[m].at <= rows'[m].at
  BY <1>1, <1>2
<1>4. \A t \in Nat : Behind(t) => t < openTx[w] /\ Behind(t)'
  BY <1>2, <1>3 DEF Behind
<1>5. /\ savedCursor.at \in Nat /\ Behind(savedCursor.at)
      /\ \A i \in Instances : /\ cursor[i].at \in Nat /\ Behind(cursor[i].at)
                              /\ \A r \in batch[i] : r.at \in Nat /\ Behind(r.at)
  BY DEF Types, SerialInv
<1>6. late' = {}
  <2>1. \A m \in Markets : ~Reached([at |-> openTx[w], id |-> m])
    BY <1>4, <1>5 DEF Reached, Before
  <2> QED
    BY <1>1, <2>1 DEF SerialInv
<1>7. \A m \in Markets : rows'[m].at > 0
  BY <1>2, <1>3 DEF SerialInv
<1>8. /\ Behind(savedCursor.at)'
      /\ \A i \in Instances : /\ Behind(cursor[i].at)'
                              /\ \A r \in batch'[i] : Behind(r.at)'
  BY <1>2, <1>4, <1>5 DEF Behind
<1> QED
  BY <1>6, <1>7, <1>8 DEF SerialInv

\* One step keeps cursors and batches behind the rows, and no change late.
LEMMA SerialStep ==
    ASSUME Types, SerialInv, Serialized, [Next]_vars
    PROVE  SerialInv'
<1> USE DEF Types
<1>1. ASSUME NEW i \in Instances, NEW k, NextCursor(i, k) PROVE Behind(k.at)
  BY <1>1 DEF NextCursor, SerialInv
<1>2. Behind(NoCursor.at)
  BY DEF Behind, NoCursor
<1>3. ASSUME NEW i \in Instances, PublishMarketStateChanged(i) PROVE SerialInv'
  <2>1. PICK k : NextCursor(i, k) /\ SaveBatch(i, k) /\ cursor' = [cursor EXCEPT ![i] = k]
    BY <1>3 DEF PublishMarketStateChanged
  <2> QED
    BY <1>1, <1>3, <2>1, SerialKept DEF PublishMarketStateChanged, SaveBatch, SerialInv, rowVars
<1>4. ASSUME NEW i \in Instances, PollFails(i) PROVE SerialInv'
  <2>1. Behind(savedCursor'.at)
    BY <1>1, <1>4 DEF PollFails, SaveBatch, SerialInv, dbVars
  <2> QED
    BY <1>4, <2>1, SerialKept DEF PollFails, AbandonBatch, SerialInv, rowVars
<1>5. ASSUME NEW i \in Instances, loadCursor(i) PROVE SerialInv'
  BY <1>5, SerialKept DEF loadCursor, SerialInv, rowVars, dbVars
<1>6. ASSUME NEW i \in Instances, Crash(i) PROVE SerialInv'
  BY <1>2, <1>6, SerialKept DEF Crash, SerialInv, rowVars, dbVars
<1>7. ASSUME NEW i \in Instances, ListUpdatedSince(i) PROVE SerialInv'
  <2>1. PICK S \in FirstChanged(cursor[i]) :
           batch' = [batch EXCEPT
                       ![i] = {[market |-> m, at |-> rows[m].at,
                                revision |-> rows[m].revision] : m \in S}]
    BY <1>7 DEF ListUpdatedSince
  <2>2. S \subseteq Markets
    BY FirstChangedSize
  <2>3. \A m \in Markets : Behind(rows[m].at)
    BY DEF Behind
  <2>4. \A j \in Instances : \A r \in batch'[j] : Behind(r.at)
    BY <2>1, <2>2, <2>3 DEF SerialInv
  <2> QED
    BY <1>7, <2>4, SerialKept DEF ListUpdatedSince, SerialInv, rowVars, dbVars
<1>8. ASSUME UNCHANGED <<rows, late, dbVars, pollVars>> PROVE SerialInv'
  BY <1>8, SerialKept DEF dbVars, pollVars, SerialInv
<1> QED
  BY <1>3, <1>4, <1>5, <1>6, <1>7, <1>8, SerialCommit
     DEF Next, Poll, BeginChange, vars, rowVars

\* If changes commit in the order of their updated_at, none is late: no cursor,
\* saved or in memory, passes a change that is not in the outbox.
THEOREM NothingSkipped == ASSUME Serialized PROVE Spec => []NoChangeSkipped
<1>1. Init => SerialInv
  BY DEF Init, SerialInv, Behind, NoCursor
<1>2. Types /\ SerialInv /\ [Next]_vars => SerialInv'
  BY SerialStep
<1>3. SkippedOnlyIfLate /\ SerialInv => NoChangeSkipped
  BY DEF SkippedOnlyIfLate, SerialInv, NoChangeSkipped
<1> QED
  BY <1>1, <1>2, <1>3, LateInvariant, OnlyLateChangesSkipped, PTL DEF Spec
=============================================================================
