---------------------- MODULE MarketCompensationProofs ----------------------
(***************************************************************************)
(* Proofs about MarketCompensation, for any number of members, events and  *)
(* orders, and any bounds on the log and on disruptions.                   *)
(***************************************************************************)
EXTENDS MarketCompensation, TLAPS

\* A member that handles a message handles one that was published.
LEMMA EventInHand ==
    ASSUME TypeOK, NEW c \in Consumers, pc[c] # "idle"
    PROVE  /\ EventOf(c) \in Events
           /\ position[c] \in Nat /\ position[c] < Len(log)
  <1>1. position[c] \in Nat /\ position[c] < Len(log) /\ log \in Seq(Events)
    BY DEF TypeOK
  <1>2. position[c] + 1 \in 1 .. Len(log)
    BY <1>1
  <1> QED BY <1>1, <1>2 DEF EventOf

\* A step within the message in hand.
LEMMA GotoType ==
    ASSUME TypeOK, NEW c \in Consumers, pc[c] # "idle", NEW label \in Labels,
           Goto(c, label), UNCHANGED <<log, session, position>>
    PROVE  /\ pc' \in [Consumers -> Labels]
           /\ \A d \in Consumers :
                  pc'[d] # "idle" => session'[d] # "none" /\ position'[d] < Len(log')
  BY DEF TypeOK, Goto

\* What an attempt that fails may do to the member.
LEMMA HandlerFailsType ==
    ASSUME TypeOK, NEW c \in Consumers, pc[c] # "idle", HandlerFails(c)
    PROVE  /\ pc' \in [Consumers -> Labels]
           /\ position' \in [Consumers -> Nat]
           /\ retries' \in [Consumers -> 0 .. MaxRetries]
           /\ \A d \in Consumers : pc'[d] # "idle" => session[d] # "none" /\ position'[d] < Len(log)
  <1> USE CompensationAssumption DEF Goto
  <1>1. CASE /\ retries[c] < MaxRetries
             /\ pc' = [pc EXCEPT ![c] = "begin"]
             /\ retries' = [retries EXCEPT ![c] = @ + 1]
             /\ UNCHANGED position
    BY <1>1 DEF TypeOK, Labels
  <1>2. CASE StopConsumeClaim(c)
    BY <1>2 DEF StopConsumeClaim, TypeOK, Labels
  <1>3. CASE pc' = [pc EXCEPT ![c] = Exhausted(c)] /\ UNCHANGED <<position, retries>>
    BY <1>3 DEF Exhausted, TypeOK, Labels
  <1> QED BY <1>1, <1>2, <1>3 DEF HandlerFails

\* The end of a transaction leaves its locks and row sets well typed.
LEMMA ReleaseRowsType ==
    ASSUME TypeOK, NEW c \in Consumers, ReleaseRows(c)
    PROVE  /\ rowLock' \in [Events -> Consumers \cup {None}]
           /\ matched' \in [Consumers -> SUBSET Orders]
           /\ cancelling' \in [Consumers -> SUBSET Orders]
  BY DEF TypeOK, ReleaseRows

\* What the commit of ProcessMarketStateChanged writes is well typed.
LEMMA ApplyTransactionType ==
    ASSUME TypeOK, NEW c \in Consumers, ApplyTransaction(c)
    PROVE  /\ orders' \in [Orders -> {"none", "created", "cancelled"}]
           /\ notices' \in [Orders -> Nat]
           /\ inbox' \in [Events -> {"none", "failed", "processed"}]
           /\ ReleaseRows(c)
  <1>1. orders' \in [Orders -> {"none", "created", "cancelled"}]
    BY DEF TypeOK, ApplyTransaction, MarkProcessed, ProduceOrderStatusUpdated
  <1>2. notices' \in [Orders -> Nat]
    BY DEF TypeOK, ApplyTransaction, MarkProcessed, ProduceOrderStatusUpdated
  <1>3. inbox' \in [Events -> {"none", "failed", "processed"}]
    BY DEF TypeOK, ApplyTransaction, MarkProcessed, ProduceOrderStatusUpdated
  <1>4. ReleaseRows(c)
    BY DEF ApplyTransaction, MarkProcessed, ProduceOrderStatusUpdated
  <1> QED BY <1>1, <1>2, <1>3, <1>4

\* Every step keeps the types: retries within max_retries, disruptions within
\* their bound, and a member at work has a message of the log in hand.
THEOREM CompensationTypeCorrect == Spec => []TypeOK
  <1> USE CompensationAssumption
  <1>1. Init => TypeOK
    BY DEF Init, TypeOK, NoBlock, Labels
  <1>2. TypeOK /\ [Next]_vars => TypeOK'
    <2> SUFFICES ASSUME TypeOK, [Next]_vars PROVE TypeOK'
      OBVIOUS
    <2> USE DEF groupVars, tableVars, sharedVars, txVars, memberVars
    <2>1. ASSUME NEW c \in Consumers, Consume(c) PROVE TypeOK'
      <3>1. disruptions' \in 0 .. MaxDisruptions
        BY <2>1 DEF Consume, Disrupt, TypeOK
      <3>2. pc[c] = "idle"
        BY <2>1 DEF Consume, TypeOK
      <3> QED BY <2>1, <3>1, <3>2 DEF Consume, TypeOK, Labels
    <2>2. ASSUME NEW c \in Consumers, CancelSession(c) PROVE TypeOK'
      BY <2>2 DEF CancelSession, Disrupt, TypeOK
    <2>3. ASSUME NEW c \in Consumers, ConsumeClaim(c) PROVE TypeOK'
      BY <2>3 DEF ConsumeClaim, Goto, TypeOK, Labels
    <2>4. ASSUME NEW c \in Consumers, EndSession(c) PROVE TypeOK'
      BY <2>4 DEF EndSession, Goto, TypeOK, Labels
    <2>5. ASSUME NEW c \in Consumers, MarkMessage(c) PROVE TypeOK'
      BY <2>5, SMTT(30) DEF MarkMessage, Goto, TypeOK, Labels
    <2>6. ASSUME NEW c \in Consumers, CommitOffset(c) PROVE TypeOK'
      BY <2>6 DEF CommitOffset, TypeOK
    <2>7. ASSUME NEW c \in Consumers, handleMarketStateChanged(c) PROVE TypeOK'
      BY <2>7 DEF handleMarketStateChanged, Goto, TypeOK, Labels
    <2>8. ASSUME NEW c \in Consumers, sendToDLQ(c) PROVE TypeOK'
      <3>1. Goto(c, "mark") /\ "mark" \in Labels /\ pc[c] # "idle"
        BY <2>8 DEF sendToDLQ, Labels
      <3>2. dlq' \subseteq Nat
        <4>1. dlq \subseteq Nat /\ position[c] \in Nat /\ dlq' = dlq \cup {position[c]}
          BY <2>8 DEF sendToDLQ, TypeOK
        <4> QED BY <4>1
      <3> QED BY <2>8, <3>1, <3>2, GotoType DEF sendToDLQ, TypeOK
    <2>9. ASSUME NEW c \in Consumers, sendToDLQFails(c) PROVE TypeOK'
      <3>1. CASE StopConsumeClaim(c)
        BY <2>9, <3>1, SMTT(30) DEF sendToDLQFails, StopConsumeClaim, Goto, TypeOK, Labels
      <3>2. CASE Goto(c, "error") /\ UNCHANGED <<position, retries>>
        <4>1. "error" \in Labels /\ pc[c] # "idle"
          BY <2>9 DEF sendToDLQFails, Labels
        <4> QED BY <2>9, <3>2, <4>1, GotoType DEF sendToDLQFails, TypeOK
      <3> QED BY <2>9, <3>1, <3>2 DEF sendToDLQFails
    <2>10. ASSUME NEW c \in Consumers, BeginProcessing(c) PROVE TypeOK'
      <3>1. pc[c] # "idle" /\ {"apply", "skip"} \subseteq Labels
        BY <2>10 DEF BeginProcessing, Labels
      <3>2. rowLock' \in [Events -> Consumers \cup {None}]
        <4>1. \/ rowLock' = [rowLock EXCEPT ![EventOf(c)] = c]
              \/ rowLock' = rowLock
          BY <2>10, Zenon DEF BeginProcessing
        <4>2. rowLock \in [Events -> Consumers \cup {None}]
          BY DEF TypeOK
        <4> QED BY <4>1, <4>2
      <3>3. CASE Goto(c, "apply")
        BY <2>10, <3>1, <3>2, <3>3, GotoType DEF BeginProcessing, TypeOK
      <3>4. CASE Goto(c, "skip")
        BY <2>10, <3>1, <3>2, <3>4, GotoType DEF BeginProcessing, TypeOK
      <3> QED BY <2>10, <3>3, <3>4 DEF BeginProcessing
    <2>11. ASSUME NEW c \in Consumers, applyCompensationTransaction(c) PROVE TypeOK'
      <3>1. pc[c] # "idle" /\ {"cancel", "commit"} \subseteq Labels
        BY <2>11 DEF applyCompensationTransaction, Labels
      <3>2. matched' \in [Consumers -> SUBSET Orders]
        <4>1. {o \in Orders : orders[o] = "created"} \in SUBSET Orders
          OBVIOUS
        <4>2. \/ matched' = [matched EXCEPT ![c] = {o \in Orders : orders[o] = "created"}]
              \/ matched' = matched
          BY <2>11, Zenon DEF applyCompensationTransaction
        <4>3. matched \in [Consumers -> SUBSET Orders]
          BY DEF TypeOK
        <4> QED BY <4>1, <4>2, <4>3
      <3>3. CASE Goto(c, "cancel")
        BY <2>11, <3>1, <3>2, <3>3, GotoType DEF applyCompensationTransaction, TypeOK
      <3>4. CASE Goto(c, "commit")
        BY <2>11, <3>1, <3>2, <3>4, GotoType DEF applyCompensationTransaction, TypeOK
      <3> QED BY <2>11, <3>3, <3>4 DEF applyCompensationTransaction
    <2>12. ASSUME NEW c \in Consumers, CancelActiveOrdersByMarket(c) PROVE TypeOK'
      BY <2>12 DEF CancelActiveOrdersByMarket, StillActive, Goto, TypeOK, Labels
    <2>13. ASSUME NEW c \in Consumers, commitTransaction(c) PROVE TypeOK'
      BY <2>13, ApplyTransactionType, ReleaseRowsType DEF commitTransaction, Goto, TypeOK, Labels
    <2>14. ASSUME NEW c \in Consumers, handleSkippedEvent(c) PROVE TypeOK'
      BY <2>14 DEF handleSkippedEvent, Goto, TypeOK, Labels
    <2>15. ASSUME NEW c \in Consumers, trySynchronizeMarketBlockState(c) PROVE TypeOK'
      <3>1. UpdatedAt[EventOf(c)] \in Nat
        BY <2>15, EventInHand DEF trySynchronizeMarketBlockState
      <3>2. block' \in [at : Nat, blocked : BOOLEAN, present : BOOLEAN]
        <4> DEFINE Blocked == EventOf(c) \in Unavailable
        <4>1. Blocked \in BOOLEAN /\ TRUE \in BOOLEAN
          OBVIOUS
        <4>2. [at |-> UpdatedAt[EventOf(c)], blocked |-> Blocked, present |-> TRUE]
                 \in [at : Nat, blocked : BOOLEAN, present : BOOLEAN]
          <5> HIDE DEF Blocked
          <5> QED BY <3>1, <4>1
        <4>3. \/ block' = block
              \/ block' = [at |-> UpdatedAt[EventOf(c)], blocked |-> Blocked, present |-> TRUE]
          BY <2>15, Zenon DEF trySynchronizeMarketBlockState, SynchronizeState
        <4> QED BY <4>2, <4>3, Zenon DEF TypeOK
      <3> QED BY <2>15, <3>2 DEF trySynchronizeMarketBlockState, Goto, TypeOK, Labels
    <2>16. ASSUME NEW c \in Consumers, FailWithoutRecord(c) PROVE TypeOK'
      <3>1. pc[c] # "idle" /\ HandlerFails(c)
        BY <2>16 DEF FailWithoutRecord
      <3>2. CASE ReleaseRows(c) /\ UNCHANGED tableVars
        BY <2>16, <3>1, <3>2, HandlerFailsType, ReleaseRowsType DEF FailWithoutRecord, TypeOK
      <3>3. CASE ApplyTransaction(c)
        BY <2>16, <3>1, <3>3, HandlerFailsType, ApplyTransactionType, ReleaseRowsType
           DEF FailWithoutRecord, TypeOK
      <3> QED BY <2>16, <3>2, <3>3 DEF FailWithoutRecord
    <2>17. ASSUME NEW c \in Consumers, failProcessing(c) PROVE TypeOK'
      BY <2>17, ReleaseRowsType DEF failProcessing, Goto, TypeOK, Labels
    <2>18. ASSUME NEW c \in Consumers, SaveFailed(c) PROVE TypeOK'
      <3>1. pc[c] # "idle" /\ HandlerFails(c)
        BY <2>18 DEF SaveFailed
      <3>2. inbox' \in [Events -> {"none", "failed", "processed"}]
        BY <2>18 DEF SaveFailed, TypeOK
      <3> QED BY <2>18, <3>1, <3>2, HandlerFailsType DEF SaveFailed, TypeOK
    <2>19. ASSUME NEW c \in Consumers, HandlerPanics(c) PROVE TypeOK'
      <3>1. Goto(c, "error") /\ "error" \in Labels /\ pc[c] # "idle"
        BY <2>19 DEF HandlerPanics, Labels
      <3>2. disruptions' \in 0 .. MaxDisruptions
        BY <2>19 DEF HandlerPanics, Disrupt, TypeOK
      <3> QED BY <2>19, <3>1, <3>2, GotoType, ReleaseRowsType DEF HandlerPanics, TypeOK
    <2>20. ASSUME NEW c \in Consumers, Crash(c) PROVE TypeOK'
      BY <2>20, ReleaseRowsType, SMTT(30) DEF Crash, Disrupt, Goto, TypeOK, Labels
    <2>21. ASSUME NEW e \in Events, Publish(e) PROVE TypeOK'
      <3>1. /\ log' = Append(log, e) /\ Len(log) < MaxLog
            /\ UNCHANGED <<offset, owner, disruptions, sharedVars, pc, memberVars, txVars>>
        BY <2>21 DEF Publish
      <3>2. due' \in [Events -> SUBSET Orders]
        <4>1. {o \in Orders : orders[o] = "created"} \in SUBSET Orders
          OBVIOUS
        <4>2. \/ due' = [due EXCEPT ![e] = {o \in Orders : orders[o] = "created"}]
              \/ due' = due
          BY <2>21, Zenon DEF Publish
        <4>3. due \in [Events -> SUBSET Orders]
          BY DEF TypeOK
        <4> QED BY <4>1, <4>2, <4>3
      <3>3. log' \in Seq(Events) /\ Len(log') = Len(log) + 1 /\ Len(log) \in Nat
        BY <3>1 DEF TypeOK
      <3>4. \A c \in Consumers : pc'[c] # "idle" => session'[c] # "none" /\ position'[c] < Len(log')
        BY <3>1, <3>3 DEF TypeOK
      <3> HIDE DEF groupVars
      <3> QED BY <3>1, <3>2, <3>3, <3>4, Zenon DEF TypeOK
    <2>22. ASSUME NEW o \in Orders, SaveOrder(o) PROVE TypeOK'
      BY <2>22 DEF SaveOrder, TypeOK
    <2>23. CASE ExpireBlock
      BY <2>23 DEF ExpireBlock, NoBlock, TypeOK
    <2>24. CASE UNCHANGED vars
      BY <2>24 DEF vars, TypeOK
    <2> QED BY <2>1, <2>2, <2>3, <2>4, <2>5, <2>6, <2>7, <2>8, <2>9, <2>10, <2>11, <2>12,
               <2>13, <2>14, <2>15, <2>16, <2>17, <2>18, <2>19, <2>20, <2>21, <2>22, <2>23,
               <2>24 DEF Next, Step
  <1> QED BY <1>1, <1>2, PTL DEF Spec

(***************************************************************************)
(* The inbox: a processed row is final.                                    *)
(***************************************************************************)

\* No step takes a processed row back: COMMIT writes processed, and SaveFailed
\* leaves a processed row alone.
LEMMA InboxStep ==
    ASSUME TypeOK, Next
    PROVE  \A e \in Events : inbox[e] = "processed" => inbox'[e] = "processed"
  <1> USE DEF tableVars, sharedVars
  <1>1. ASSUME NEW c \in Consumers, ApplyTransaction(c) PROVE (\A e \in Events : inbox[e] = "processed" => inbox'[e] = "processed")
    BY <1>1 DEF ApplyTransaction, MarkProcessed, ProduceOrderStatusUpdated, TypeOK
  <1>2. ASSUME NEW c \in Consumers, SaveFailed(c) PROVE (\A e \in Events : inbox[e] = "processed" => inbox'[e] = "processed")
    BY <1>2 DEF SaveFailed, MayFail, TypeOK
  <1>3. ASSUME NEW c \in Consumers, Step(c) \/ CancelSession(c) \/ HandlerPanics(c) \/ Crash(c)
        PROVE  ApplyTransaction(c) \/ SaveFailed(c) \/ UNCHANGED inbox
    BY <1>3 DEF Step, Consume, CancelSession, ConsumeClaim, EndSession, MarkMessage,
         CommitOffset, handleMarketStateChanged, sendToDLQ, sendToDLQFails,
         BeginProcessing, applyCompensationTransaction, CancelActiveOrdersByMarket,
         commitTransaction, handleSkippedEvent, trySynchronizeMarketBlockState,
         FailWithoutRecord, failProcessing, HandlerPanics, Crash
  <1>4. ASSUME NEW e \in Events, Publish(e) PROVE UNCHANGED inbox
    BY <1>4 DEF Publish
  <1>5. ASSUME NEW o \in Orders, SaveOrder(o) PROVE UNCHANGED inbox
    BY <1>5 DEF SaveOrder
  <1>6. CASE ExpireBlock
    BY <1>6 DEF ExpireBlock
  <1> QED BY <1>1, <1>2, <1>3, <1>4, <1>5, <1>6 DEF Next

\* A processed inbox row stays processed, for any number of members that fail
\* or succeed on the same event in any order.
THEOREM ProcessedForEver == Spec => ProcessedIsFinal
  <1>1. TypeOK /\ [Next]_vars =>
           [\A e \in Events : inbox[e] = "processed" => inbox'[e] = "processed"]_vars
    <2> SUFFICES ASSUME TypeOK, [Next]_vars
                 PROVE [\A e \in Events : inbox[e] = "processed" => inbox'[e] = "processed"]_vars
      OBVIOUS
    <2>1. CASE Next
      BY <2>1, InboxStep
    <2>2. CASE UNCHANGED vars
      BY <2>2
    <2> QED BY <2>1, <2>2
  <1> QED BY <1>1, CompensationTypeCorrect, PTL DEF Spec, ProcessedIsFinal

(***************************************************************************)
(* Orders are cancelled and announced once.                                *)
(***************************************************************************)

\* The end of a transaction frees its rows and no others.
LEMMA ReleaseKeepsRows ==
    ASSUME TypeOK, RowsInv, NEW c \in Consumers, ReleaseRows(c), UNCHANGED <<orders, notices>>
    PROVE  RowsInv'
  BY DEF TypeOK, RowsInv, CancelNotifiedOnce, ReleaseRows

\* A commit cancels rows that only it holds, and announces each of them.
LEMMA CommitKeepsRows ==
    ASSUME TypeOK, RowsInv, NEW c \in Consumers, ApplyTransaction(c)
    PROVE  RowsInv'
  <1>1. /\ orders' = [o \in Orders |-> IF o \in cancelling[c] THEN "cancelled" ELSE orders[o]]
        /\ notices' = [o \in Orders |-> IF o \in cancelling[c] THEN notices[o] + 1 ELSE notices[o]]
        /\ cancelling' = [cancelling EXCEPT ![c] = {}]
    BY DEF ApplyTransaction, MarkProcessed, ProduceOrderStatusUpdated, ReleaseRows
  <1>2. CancelNotifiedOnce'
    <2> SUFFICES ASSUME NEW o \in Orders
                 PROVE notices'[o] = IF orders'[o] = "cancelled" THEN 1 ELSE 0
      BY DEF CancelNotifiedOnce
    <2>1. notices[o] = IF orders[o] = "cancelled" THEN 1 ELSE 0
      BY DEF RowsInv, CancelNotifiedOnce
    <2>2. o \in cancelling[c] => orders[o] = "created"
      BY DEF RowsInv
    <2> QED BY <1>1, <2>1, <2>2
  <1>3. \A d \in Consumers : \A o \in cancelling'[d] : orders'[o] = "created"
    <2> SUFFICES ASSUME NEW d \in Consumers, NEW o \in cancelling'[d] PROVE orders'[o] = "created"
      OBVIOUS
    <2>1. d # c /\ o \in cancelling[d]
      BY <1>1 DEF TypeOK
    <2>2. o \notin cancelling[c] /\ orders[o] = "created" /\ o \in Orders
      BY <2>1 DEF RowsInv, TypeOK
    <2> QED BY <1>1, <2>2
  <1>4. \A d1, d2 \in Consumers : d1 # d2 => cancelling'[d1] \cap cancelling'[d2] = {}
    BY <1>1 DEF TypeOK, RowsInv
  <1> QED BY <1>2, <1>3, <1>4 DEF RowsInv

\* One step keeps the rows of open transactions active and apart.
LEMMA RowsStep == TypeOK /\ RowsInv /\ [Next]_vars => RowsInv'
  <1> SUFFICES ASSUME TypeOK, RowsInv, [Next]_vars PROVE RowsInv'
    OBVIOUS
  <1> USE DEF tableVars, sharedVars, txVars
  <1> DEFINE Same == UNCHANGED <<orders, notices, cancelling>>
  <1>1. ASSUME Same PROVE RowsInv'
    BY <1>1 DEF RowsInv, CancelNotifiedOnce
  <1>2. ASSUME NEW c \in Consumers, Step(c) \/ CancelSession(c) \/ HandlerPanics(c) \/ Crash(c)
        PROVE  \/ Same
               \/ ReleaseRows(c) /\ UNCHANGED <<orders, notices>>
               \/ ApplyTransaction(c)
               \/ CancelActiveOrdersByMarket(c)
    BY <1>2 DEF Step, Consume, CancelSession, ConsumeClaim, EndSession, MarkMessage,
         CommitOffset, handleMarketStateChanged, sendToDLQ, sendToDLQFails,
         BeginProcessing, applyCompensationTransaction,
         commitTransaction, handleSkippedEvent, trySynchronizeMarketBlockState,
         FailWithoutRecord, failProcessing, SaveFailed, HandlerPanics, Crash
  <1>3. ASSUME NEW c \in Consumers, CancelActiveOrdersByMarket(c) PROVE RowsInv'
    <2>1. /\ cancelling' = [cancelling EXCEPT ![c] = {o \in matched[c] : orders[o] = "created"}]
          /\ \A d \in Consumers : cancelling[d] \cap matched[c] = {}
          /\ UNCHANGED <<orders, notices>>
      BY <1>3 DEF CancelActiveOrdersByMarket, StillActive
    <2>2. CancelNotifiedOnce'
      BY <2>1 DEF RowsInv, CancelNotifiedOnce
    <2>3. \A d \in Consumers : \A o \in cancelling'[d] : orders'[o] = "created"
      BY <2>1 DEF RowsInv, TypeOK
    <2>4. \A d1, d2 \in Consumers : d1 # d2 => cancelling'[d1] \cap cancelling'[d2] = {}
      <3> SUFFICES ASSUME NEW d1 \in Consumers, NEW d2 \in Consumers, d1 # d2,
                          NEW o \in cancelling'[d1], o \in cancelling'[d2]
                   PROVE FALSE
        OBVIOUS
      <3>1. CASE d1 = c
        BY <2>1, <3>1 DEF TypeOK
      <3>2. CASE d2 = c
        BY <2>1, <3>2 DEF TypeOK
      <3>3. CASE d1 # c /\ d2 # c
        BY <2>1, <3>3 DEF TypeOK, RowsInv
      <3> QED BY <3>1, <3>2, <3>3
    <2> QED BY <2>2, <2>3, <2>4 DEF RowsInv
  <1>4. ASSUME NEW e \in Events, Publish(e) PROVE Same
    BY <1>4 DEF Publish
  <1>5. ASSUME NEW o \in Orders, SaveOrder(o) PROVE RowsInv'
    <2>1. /\ orders[o] = "none" /\ orders' = [orders EXCEPT ![o] = "created"]
          /\ UNCHANGED <<notices, cancelling>>
      BY <1>5 DEF SaveOrder
    <2>2. CancelNotifiedOnce'
      BY <2>1 DEF RowsInv, CancelNotifiedOnce, TypeOK
    <2>3. \A d \in Consumers : \A p \in cancelling'[d] : orders'[p] = "created"
      BY <2>1 DEF RowsInv, TypeOK
    <2> QED BY <2>1, <2>2, <2>3 DEF RowsInv
  <1>6. CASE ExpireBlock
    BY <1>6, <1>1 DEF ExpireBlock
  <1>7. CASE UNCHANGED vars
    BY <1>7, <1>1 DEF vars
  <1> HIDE DEF Same
  <1> QED BY <1>1, <1>2, <1>3, <1>4, <1>5, <1>6, <1>7, ReleaseKeepsRows, CommitKeepsRows DEF Next

\* A cancelled order is announced exactly once and no other order is, for any
\* number of members, redeliveries, crashes and commits with a lost answer.
THEOREM CancelledOnce == Spec => []CancelNotifiedOnce
  <1>1. Init => RowsInv
    BY DEF Init, RowsInv, CancelNotifiedOnce
  <1>2. RowsInv => CancelNotifiedOnce
    BY DEF RowsInv
  <1> QED BY <1>1, <1>2, RowsStep, CompensationTypeCorrect, PTL DEF Spec

(***************************************************************************)
(* Redis is told only what was committed.                                  *)
(***************************************************************************)

\* The log only grows; what was processed or dead-lettered stays so.
Grows ==
    /\ log' = log \/ \E e \in Events : log' = Append(log, e)
    /\ \A e \in Events : inbox[e] = "processed" => inbox'[e] = "processed"
    /\ dlq \subseteq dlq'

\* No step takes a message, a processed event or a dead letter back.
LEMMA StepGrows == ASSUME TypeOK, Next PROVE Grows
  <1> USE DEF groupVars, tableVars, sharedVars
  <1>1. ASSUME NEW c \in Consumers, Step(c) \/ CancelSession(c) \/ HandlerPanics(c) \/ Crash(c)
        PROVE  UNCHANGED log /\ dlq \subseteq dlq'
    BY <1>1 DEF Step, Consume, CancelSession, ConsumeClaim, EndSession, MarkMessage,
         CommitOffset, handleMarketStateChanged, sendToDLQ, sendToDLQFails,
         BeginProcessing, applyCompensationTransaction, CancelActiveOrdersByMarket,
         commitTransaction, handleSkippedEvent, trySynchronizeMarketBlockState,
         FailWithoutRecord, failProcessing, SaveFailed, HandlerPanics, Crash
  <1>2. ASSUME NEW e \in Events, Publish(e) PROVE Grows
    BY <1>2, InboxStep DEF Publish, Grows
  <1>3. ASSUME NEW o \in Orders, SaveOrder(o) PROVE Grows
    BY <1>3, InboxStep DEF SaveOrder, Grows
  <1>4. CASE ExpireBlock
    BY <1>4, InboxStep DEF ExpireBlock, Grows
  <1> QED BY <1>1, <1>2, <1>3, <1>4, InboxStep DEF Next, Grows

\* A published message stays where it is in the partition.
LEMMA LogKept ==
    ASSUME TypeOK, Grows, NEW p \in Nat, p < Len(log)
    PROVE  log[p + 1] \in Events /\ log'[p + 1] = log[p + 1] /\ p < Len(log')
  <1>1. log \in Seq(Events) /\ p + 1 \in 1 .. Len(log)
    BY DEF TypeOK
  <1>2. CASE log' = log
    BY <1>1, <1>2
  <1>3. ASSUME NEW e \in Events, log' = Append(log, e)
        PROVE  log[p + 1] \in Events /\ log'[p + 1] = log[p + 1] /\ p < Len(log')
    BY <1>1, <1>3
  <1> QED BY <1>2, <1>3 DEF Grows

\* The partition never gets shorter.
LEMMA LogLonger == ASSUME TypeOK, Grows PROVE Len(log) \in Nat /\ Len(log') \in Nat /\ Len(log) <= Len(log')
  BY DEF TypeOK, Grows

\* A message that was dealt with stays dealt with.
LEMMA SettledKept ==
    ASSUME TypeOK, Grows, NEW p \in Nat, p < Len(log), Settled(p)
    PROVE  Settled(p)'
  <1>1. log'[p + 1] = log[p + 1] /\ log[p + 1] \in Events
    BY LogKept
  <1> QED BY <1>1 DEF Settled, Grows

\* The message in hand is processed once the member is at sync or skip.
LEMMA InHandKept ==
    ASSUME TypeOK, Grows, NEW c \in Consumers, pc[c] # "idle", position'[c] = position[c],
           inbox[EventOf(c)] = "processed"
    PROVE  inbox'[EventOf(c)'] = "processed"
  <1>1. EventOf(c)' = EventOf(c) /\ EventOf(c) \in Events
    BY EventInHand, LogKept DEF EventOf
  <1> QED BY <1>1 DEF Grows

\* A step that leaves the block state, or lets it expire, keeps it committed.
LEMMA BlockKept ==
    ASSUME TypeOK, Grows, BlockFollowsCommit, UNCHANGED block \/ block' = NoBlock
    PROVE  BlockFollowsCommit'
  BY DEF BlockFollowsCommit, Grows, NoBlock

\* One step keeps the block state, and what a member is about to write
\* there, behind the commit.
LEMMA SyncStep == TypeOK /\ SyncInv /\ [Next]_vars => SyncInv'
  <1> SUFFICES ASSUME TypeOK, SyncInv, [Next]_vars PROVE SyncInv'
    OBVIOUS
  <1> USE DEF groupVars, tableVars, sharedVars, txVars, memberVars
  <1>1. CASE UNCHANGED vars
    BY <1>1 DEF vars, SyncInv, BlockFollowsCommit, EventOf
  <1>2. CASE Next
    <2>1. Grows
      BY <1>2, StepGrows
    <2>2. BlockFollowsCommit'
      <3>1. ASSUME NEW c \in Consumers, trySynchronizeMarketBlockState(c) PROVE BlockFollowsCommit'
        <4>1. CASE UNCHANGED block
          BY <2>1, <4>1, BlockKept DEF SyncInv
        <4>2. CASE block' = [at |-> UpdatedAt[EventOf(c)], blocked |-> EventOf(c) \in Unavailable,
                             present |-> TRUE]
          <5>1. EventOf(c) \in Events /\ inbox'[EventOf(c)] = "processed"
            BY <3>1, <2>1, EventInHand DEF trySynchronizeMarketBlockState, SyncInv, Grows
          <5>2. block'.at = UpdatedAt[EventOf(c)] /\ block'.blocked = (EventOf(c) \in Unavailable)
            BY <4>2
          <5> QED BY <5>1, <5>2 DEF BlockFollowsCommit
        <4> QED BY <3>1, <4>1, <4>2 DEF trySynchronizeMarketBlockState, SynchronizeState
      <3>2. ASSUME NEW c \in Consumers, Step(c) \/ CancelSession(c) \/ HandlerPanics(c) \/ Crash(c)
            PROVE  UNCHANGED block \/ trySynchronizeMarketBlockState(c)
        BY <3>2 DEF Step, Consume, CancelSession, ConsumeClaim, EndSession, MarkMessage,
         CommitOffset, handleMarketStateChanged, sendToDLQ, sendToDLQFails,
         BeginProcessing, applyCompensationTransaction, CancelActiveOrdersByMarket,
         commitTransaction, handleSkippedEvent, FailWithoutRecord, failProcessing, SaveFailed, HandlerPanics, Crash
      <3>3. (\E e \in Events : Publish(e)) \/ (\E o \in Orders : SaveOrder(o)) \/ ExpireBlock
              => UNCHANGED block \/ block' = NoBlock
        BY DEF Publish, SaveOrder, ExpireBlock
      <3> QED BY <1>2, <2>1, <3>1, <3>2, <3>3, BlockKept DEF Next, SyncInv
    <2>3. ASSUME NEW d \in Consumers, pc'[d] \in {"sync", "skip"}
          PROVE  inbox'[EventOf(d)'] = "processed"
      <3>1. ASSUME pc[d] = pc'[d], position'[d] = position[d] PROVE inbox'[EventOf(d)'] = "processed"
        BY <2>1, <2>3, <3>1, InHandKept DEF SyncInv
      <3>2. ASSUME NEW c \in Consumers, c # d,
                   Step(c) \/ CancelSession(c) \/ HandlerPanics(c) \/ Crash(c)
            PROVE  pc[d] = pc'[d] /\ position'[d] = position[d]
        BY <3>2 DEF Step, Consume, CancelSession, ConsumeClaim, EndSession, MarkMessage,
         CommitOffset, handleMarketStateChanged, sendToDLQ, sendToDLQFails,
         BeginProcessing, applyCompensationTransaction, CancelActiveOrdersByMarket,
         commitTransaction, handleSkippedEvent, trySynchronizeMarketBlockState,
         FailWithoutRecord, failProcessing, SaveFailed, HandlerPanics, Crash, HandlerFails, StopConsumeClaim, Goto, TypeOK
      <3>3. ASSUME Step(d) \/ CancelSession(d) \/ HandlerPanics(d) \/ Crash(d)
            PROVE  \/ pc[d] = pc'[d] /\ position'[d] = position[d]
                   \/ BeginProcessing(d) \/ commitTransaction(d) \/ handleSkippedEvent(d)
        <4>1. pc' = [pc EXCEPT ![d] = pc'[d]]
          BY <3>3 DEF Step, Consume, CancelSession, ConsumeClaim, EndSession, MarkMessage,
         CommitOffset, handleMarketStateChanged, sendToDLQ, sendToDLQFails,
         BeginProcessing, applyCompensationTransaction, CancelActiveOrdersByMarket,
         commitTransaction, handleSkippedEvent, trySynchronizeMarketBlockState,
         FailWithoutRecord, failProcessing, SaveFailed, HandlerPanics, Crash, HandlerFails, StopConsumeClaim, Goto, TypeOK
        <4> QED BY <3>3, <2>3, <4>1 DEF Step, Consume, CancelSession, ConsumeClaim, EndSession, MarkMessage,
         CommitOffset, handleMarketStateChanged, sendToDLQ, sendToDLQFails,
         applyCompensationTransaction, CancelActiveOrdersByMarket,
         trySynchronizeMarketBlockState,
         FailWithoutRecord, failProcessing, SaveFailed, HandlerPanics, Crash, HandlerFails, StopConsumeClaim, Exhausted, Goto, TypeOK
      <3>4. ASSUME BeginProcessing(d) PROVE inbox'[EventOf(d)'] = "processed"
        <4>1. pc'[d] = "skip" /\ inbox[EventOf(d)] \notin {"none", "failed"}
          BY <3>4, <2>3 DEF BeginProcessing, Goto, TypeOK
        <4>2. EventOf(d) \in Events /\ pc[d] # "idle"
          BY <3>4, EventInHand DEF BeginProcessing
        <4>3. inbox[EventOf(d)] = "processed"
          BY <4>1, <4>2 DEF TypeOK
        <4>4. position'[d] = position[d]
          BY <3>4 DEF BeginProcessing
        <4> QED BY <2>1, <4>2, <4>3, <4>4, InHandKept
      <3>5. ASSUME commitTransaction(d) PROVE inbox'[EventOf(d)'] = "processed"
        <4>1. EventOf(d)' = EventOf(d) /\ EventOf(d) \in Events
          BY <3>5, EventInHand DEF commitTransaction, EventOf
        <4>2. inbox' = [inbox EXCEPT ![EventOf(d)] = "processed"]
          BY <3>5 DEF commitTransaction, ApplyTransaction, MarkProcessed, ProduceOrderStatusUpdated
        <4> QED BY <4>1, <4>2 DEF TypeOK
      <3>6. ASSUME handleSkippedEvent(d) PROVE inbox'[EventOf(d)'] = "processed"
        <4>1. pc[d] = "skip" /\ position'[d] = position[d]
          BY <3>6 DEF handleSkippedEvent
        <4> QED BY <2>1, <4>1, InHandKept DEF SyncInv
      <3>7. (\E e \in Events : Publish(e)) \/ (\E o \in Orders : SaveOrder(o)) \/ ExpireBlock
              => pc[d] = pc'[d] /\ position'[d] = position[d]
        BY DEF Publish, SaveOrder, ExpireBlock
      <3> QED BY <1>2, <3>1, <3>2, <3>3, <3>4, <3>5, <3>6, <3>7 DEF Next
    <2> QED BY <2>2, <2>3 DEF SyncInv
  <1> QED BY <1>1, <1>2

\* The block state in Redis is always that of an event whose compensation is
\* committed, whatever fails before, during or after the commit.
THEOREM BlockIsCommitted == Spec => []BlockFollowsCommit
  <1>1. Init => SyncInv
    BY DEF Init, SyncInv, BlockFollowsCommit, NoBlock
  <1>2. SyncInv => BlockFollowsCommit
    BY DEF SyncInv
  <1> QED BY <1>1, <1>2, SyncStep, CompensationTypeCorrect, PTL DEF Spec

(***************************************************************************)
(* Every event is applied once and as a whole: the contract.               *)
(***************************************************************************)

\* An order is created, then cancelled, and never goes back: no order becomes
\* active that was not new.
LEMMA OrdersOnward ==
    ASSUME TypeOK, Next
    PROVE  \A o \in Orders : orders[o] # "none" =>
              /\ orders'[o] # "none"
              /\ orders'[o] = "created" => orders[o] = "created"
  <1> USE DEF tableVars, sharedVars
  <1>1. ASSUME NEW c \in Consumers, Step(c) \/ CancelSession(c) \/ HandlerPanics(c) \/ Crash(c)
        PROVE  UNCHANGED orders \/ ApplyTransaction(c)
    BY <1>1 DEF Step, Consume, CancelSession, ConsumeClaim, EndSession, MarkMessage,
         CommitOffset, handleMarketStateChanged, sendToDLQ, sendToDLQFails,
         BeginProcessing, applyCompensationTransaction, CancelActiveOrdersByMarket,
         commitTransaction, handleSkippedEvent, trySynchronizeMarketBlockState,
         FailWithoutRecord, failProcessing, SaveFailed, HandlerPanics, Crash
  <1>2. ASSUME NEW c \in Consumers, ApplyTransaction(c)
        PROVE  \A o \in Orders : orders[o] # "none" =>
                  /\ orders'[o] # "none"
                  /\ orders'[o] = "created" => orders[o] = "created"
    BY <1>2 DEF ApplyTransaction
  <1>3. ASSUME NEW o \in Orders, SaveOrder(o)
        PROVE  orders[o] = "none" /\ orders' = [orders EXCEPT ![o] = "created"]
    BY <1>3 DEF SaveOrder
  <1>4. (\E e \in Events : Publish(e)) \/ ExpireBlock => UNCHANGED orders
    BY DEF Publish, ExpireBlock
  <1> QED BY <1>1, <1>2, <1>3, <1>4 DEF Next, TypeOK

\* What was due when an event was published first does not change afterwards.
LEMMA DueFixed ==
    ASSUME TypeOK, Next
    PROVE  /\ \A e \in Published : due'[e] = due[e]
           /\ \/ due' = due
              \/ \E e \in Events : due' = [due EXCEPT ![e] = {o \in Orders : orders[o] = "created"}]
  <1> USE DEF groupVars
  <1>1. ASSUME NEW c \in Consumers, Step(c) \/ CancelSession(c) \/ HandlerPanics(c) \/ Crash(c)
        PROVE  UNCHANGED due
    BY <1>1 DEF Step, Consume, CancelSession, ConsumeClaim, EndSession, MarkMessage,
         CommitOffset, handleMarketStateChanged, sendToDLQ, sendToDLQFails,
         BeginProcessing, applyCompensationTransaction, CancelActiveOrdersByMarket,
         commitTransaction, handleSkippedEvent, trySynchronizeMarketBlockState,
         FailWithoutRecord, failProcessing, SaveFailed, HandlerPanics, Crash
  <1>2. ASSUME NEW e \in Events, Publish(e)
        PROVE  \/ due' = due
               \/ e \notin Published /\ due' = [due EXCEPT ![e] = {o \in Orders : orders[o] = "created"}]
    BY <1>2, Zenon DEF Publish
  <1>3. (\E o \in Orders : SaveOrder(o)) \/ ExpireBlock => UNCHANGED due
    BY DEF SaveOrder, ExpireBlock
  <1>4. due \in [Events -> SUBSET Orders]
    BY DEF TypeOK
  <1>5. CASE UNCHANGED due
    BY <1>5
  <1>6. ASSUME NEW e \in Events, e \notin Published,
               due' = [due EXCEPT ![e] = {o \in Orders : orders[o] = "created"}]
        PROVE  \A f \in Published : due'[f] = due[f]
    <2> SUFFICES ASSUME NEW f \in Published PROVE due'[f] = due[f]
      OBVIOUS
    <2>1. f \in Events
      BY DEF Published, TypeOK
    <2> QED BY <1>4, <1>6, <2>1
  <1> QED BY <1>1, <1>2, <1>3, <1>5, <1>6 DEF Next

\* The message in hand was published.
LEMMA InHandPublished ==
    ASSUME TypeOK, NEW c \in Consumers, pc[c] # "idle"
    PROVE  EventOf(c) \in Published /\ EventOf(c) \in Events
  <1>1. position[c] \in Nat /\ position[c] < Len(log) /\ log \in Seq(Events)
    BY EventInHand DEF TypeOK
  <1>2. position[c] + 1 \in 1 .. Len(log)
    BY <1>1
  <1> QED BY <1>2, EventInHand DEF EventOf, Published

\* What a published event still has to cancel only shrinks.
LEMMA DueShrinks ==
    ASSUME TypeOK, DueInv, Next, NEW e \in Events, e \in Published
    PROVE  StillDue(e)' \subseteq StillDue(e)
  <1>1. due'[e] = due[e]
    BY DueFixed
  <1>2. due[e] \subseteq Orders
    BY DEF TypeOK
  <1>3. \A o \in due[e] : orders[o] # "none"
    BY DEF DueInv
  <1> QED BY <1>1, <1>2, <1>3, OrdersOnward DEF StillDue

\* The orders that an event closes existed when it was published.
LEMMA DueExists ==
    ASSUME TypeOK, DueInv, Next
    PROVE  \A e \in Events : \A o \in due'[e] : orders'[o] # "none"
  <1>1. \A e \in Events : \A o \in due[e] : orders[o] # "none" /\ o \in Orders
    BY DEF DueInv, TypeOK
  <1>2. CASE due' = due
    BY <1>1, <1>2, OrdersOnward
  <1>3. ASSUME NEW e \in Events, due' = [due EXCEPT ![e] = {o \in Orders : orders[o] = "created"}]
        PROVE  \A f \in Events : \A o \in due'[f] : orders'[o] # "none"
    <2> SUFFICES ASSUME NEW f \in Events, NEW o \in due'[f] PROVE orders'[o] # "none"
      OBVIOUS
    <2>1. o \in Orders /\ orders[o] # "none"
      <3>1. due \in [Events -> SUBSET Orders]
        BY DEF TypeOK
      <3>2. CASE f = e
        BY <1>3, <3>1, <3>2
      <3>3. CASE f # e
        BY <1>1, <1>3, <3>1, <3>3
      <3> QED BY <3>2, <3>3
    <2> QED BY <2>1, OrdersOnward
  <1> QED BY <1>2, <1>3, DueFixed

\* A member outside a transaction holds no rows.
LEMMA TransactionOver ==
    ASSUME NEW d \in Consumers, pc'[d] \notin {"apply", "cancel", "commit"},
           matched'[d] = {}, cancelling'[d] = {}
    PROVE  TransactionInv(d)'
  BY DEF TransactionInv

\* A transaction that goes on where it is, with its row still its own and open.
LEMMA TransactionKept ==
    ASSUME TypeOK, DueInv, Next, NEW d \in Consumers,
           pc'[d] = pc[d], matched'[d] = matched[d], cancelling'[d] = cancelling[d],
           pc[d] = "idle" \/ position'[d] = position[d],
           pc[d] \in {"apply", "cancel", "commit"} =>
               rowLock'[EventOf(d)] = d /\ inbox'[EventOf(d)] # "processed"
    PROVE  TransactionInv(d)'
  <1>1. TransactionInv(d)
    BY DEF DueInv
  <1>2. CASE pc[d] \notin {"apply", "cancel", "commit"}
    BY <1>1, <1>2, TransactionOver DEF TransactionInv
  <1>3. CASE pc[d] \in {"apply", "cancel", "commit"}
    <2>1. EventOf(d)' = EventOf(d)
      <3>1. position'[d] = position[d] /\ position[d] \in Nat /\ position[d] < Len(log)
        BY <1>3, EventInHand
      <3> QED BY <3>1, StepGrows, LogKept DEF EventOf
    <2>2. EventOf(d) \in Events /\ EventOf(d) \in Published
      BY <1>3, InHandPublished
    <2>3. StillDue(EventOf(d))' \subseteq StillDue(EventOf(d))
      <3>1. ASSUME NEW e \in Events, e = EventOf(d), e = EventOf(d)'
            PROVE  StillDue(EventOf(d))' \subseteq StillDue(EventOf(d))
        <4>1. e \in Published
          BY <2>2, <3>1
        <4>2. StillDue(e)' \subseteq StillDue(e)
          BY <4>1, DueShrinks
        <4> QED BY <3>1, <4>2 DEF StillDue
      <3> QED BY <2>1, <2>2, <3>1
    <2> QED BY <1>1, <1>3, <2>1, <2>3 DEF TransactionInv
  <1> QED BY <1>2, <1>3

\* The step of another member leaves the rows of an open transaction alone: it
\* waits for the inbox row, and commits only the row it holds itself.
LEMMA OthersTransaction ==
    ASSUME TypeOK, DueInv, NEW c \in Consumers, NEW d \in Consumers, c # d,
           Step(c) \/ CancelSession(c) \/ HandlerPanics(c) \/ Crash(c)
    PROVE  TransactionInv(d)'
  <1> USE DEF groupVars, tableVars, sharedVars, txVars, memberVars
  <1>1. Next
    BY DEF Next
  <1>2. /\ pc'[d] = pc[d] /\ position'[d] = position[d]
        /\ matched'[d] = matched[d] /\ cancelling'[d] = cancelling[d]
    BY DEF Step, Consume, CancelSession, ConsumeClaim, EndSession, MarkMessage,
         CommitOffset, handleMarketStateChanged, sendToDLQ, sendToDLQFails,
         BeginProcessing, applyCompensationTransaction, CancelActiveOrdersByMarket,
         commitTransaction, handleSkippedEvent, trySynchronizeMarketBlockState,
         FailWithoutRecord, failProcessing, SaveFailed, HandlerPanics, Crash, HandlerFails,
         StopConsumeClaim, Goto, ApplyTransaction, ReleaseRows, TypeOK
  <1>3. ASSUME pc[d] \in {"apply", "cancel", "commit"}
        PROVE  rowLock'[EventOf(d)] = d /\ inbox'[EventOf(d)] # "processed"
    <2>1. EventOf(d) \in Events /\ rowLock[EventOf(d)] = d /\ inbox[EventOf(d)] # "processed"
      BY <1>3, EventInHand DEF DueInv, TransactionInv
    <2>2. None # d
      BY CompensationAssumption
    <2>3. CASE UNCHANGED <<rowLock, inbox>>
      BY <2>1, <2>3
    <2>4. CASE ReleaseRows(c) /\ UNCHANGED inbox
      BY <2>1, <2>4 DEF ReleaseRows
    <2>5. CASE pc[c] = "commit" /\ ApplyTransaction(c)
      <3>1. rowLock[EventOf(c)] = c
        BY <2>5 DEF DueInv, TransactionInv
      <3>2. EventOf(c) # EventOf(d)
        BY <2>1, <3>1
      <3>3. rowLock'[EventOf(d)] = d
        BY <2>1, <2>5 DEF ApplyTransaction, ReleaseRows
      <3>4. inbox' = [inbox EXCEPT ![EventOf(c)] = "processed"]
        BY <2>5 DEF ApplyTransaction, MarkProcessed
      <3> QED BY <2>1, <3>2, <3>3, <3>4 DEF TypeOK
    <2>6. CASE BeginProcessing(c)
      <3>1. rowLock[EventOf(c)] = None /\ UNCHANGED inbox
        BY <2>6 DEF BeginProcessing
      <3>2. \/ rowLock' = [rowLock EXCEPT ![EventOf(c)] = c]
            \/ rowLock' = rowLock
        BY <2>6, Zenon DEF BeginProcessing
      <3>3. EventOf(c) # EventOf(d)
        BY <2>1, <2>2, <3>1
      <3> QED BY <2>1, <3>1, <3>2, <3>3 DEF TypeOK
    <2>7. CASE SaveFailed(c)
      <3>1. UNCHANGED rowLock
        BY <2>7 DEF SaveFailed
      <3>2. inbox' = [inbox EXCEPT ![EventOf(c)] = "failed"] \/ inbox' = inbox
        BY <2>7, Zenon DEF SaveFailed
      <3> QED BY <2>1, <3>1, <3>2 DEF TypeOK
    <2> QED BY <2>3, <2>4, <2>5, <2>6, <2>7
         DEF Step, Consume, CancelSession, ConsumeClaim, EndSession, MarkMessage,
         CommitOffset, handleMarketStateChanged, sendToDLQ, sendToDLQFails,
         applyCompensationTransaction, CancelActiveOrdersByMarket,
         commitTransaction, handleSkippedEvent, trySynchronizeMarketBlockState,
         FailWithoutRecord, failProcessing, HandlerPanics, Crash
  <1> QED BY <1>1, <1>2, <1>3, TransactionKept

\* After a failed attempt the member is outside the transaction.
LEMMA FailsOutside ==
    ASSUME TypeOK, NEW d \in Consumers, HandlerFails(d)
    PROVE  pc'[d] \notin {"apply", "cancel", "commit"}
  BY DEF HandlerFails, StopConsumeClaim, Exhausted, Goto, TypeOK

\* A member's own step: the UPDATE finds every order that is due, cancels those
\* that are still active, and the row is held until the transaction ends.
LEMMA OwnTransaction ==
    ASSUME TypeOK, DueInv, NEW d \in Consumers,
           Step(d) \/ CancelSession(d) \/ HandlerPanics(d) \/ Crash(d)
    PROVE  TransactionInv(d)'
  <1> USE DEF groupVars, tableVars, sharedVars, txVars, memberVars
  <1>1. Next /\ TransactionInv(d)
    BY DEF Next, DueInv
  <1>2. ASSUME ReleaseRows(d), pc'[d] \notin {"apply", "cancel", "commit"} PROVE TransactionInv(d)'
    <2>1. matched'[d] = {} /\ cancelling'[d] = {}
      BY <1>2 DEF ReleaseRows, TypeOK
    <2> QED BY <1>2, <2>1, TransactionOver
  <1>3. ASSUME UNCHANGED txVars, pc[d] \notin {"cancel", "commit"},
               pc'[d] \notin {"apply", "cancel", "commit"}
        PROVE  TransactionInv(d)'
    BY <1>1, <1>3, TransactionOver DEF TransactionInv
  <1>4. CASE CancelSession(d) \/ CommitOffset(d)
    <2>1. UNCHANGED <<pc, position, txVars, rowLock, inbox>>
      BY <1>4 DEF CancelSession, CommitOffset
    <2> QED BY <1>1, <2>1, TransactionKept DEF TransactionInv
  <1>5. CASE Consume(d)
    <2>1. pc[d] = "idle" /\ UNCHANGED <<pc, txVars>>
      BY <1>5 DEF Consume, TypeOK
    <2> QED BY <1>3, <2>1
  <1>6. CASE \/ ConsumeClaim(d) \/ EndSession(d) \/ MarkMessage(d) \/ handleMarketStateChanged(d)
             \/ sendToDLQ(d) \/ sendToDLQFails(d) \/ handleSkippedEvent(d)
             \/ trySynchronizeMarketBlockState(d)
    <2>1. UNCHANGED txVars
      BY <1>6 DEF ConsumeClaim, EndSession, MarkMessage, handleMarketStateChanged, sendToDLQ,
           sendToDLQFails, handleSkippedEvent, trySynchronizeMarketBlockState
    <2>2. pc[d] \notin {"cancel", "commit"} /\ pc'[d] \notin {"apply", "cancel", "commit"}
      BY <1>6 DEF ConsumeClaim, EndSession, MarkMessage, handleMarketStateChanged, sendToDLQ,
           sendToDLQFails, handleSkippedEvent, trySynchronizeMarketBlockState,
           StopConsumeClaim, Goto, TypeOK
    <2> QED BY <1>3, <2>1, <2>2
  <1>7. CASE BeginProcessing(d)
    <2>1. /\ pc[d] = "begin" /\ UNCHANGED <<log, position, inbox, matched, cancelling>>
          /\ matched[d] = {} /\ cancelling[d] = {}
      BY <1>1, <1>7 DEF BeginProcessing, TransactionInv
    <2>2. CASE Goto(d, "skip")
      BY <1>3, <2>1, <2>2 DEF Goto, TypeOK
    <2>3. CASE /\ inbox[EventOf(d)] \in {"none", "failed"}
               /\ rowLock' = [rowLock EXCEPT ![EventOf(d)] = d]
               /\ Goto(d, "apply")
      <3>1. EventOf(d) \in Events /\ EventOf(d)' = EventOf(d)
        BY <2>1, EventInHand DEF EventOf
      <3>2. rowLock'[EventOf(d)] = d /\ inbox'[EventOf(d)] # "processed" /\ pc'[d] = "apply"
        BY <2>1, <2>3, <3>1 DEF TypeOK, Goto
      <3> QED BY <2>1, <3>1, <3>2 DEF TransactionInv
    <2> QED BY <1>7, <2>2, <2>3 DEF BeginProcessing
  <1>8. CASE applyCompensationTransaction(d)
    <2>1. /\ pc[d] = "apply" /\ cancelling[d] = {} /\ matched[d] = {}
          /\ rowLock[EventOf(d)] = d /\ inbox[EventOf(d)] # "processed"
          /\ UNCHANGED <<log, due, position, inbox, rowLock, orders, cancelling>>
      BY <1>1, <1>8 DEF applyCompensationTransaction, TransactionInv
    <2>2. EventOf(d) \in Events /\ EventOf(d)' = EventOf(d)
      BY <2>1, EventInHand DEF EventOf
    <2>3. CASE /\ EventOf(d) \in Unavailable
               /\ matched' = [matched EXCEPT ![d] = {o \in Orders : orders[o] = "created"}]
               /\ Goto(d, "cancel")
      <3>1. StillDue(EventOf(d))' = StillDue(EventOf(d))
        BY <2>1, <2>2 DEF StillDue
      <3>2. matched'[d] = {o \in Orders : orders[o] = "created"} /\ pc'[d] = "cancel"
        BY <2>3 DEF Goto, TypeOK
      <3>3. StillDue(EventOf(d)) \subseteq {o \in Orders : orders[o] = "created"}
        BY <2>2 DEF StillDue, TypeOK
      <3> QED BY <2>1, <2>2, <2>3, <3>1, <3>2, <3>3 DEF TransactionInv
    <2>4. CASE EventOf(d) \notin Unavailable /\ Goto(d, "commit")
      <3>1. pc'[d] = "commit"
        BY <2>4 DEF Goto, TypeOK
      <3> QED BY <2>1, <2>2, <2>4, <3>1 DEF TransactionInv
    <2> QED BY <1>8, <2>3, <2>4 DEF applyCompensationTransaction
  <1>9. CASE CancelActiveOrdersByMarket(d)
    <2>1. /\ pc[d] = "cancel" /\ EventOf(d) \in Unavailable
          /\ StillDue(EventOf(d)) \subseteq matched[d]
          /\ rowLock[EventOf(d)] = d /\ inbox[EventOf(d)] # "processed"
          /\ UNCHANGED <<log, due, position, inbox, rowLock, orders, matched>>
      BY <1>1, <1>9 DEF CancelActiveOrdersByMarket, TransactionInv
    <2>2. EventOf(d)' = EventOf(d)
      BY <2>1 DEF EventOf
    <2>3. StillDue(EventOf(d))' = StillDue(EventOf(d))
      BY <2>1, <2>2 DEF StillDue
    <2>4. pc'[d] = "commit" /\ cancelling'[d] = {o \in matched[d] : orders[o] = "created"}
      BY <1>9 DEF CancelActiveOrdersByMarket, StillActive, Goto, TypeOK
    <2>5. StillDue(EventOf(d)) \subseteq cancelling'[d]
      BY <2>1, <2>4 DEF StillDue
    <2> QED BY <2>1, <2>2, <2>3, <2>4, <2>5 DEF TransactionInv
  <1>10. CASE commitTransaction(d) \/ failProcessing(d) \/ HandlerPanics(d) \/ Crash(d)
    <2>1. ReleaseRows(d)
      BY <1>10 DEF commitTransaction, ApplyTransaction, failProcessing, HandlerPanics, Crash
    <2>2. pc'[d] \notin {"apply", "cancel", "commit"}
      BY <1>10 DEF commitTransaction, failProcessing, HandlerPanics, Crash, Goto, TypeOK
    <2> QED BY <1>2, <2>1, <2>2
  <1>11. CASE FailWithoutRecord(d)
    <2>1. ReleaseRows(d) /\ HandlerFails(d)
      BY <1>11 DEF FailWithoutRecord, ApplyTransaction
    <2> QED BY <1>2, <2>1, FailsOutside
  <1>12. CASE SaveFailed(d)
    <2>1. pc[d] = "saveFailed" /\ HandlerFails(d) /\ UNCHANGED txVars
      BY <1>12 DEF SaveFailed
    <2> QED BY <1>3, <2>1, FailsOutside
  <1> QED BY <1>4, <1>5, <1>6, <1>7, <1>8, <1>9, <1>10, <1>11, <1>12 DEF Step

\* One step keeps what open transactions are about to apply.
LEMMA DueStep == TypeOK /\ DueInv /\ [Next]_vars => DueInv'
  <1> SUFFICES ASSUME TypeOK, DueInv, [Next]_vars PROVE DueInv'
    OBVIOUS
  <1>1. CASE Next
    <2>1. \A e \in Events : \A o \in due'[e] : orders'[o] # "none"
      BY <1>1, DueExists
    <2>2. ASSUME NEW d \in Consumers PROVE TransactionInv(d)'
      <3>1. ASSUME NEW c \in Consumers, Step(c) \/ CancelSession(c) \/ HandlerPanics(c) \/ Crash(c)
            PROVE  TransactionInv(d)'
        BY <3>1, OthersTransaction, OwnTransaction
      <3>2. CASE (\E e \in Events : Publish(e)) \/ (\E o \in Orders : SaveOrder(o)) \/ ExpireBlock
        <4>1. UNCHANGED <<pc, position, matched, cancelling, rowLock, inbox>>
          BY <3>2 DEF Publish, SaveOrder, ExpireBlock, tableVars, sharedVars, txVars, memberVars
        <4> QED BY <1>1, <4>1, TransactionKept DEF DueInv, TransactionInv
      <3> QED BY <1>1, <3>1, <3>2 DEF Next
    <2> QED BY <2>1, <2>2 DEF DueInv
  <1>2. CASE UNCHANGED vars
    BY <1>2 DEF vars, groupVars, tableVars, sharedVars, txVars, memberVars, DueInv, TransactionInv,
        EventOf, StillDue
  <1> QED BY <1>1, <1>2

\* COMMIT of a transaction is the one step that applies an event: it cancels the
\* orders that were due, announces them, and the event was not applied before.
LEMMA CommitApplies ==
    ASSUME TypeOK, RowsInv, DueInv, NEW c \in Consumers, pc[c] = "commit",
           ApplyTransaction(c), UNCHANGED <<log, due>>, NEW e \in Events, e = EventOf(c)
    PROVE  Contract!Apply(e)
  <1> DEFINE S == cancelling[c]
             Applied == {f \in Events : inbox[f] = "processed"}
  <1>1. e \in Published /\ e \in Events /\ inbox[e] # "processed"
    BY InHandPublished DEF DueInv, TransactionInv
  <1>2. Published' = Published
    BY DEF Published
  <1>3. Applied' = Applied \cup {e}
    <2>1. inbox' = [inbox EXCEPT ![e] = "processed"]
      BY DEF ApplyTransaction, MarkProcessed
    <2> QED BY <1>1, <2>1 DEF TypeOK
  <1>4. S \in SUBSET Contract!Active
    <2>1. S \subseteq Orders
      BY DEF TypeOK
    <2>2. \A o \in S : orders[o] = "created"
      BY DEF RowsInv
    <2> QED BY <2>1, <2>2 DEF Contract!Active
  <1>5. IF e \in Unavailable THEN due[e] \cap Contract!Active \subseteq S ELSE S = {}
    <2>1. CASE e \in Unavailable
      <3>1. StillDue(e) \subseteq S
        BY <2>1 DEF DueInv, TransactionInv
      <3> QED BY <2>1, <3>1 DEF StillDue, Contract!Active
    <2>2. CASE e \notin Unavailable
      BY <2>2 DEF DueInv, TransactionInv
    <2> QED BY <2>1, <2>2
  <1>6. Contract!Cancel(S)
    BY DEF Contract!Cancel, ApplyTransaction, ProduceOrderStatusUpdated
  <1> HIDE DEF S
  <1> QED BY <1>1, <1>2, <1>3, <1>4, <1>5, <1>6 DEF Contract!Apply

\* The first publication of an event is where the contract starts for it; a
\* repeated one changes nothing.
LEMMA PublishAnnounces ==
    ASSUME TypeOK, NEW e \in Events, Publish(e)
    PROVE  Contract!Announce(e) \/ UNCHANGED (Contract!contractVars)
  <1>1. log' = Append(log, e) /\ log \in Seq(Events) /\ UNCHANGED <<orders, notices, inbox>>
    BY DEF Publish, TypeOK, sharedVars, tableVars
  <1>2. Published' = Published \cup {e}
    <2>1. Len(log') = Len(log) + 1 /\ Len(log) \in Nat
      BY <1>1
    <2>2. \A i \in 1 .. Len(log) : log'[i] = log[i]
      BY <1>1
    <2>3. log'[Len(log) + 1] = e
      BY <1>1
    <2>4. 1 .. Len(log') = (1 .. Len(log)) \cup {Len(log) + 1}
      BY <2>1
    <2> QED BY <2>2, <2>3, <2>4 DEF Published
  <1>3. CASE e \in Published
    <2>1. due' = due /\ Published' = Published
      BY <1>2, <1>3 DEF Publish
    <2> QED BY <1>1, <2>1 DEF Contract!contractVars
  <1>4. CASE e \notin Published
    <2>1. due' = [due EXCEPT ![e] = Contract!Active]
      BY <1>4 DEF Publish, Contract!Active
    <2> QED BY <1>1, <1>2, <1>4, <2>1 DEF Contract!Announce
  <1> QED BY <1>3, <1>4

\* One step of the members and their environment is a step of the contract, or
\* none that it can see.
LEMMA ContractStep ==
    TypeOK /\ RowsInv /\ DueInv /\ [Next]_vars => [Contract!ContractNext]_(Contract!contractVars)
  <1> SUFFICES ASSUME TypeOK, RowsInv, DueInv, [Next]_vars
               PROVE  [Contract!ContractNext]_(Contract!contractVars)
    OBVIOUS
  <1> USE DEF groupVars, tableVars, sharedVars
  <1> DEFINE Unseen == UNCHANGED <<orders, notices, log, due, inbox>>
  <1>1. ASSUME Unseen PROVE UNCHANGED (Contract!contractVars)
    BY <1>1 DEF Contract!contractVars, Published
  <1>2. ASSUME NEW c \in Consumers, Step(c) \/ CancelSession(c) \/ HandlerPanics(c) \/ Crash(c)
        PROVE  \/ Unseen
               \/ pc[c] = "commit" /\ ApplyTransaction(c) /\ UNCHANGED <<log, due>>
               \/ SaveFailed(c)
    BY <1>2 DEF Step, Consume, CancelSession, ConsumeClaim, EndSession, MarkMessage,
         CommitOffset, handleMarketStateChanged, sendToDLQ, sendToDLQFails,
         BeginProcessing, applyCompensationTransaction, CancelActiveOrdersByMarket,
         commitTransaction, handleSkippedEvent, trySynchronizeMarketBlockState,
         FailWithoutRecord, failProcessing, HandlerPanics, Crash
  <1>3. ASSUME NEW c \in Consumers, SaveFailed(c) PROVE UNCHANGED (Contract!contractVars)
    <2>1. UNCHANGED <<orders, notices, log, due>>
      BY <1>3 DEF SaveFailed
    <2>2. \/ inbox' = inbox
          \/ inbox[EventOf(c)] # "processed" /\ inbox' = [inbox EXCEPT ![EventOf(c)] = "failed"]
      BY <1>3, Zenon DEF SaveFailed, MayFail
    <2>3. {e \in Events : inbox'[e] = "processed"} = {e \in Events : inbox[e] = "processed"}
      BY <2>2 DEF TypeOK
    <2>4. Published' = Published
      BY <2>1 DEF Published
    <2> QED BY <2>1, <2>3, <2>4 DEF Contract!contractVars
  <1>4. ASSUME NEW c \in Consumers, pc[c] = "commit", ApplyTransaction(c), UNCHANGED <<log, due>>
        PROVE  Contract!ContractNext
    <2>1. EventOf(c) \in Events
      BY <1>4, EventInHand
    <2>2. PICK e \in Events : e = EventOf(c)
      BY <2>1
    <2>3. Contract!Apply(e)
      BY <1>4, <2>2, CommitApplies
    <2> QED BY <2>3 DEF Contract!ContractNext
  <1>5. ASSUME NEW e \in Events, Publish(e)
        PROVE  Contract!ContractNext \/ UNCHANGED (Contract!contractVars)
    BY <1>5, PublishAnnounces DEF Contract!ContractNext
  <1>6. ASSUME NEW o \in Orders, SaveOrder(o) PROVE Contract!ContractNext
    <2>1. Contract!Save(o)
      BY <1>6 DEF SaveOrder, Contract!Save, Published
    <2> QED BY <2>1 DEF Contract!ContractNext
  <1>7. CASE ExpireBlock
    BY <1>7, <1>1 DEF ExpireBlock
  <1>8. CASE UNCHANGED vars
    BY <1>8, <1>1 DEF vars
  <1> HIDE DEF Unseen
  <1> QED BY <1>1, <1>2, <1>3, <1>4, <1>5, <1>6, <1>7, <1>8 DEF Next

\* ProcessMarketStateChanged keeps its contract, for any number of members,
\* events and orders: an event is applied once and as a whole, and one that
\* closes the market leaves no order active that was active when it was published.
THEOREM CompensationKeepsContract == Spec => KeepsContract
  <1>1. Init => Contract!ContractInit
    BY DEF Init, Contract!ContractInit, Published
  <1>2. Init => RowsInv /\ DueInv
    BY DEF Init, RowsInv, CancelNotifiedOnce, DueInv, TransactionInv
  <1> QED BY <1>1, <1>2, ContractStep, RowsStep, DueStep, CompensationTypeCorrect, PTL
          DEF Spec, KeepsContract, Contract!ContractSpec

(***************************************************************************)
(* No message is lost while the dead letter topic is enabled.              *)
(***************************************************************************)

\* A member whose marks and position stay where they are: what remains to be
\* shown is that it is not past its marks where that matters.
LEMMA MemberStays ==
    ASSUME TypeOK, Grows, NEW c \in Consumers, MemberInv(c),
           marked'[c] = marked[c], position'[c] = position[c],
           session'[c] = "open" => session[c] = "open",
           pc'[c] \in {"apply", "cancel", "commit", "sync", "skip", "mark"} => AtMark(c),
           pc'[c] = "mark" => Settled(position[c])'
    PROVE  MemberInv(c)'
  <1>1. position[c] \in Nat /\ marked[c] \in Nat
    BY DEF TypeOK
  <1>2. \A p \in 0 .. marked[c] - 1 : Settled(p)'
    BY <1>1, SettledKept, LogLonger DEF MemberInv
  <1>3. position[c] <= Len(log')
    BY <1>1, LogLonger DEF MemberInv
  <1> QED BY <1>1, <1>2, <1>3 DEF MemberInv, AtMark

\* A member that is interrupted leaves its message without a mark.
LEMMA MemberStops ==
    ASSUME TypeOK, Grows, NEW c \in Consumers, MemberInv(c), pc[c] # "idle",
           StopConsumeClaim(c), UNCHANGED <<marked, session>>
    PROVE  MemberInv(c)'
  <1>1. position[c] \in Nat /\ marked[c] \in Nat /\ position[c] < Len(log)
    BY DEF TypeOK
  <1>2. \A p \in 0 .. marked[c] - 1 : Settled(p)'
    BY <1>1, SettledKept, LogLonger DEF MemberInv
  <1>3. position'[c] = position[c] + 1 /\ pc'[c] = "idle" /\ session'[c] = "ending"
    BY DEF StopConsumeClaim, Goto, TypeOK
  <1>4. position'[c] <= Len(log') /\ marked'[c] = marked[c]
    BY <1>1, <1>3, LogLonger
  <1> QED BY <1>1, <1>2, <1>3, <1>4 DEF MemberInv, AtMark

\* A failed attempt: again, stopped, or to the dead letter topic.
LEMMA MemberFails ==
    ASSUME TypeOK, Grows, DLQEnabled, NEW c \in Consumers, MemberInv(c), pc[c] # "idle",
           HandlerFails(c), UNCHANGED <<marked, session>>
    PROVE  MemberInv(c)'
  <1>1. CASE Goto(c, "begin") /\ UNCHANGED position
    <2>1. pc'[c] = "begin" /\ position'[c] = position[c]
      BY <1>1 DEF Goto, TypeOK
    <2> QED BY <2>1, MemberStays
  <1>2. CASE StopConsumeClaim(c)
    BY <1>2, MemberStops
  <1>3. CASE Goto(c, Exhausted(c)) /\ UNCHANGED position
    <2>1. pc'[c] = "dlq" /\ position'[c] = position[c]
      BY <1>3 DEF Goto, Exhausted, TypeOK
    <2> QED BY <2>1, MemberStays
  <1> QED BY <1>1, <1>2, <1>3 DEF HandlerFails

\* Every step of a member keeps its own invariant.
LEMMA MemberStep ==
    ASSUME TypeOK, SyncInv, DeliveryInv, DLQEnabled, Grows, NEW c \in Consumers,
           Step(c) \/ CancelSession(c) \/ HandlerPanics(c) \/ Crash(c)
    PROVE  MemberInv(c)'
  <1> USE DEF groupVars, tableVars, sharedVars, txVars, memberVars, Goto
  <1>0. MemberInv(c)
    BY DEF DeliveryInv
  <1>1. CASE Consume(c)
    <2>1. /\ pc'[c] = "idle" /\ session'[c] = "open" /\ position'[c] = offset
          /\ marked'[c] = offset /\ log' = log /\ inbox' = inbox /\ dlq' = dlq
      BY <1>1 DEF Consume, TypeOK
    <2>2. \A p \in 0 .. offset - 1 : Settled(p)'
      BY <2>1 DEF DeliveryInv, NothingLost, Settled
    <2>3. offset \in Nat /\ offset <= Len(log)
      BY DEF TypeOK, DeliveryInv
    <2> QED BY <2>1, <2>2, <2>3 DEF MemberInv, AtMark
  <1>2. CASE CancelSession(c)
    <2>1. /\ session'[c] = "ending" /\ pc' = pc /\ marked' = marked /\ position' = position
          /\ UNCHANGED <<log, inbox, dlq>>
      BY <1>2 DEF CancelSession, TypeOK
    <2>2. pc'[c] = "mark" => Settled(position[c])'
      BY <1>0, <2>1 DEF MemberInv, Settled
    <2> QED BY <1>0, <2>1, <2>2, MemberStays DEF MemberInv
  <1>3. CASE ConsumeClaim(c)
    BY <1>0, <1>3, MemberStays DEF ConsumeClaim, TypeOK
  <1>4. CASE EndSession(c)
    BY <1>0, <1>4, MemberStays DEF EndSession, TypeOK
  <1>5. CASE MarkMessage(c)
    <2>1. /\ pc'[c] = "idle" /\ position'[c] = position[c] + 1 /\ marked'[c] = position[c] + 1
          /\ UNCHANGED <<log, inbox, dlq, session>>
      BY <1>5 DEF MarkMessage, TypeOK
    <2>2. /\ pc[c] = "mark" /\ position[c] \in Nat /\ marked[c] \in Nat
          /\ position[c] < Len(log) /\ Len(log) \in Nat
      BY <1>5 DEF MarkMessage, TypeOK
    <2>3. position[c] = marked[c] /\ Settled(position[c])
      BY <1>0, <2>2 DEF MemberInv, AtMark
    <2>4. \A p \in 0 .. position[c] : Settled(p)
      BY <1>0, <2>2, <2>3 DEF MemberInv
    <2>5. \A p \in 0 .. marked'[c] - 1 : Settled(p)'
      BY <2>1, <2>2, <2>4 DEF Settled
    <2> QED BY <2>1, <2>2, <2>5 DEF MemberInv, AtMark
  <1>6. CASE CommitOffset(c)
    <2>1. /\ pc' = pc /\ session' = session /\ marked' = marked /\ position' = position
          /\ UNCHANGED <<log, inbox, dlq>>
      BY <1>6 DEF CommitOffset
    <2>2. pc'[c] = "mark" => Settled(position[c])'
      BY <1>0, <2>1 DEF MemberInv, Settled
    <2> QED BY <1>0, <2>1, <2>2, MemberStays DEF MemberInv
  <1>7. CASE handleMarketStateChanged(c)
    <2>1. pc'[c] = "dlq"
      BY <1>7 DEF handleMarketStateChanged, TypeOK
    <2> QED BY <1>0, <1>7, <2>1, MemberStays DEF handleMarketStateChanged
  <1>8. CASE sendToDLQ(c)
    <2>1. pc'[c] = "mark" /\ session[c] = "open" /\ UNCHANGED <<session, marked, position>>
      BY <1>8 DEF sendToDLQ, TypeOK
    <2>2. Settled(position[c])'
      BY <1>8, <2>1 DEF sendToDLQ, Settled
    <2> QED BY <1>0, <2>1, <2>2, MemberStays DEF MemberInv
  <1>9. CASE sendToDLQFails(c)
    <2>1. pc[c] # "idle" /\ UNCHANGED <<session, marked>>
      BY <1>9 DEF sendToDLQFails
    <2>2. CASE StopConsumeClaim(c)
      BY <1>0, <2>1, <2>2, MemberStops
    <2>3. CASE pc' = [pc EXCEPT ![c] = "error"] /\ UNCHANGED position
      BY <1>0, <2>1, <2>3, MemberStays DEF TypeOK
    <2> QED BY <1>9, <2>2, <2>3 DEF sendToDLQFails
  <1>10. CASE BeginProcessing(c)
    <2>1. pc'[c] \in {"apply", "skip"} /\ session[c] = "open" /\ UNCHANGED <<session, marked, position>>
      BY <1>10 DEF BeginProcessing, TypeOK
    <2> QED BY <1>0, <2>1, MemberStays DEF MemberInv
  <1>11. CASE applyCompensationTransaction(c)
    <2>1. pc'[c] \in {"cancel", "commit"} /\ pc[c] = "apply" /\ UNCHANGED <<session, marked, position>>
      BY <1>11 DEF applyCompensationTransaction, TypeOK
    <2> QED BY <1>0, <2>1, MemberStays DEF MemberInv
  <1>12. CASE CancelActiveOrdersByMarket(c)
    <2>1. pc'[c] = "commit" /\ pc[c] = "cancel" /\ UNCHANGED <<session, marked, position>>
      BY <1>12 DEF CancelActiveOrdersByMarket, TypeOK
    <2> QED BY <1>0, <2>1, MemberStays DEF MemberInv
  <1>13. CASE commitTransaction(c)
    <2>1. pc'[c] = "sync" /\ pc[c] = "commit" /\ UNCHANGED <<session, marked, position>>
      BY <1>13 DEF commitTransaction, TypeOK
    <2> QED BY <1>0, <2>1, MemberStays DEF MemberInv
  <1>14. CASE handleSkippedEvent(c)
    <2>1. pc'[c] = "sync" /\ pc[c] = "skip" /\ UNCHANGED <<session, marked, position>>
      BY <1>14 DEF handleSkippedEvent, TypeOK
    <2> QED BY <1>0, <2>1, MemberStays DEF MemberInv
  <1>15. CASE trySynchronizeMarketBlockState(c)
    <2>1. /\ pc'[c] = "mark" /\ pc[c] = "sync" /\ UNCHANGED <<session, marked, position>>
          /\ UNCHANGED <<log, inbox>>
      BY <1>15 DEF trySynchronizeMarketBlockState, TypeOK
    <2>2. inbox[EventOf(c)] = "processed"
      BY <2>1 DEF SyncInv
    <2>3. Settled(position[c])'
      BY <2>1, <2>2 DEF Settled, EventOf
    <2> QED BY <1>0, <2>1, <2>3, MemberStays DEF MemberInv
  <1>16. CASE FailWithoutRecord(c)
    <2>1. pc[c] # "idle" /\ HandlerFails(c) /\ UNCHANGED <<session, marked>>
      BY <1>16 DEF FailWithoutRecord
    <2> QED BY <1>0, <2>1, MemberFails
  <1>17. CASE failProcessing(c)
    <2>1. pc'[c] = "saveFailed" /\ UNCHANGED <<session, marked, position>>
      BY <1>17 DEF failProcessing, TypeOK
    <2> QED BY <1>0, <2>1, MemberStays
  <1>18. CASE SaveFailed(c)
    <2>1. pc[c] # "idle" /\ HandlerFails(c) /\ UNCHANGED <<session, marked>>
      BY <1>18 DEF SaveFailed
    <2> QED BY <1>0, <2>1, MemberFails
  <1>19. CASE HandlerPanics(c)
    <2>1. pc'[c] = "error" /\ UNCHANGED <<session, marked, position>>
      BY <1>19 DEF HandlerPanics, TypeOK
    <2> QED BY <1>0, <2>1, MemberStays
  <1>20. CASE Crash(c)
    <2>1. pc'[c] = "idle" /\ session'[c] = "none" /\ UNCHANGED <<marked, position>>
      BY <1>20 DEF Crash, TypeOK
    <2> QED BY <1>0, <2>1, MemberStays
  <1> QED BY <1>1, <1>2, <1>3, <1>4, <1>5, <1>6, <1>7, <1>8, <1>9, <1>10, <1>11, <1>12, <1>13,
             <1>14, <1>15, <1>16, <1>17, <1>18, <1>19, <1>20 DEF Step

\* A step of anybody else.
LEMMA OtherMember ==
    ASSUME TypeOK, Grows, NEW d \in Consumers, MemberInv(d),
           pc'[d] = pc[d], session'[d] = session[d],
           marked'[d] = marked[d], position'[d] = position[d]
    PROVE  MemberInv(d)'
  <1>1. pc[d] = "mark" => Settled(position[d])'
    <2>1. pc[d] = "mark" => position[d] \in Nat /\ position[d] < Len(log)
      BY DEF TypeOK
    <2> QED BY <2>1, SettledKept DEF MemberInv
  <1> QED BY <1>1, MemberStays DEF MemberInv

\* One step keeps every member and offset behind what was dealt with.
LEMMA DeliveryStep ==
    ASSUME TypeOK, SyncInv, DeliveryInv, DLQEnabled, Next
    PROVE  DeliveryInv'
  <1> USE DEF groupVars, tableVars, sharedVars, txVars, memberVars
  <1>1. Grows
    BY StepGrows
  <1>2. \A d \in Consumers : MemberInv(d)'
    <2> SUFFICES ASSUME NEW d \in Consumers PROVE MemberInv(d)'
      OBVIOUS
    <2>0. MemberInv(d)
      BY DEF DeliveryInv
    <2>1. ASSUME NEW c \in Consumers, Step(c) \/ CancelSession(c) \/ HandlerPanics(c) \/ Crash(c)
          PROVE  MemberInv(d)'
      <3>1. CASE c = d
        BY <1>1, <2>1, <3>1, MemberStep
      <3>2. CASE c # d
        <4>1. /\ pc'[d] = pc[d] /\ session'[d] = session[d]
              /\ marked'[d] = marked[d] /\ position'[d] = position[d]
          BY <2>1, <3>2, SMTT(30) DEF Step, Consume, CancelSession, ConsumeClaim, EndSession, MarkMessage,
         CommitOffset, handleMarketStateChanged, sendToDLQ, sendToDLQFails,
         BeginProcessing, applyCompensationTransaction, CancelActiveOrdersByMarket,
         commitTransaction, handleSkippedEvent, trySynchronizeMarketBlockState,
         FailWithoutRecord, failProcessing, SaveFailed, HandlerPanics, Crash,
             HandlerFails, StopConsumeClaim, Goto, TypeOK
        <4> QED BY <1>1, <2>0, <4>1, OtherMember
      <3> QED BY <3>1, <3>2
    <2>2. (\E e \in Events : Publish(e)) \/ (\E o \in Orders : SaveOrder(o)) \/ ExpireBlock
             => UNCHANGED <<pc, session, marked, position>>
      BY DEF Publish, SaveOrder, ExpireBlock
    <2> QED BY <1>1, <2>0, <2>1, <2>2, OtherMember DEF Next
  <1>3. offset' = offset \/ \E c \in Consumers : offset' = marked[c]
    <2>1. ASSUME NEW c \in Consumers, Step(c) \/ CancelSession(c) \/ HandlerPanics(c) \/ Crash(c)
          PROVE  offset' = offset \/ offset' = marked[c]
      BY <2>1 DEF Step, Consume, CancelSession, ConsumeClaim, EndSession, MarkMessage,
         CommitOffset, handleMarketStateChanged, sendToDLQ, sendToDLQFails,
         BeginProcessing, applyCompensationTransaction, CancelActiveOrdersByMarket,
         commitTransaction, handleSkippedEvent, trySynchronizeMarketBlockState,
         FailWithoutRecord, failProcessing, SaveFailed, HandlerPanics, Crash
    <2> QED BY <2>1 DEF Next, Publish, SaveOrder, ExpireBlock
  <1>4. PICK n \in Nat : n = offset'
    BY <1>3 DEF TypeOK
  <1>5. n <= Len(log) /\ \A p \in 0 .. n - 1 : Settled(p)
    <2>1. CASE n = offset
      BY <2>1 DEF DeliveryInv, NothingLost
    <2>2. ASSUME NEW c \in Consumers, n = marked[c]
          PROVE  n <= Len(log) /\ \A p \in 0 .. n - 1 : Settled(p)
      <3>1. MemberInv(c) /\ marked[c] \in Nat /\ position[c] \in Nat /\ Len(log) \in Nat
        BY DEF DeliveryInv, TypeOK
      <3> QED BY <2>2, <3>1 DEF MemberInv
    <2> QED BY <1>3, <1>4, <2>1, <2>2
  <1>6. n <= Len(log') /\ \A p \in 0 .. n - 1 : Settled(p)'
    <2>1. Len(log) \in Nat /\ Len(log') \in Nat /\ Len(log) <= Len(log')
      BY <1>1, LogLonger
    <2>2. \A p \in 0 .. n - 1 : p \in Nat /\ p < Len(log) /\ Settled(p)
      BY <1>5, <2>1
    <2>3. \A p \in 0 .. n - 1 : Settled(p)'
      BY <1>1, <2>2, SettledKept
    <2> QED BY <1>5, <2>1, <2>3
  <1> QED BY <1>2, <1>4, <1>6 DEF DeliveryInv, NothingLost

\* While the dead letter topic is enabled the group never commits an offset
\* past a message that was neither processed nor dead-lettered, whatever
\* fails, panics, crashes, or loses the partition, and however often.
THEOREM NoMessageLost ==
    ASSUME DLQEnabled
    PROVE  Spec => []NothingLost
  <1>1. Init => SyncInv /\ DeliveryInv
    <2> SUFFICES ASSUME Init PROVE SyncInv /\ DeliveryInv
      OBVIOUS
    <2>1. SyncInv
      BY DEF Init, SyncInv, BlockFollowsCommit, NoBlock
    <2>2. /\ offset = 0 /\ log = << >> /\ Len(log) = 0
          /\ \A c \in Consumers : pc[c] = "idle" /\ session[c] = "none" /\ position[c] = 0
                                  /\ marked[c] = 0
      BY DEF Init
    <2>3. DeliveryInv
      BY <2>2 DEF DeliveryInv, NothingLost, MemberInv, AtMark
    <2> QED BY <2>1, <2>3
  <1>2. TypeOK /\ SyncInv /\ DeliveryInv /\ [Next]_vars => DeliveryInv'
    <2> SUFFICES ASSUME TypeOK, SyncInv, DeliveryInv, [Next]_vars PROVE DeliveryInv'
      OBVIOUS
    <2>1. CASE UNCHANGED vars
      <3>1. UNCHANGED <<log, offset, inbox, dlq, pc, session, position, marked>>
        BY <2>1 DEF vars, groupVars, tableVars, sharedVars, memberVars
      <3>2. \A p \in Nat : Settled(p)' <=> Settled(p)
        BY <3>1 DEF Settled
      <3>3. NothingLost'
        BY <3>1, <3>2 DEF NothingLost, DeliveryInv, TypeOK
      <3>4. \A c \in Consumers : MemberInv(c)'
        BY <3>1, <3>2 DEF MemberInv, DeliveryInv, AtMark, TypeOK
      <3> QED BY <3>1, <3>3, <3>4 DEF DeliveryInv
    <2> QED BY <2>1, DeliveryStep
  <1>3. DeliveryInv => NothingLost
    BY DEF DeliveryInv
  <1> QED BY <1>1, <1>2, <1>3, SyncStep, CompensationTypeCorrect, PTL DEF Spec
=============================================================================
