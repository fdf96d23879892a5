------------------------ MODULE OrderCreationProofs ------------------------
(***************************************************************************)
(* Proofs about OrderCreation, for any set of requests and any timeouts.   *)
(***************************************************************************)
EXTENDS OrderCreation, TLAPS

(***************************************************************************)
(* Typing.                                                                 *)
(***************************************************************************)

\* The effect of a return on the local variables, as one fact.
LEMMA ReturnType ==
    ASSUME TypeOK, NEW r \in Requests, NEW kind \in {"ok", "error", "processing"},
           Return(r, kind)
    PROVE  /\ pc' \in [Requests -> Labels]
           /\ deadline' \in [Requests -> Nat]
           /\ startedAt' \in [Requests -> Nat]
           /\ seen' \in [Requests -> [startedAt : Nat, owner : Requests \cup {NoOrder}]]
           /\ attempts' \in [Requests -> 0 .. CompleteAttempts]
           /\ reply' \in [Requests -> {"none", "ok", "error", "processing"}]
  BY ConstantsAssumption DEF TypeOK, Return, Forget, Goto, Labels, NothingSeen

\* Init and every step keep the types of the variables: no action writes a
\* value that the Redis entry, the tables or the handler cannot hold.
THEOREM TypeCorrect == Spec => []TypeOK
  <1> USE ConstantsAssumption
  <1>1. Init => TypeOK
    BY DEF Init, TypeOK, Absent, NoAnswer, NothingSeen, Entry, Answer, Labels
  <1>2. TypeOK /\ [Next]_vars => TypeOK'
    <2> SUFFICES ASSUME TypeOK, [Next]_vars PROVE TypeOK'
      OBVIOUS
    <2>1. ASSUME NEW r \in Requests, Begin(r) PROVE TypeOK'
      BY <2>1 DEF Begin, Goto, Until, TypeOK, Labels
    <2>2. ASSUME NEW r \in Requests, Acquire(r) PROVE TypeOK'
      BY <2>2 DEF Acquire, SetProcessing, Goto, TypeOK, Labels, Entry, Answer, NoAnswer
    <2>3. ASSUME NEW r \in Requests, AcquireReplyLost(r) PROVE TypeOK'
      <3>1. idem' \in Entry /\ acquiredAt' \in [Requests -> Nat]
        BY <2>3 DEF AcquireReplyLost, SetProcessing, TypeOK, Entry, Answer, NoAnswer
      <3> QED BY <2>3, <3>1, ReturnType DEF AcquireReplyLost, TypeOK
    <2>4. ASSUME NEW r \in Requests, AcquireExisting(r) PROVE TypeOK'
      <3>1. CASE idem.state = "completed" /\ target' = [target EXCEPT ![r] = idem.answer]
                 /\ Return(r, "ok")
        BY <2>4, <3>1, ReturnType DEF AcquireExisting, TypeOK, Entry
      <3>2. CASE Return(r, IF idem.state = "unknown" THEN "error" ELSE "processing")
                 /\ UNCHANGED target
        BY <2>4, <3>2, ReturnType DEF AcquireExisting, TypeOK
      <3>3. CASE /\ seen' = [seen EXCEPT ![r] = [startedAt |-> idem.startedAt,
                                                 owner |-> idem.owner]]
                 /\ Goto(r, "recover")
                 /\ UNCHANGED <<target, reply, deadline, startedAt, attempts>>
        BY <2>4, <3>3 DEF AcquireExisting, TypeOK, Goto, Labels, Entry
      <3>4. CASE Goto(r, "discard") /\ UNCHANGED <<target, reply, locals>>
        BY <2>4, <3>4 DEF AcquireExisting, TypeOK, Goto, Labels, locals
      <3> QED BY <2>4, <3>1, <3>2, <3>3, <3>4 DEF AcquireExisting
    <2>5. ASSUME NEW r \in Requests, DiscardGarbled(r) PROVE TypeOK'
      <3>1. idem' \in Entry
        BY <2>5 DEF DiscardGarbled, Absent, NoAnswer, Entry, Answer
      <3>2. CASE Return(r, "error")
        BY <2>5, <3>1, <3>2, ReturnType DEF DiscardGarbled, TypeOK
      <3>3. CASE /\ attempts' = [attempts EXCEPT ![r] = 1]
                 /\ startedAt' = [startedAt EXCEPT ![r] = clock]
                 /\ Goto(r, "acquire")
                 /\ UNCHANGED <<deadline, seen, reply>>
        BY <2>5, <3>1, <3>3 DEF DiscardGarbled, TypeOK, Goto, Labels
      <3> QED BY <2>5, <3>2, <3>3 DEF DiscardGarbled
    <2>6. ASSUME NEW r \in Requests, tryRecoverOrderFromProcessing(r) PROVE TypeOK'
      <3>1. CASE Return(r, "processing") /\ UNCHANGED target
        BY <2>6, <3>1, ReturnType DEF tryRecoverOrderFromProcessing, TypeOK
      <3>2. CASE \E o \in RecoveryCandidates(r) :
                   /\ target' = [target EXCEPT ![r] = [order |-> o, status |-> orders[o]]]
                   /\ Goto(r, "complete")
                   /\ Until(r, CompleteTimeout)
                   /\ attempts' = [attempts EXCEPT ![r] = 0]
                   /\ UNCHANGED <<reply, startedAt, seen>>
        BY <2>6, <3>2 DEF tryRecoverOrderFromProcessing, RecoveryCandidates, TypeOK,
                          Goto, Until, Labels, Answer
      <3> QED BY <2>6, <3>1, <3>2 DEF tryRecoverOrderFromProcessing
    <2>7. ASSUME NEW r \in Requests, FailBeforeAcquire(r) PROVE TypeOK'
      BY <2>7, ReturnType DEF FailBeforeAcquire, TypeOK
    <2>8. ASSUME NEW r \in Requests, checkRateLimit(r) PROVE TypeOK'
      BY <2>8 DEF checkRateLimit, Goto, Until, TypeOK, Labels
    <2>9. ASSUME NEW r \in Requests, validateMarket(r) PROVE TypeOK'
      BY <2>9 DEF validateMarket, Goto, TypeOK, Labels, locals
    <2>10. ASSUME NEW r \in Requests, FailBeforeSave(r) PROVE TypeOK'
      BY <2>10 DEF FailBeforeSave, Goto, Until, TypeOK, Labels
    <2>11. ASSUME NEW r \in Requests, SaveOrder(r) PROVE TypeOK'
      BY <2>11 DEF SaveOrder, Goto, TypeOK, Labels, locals
    <2>12. ASSUME NEW r \in Requests, ProduceOrderCreated(r) PROVE TypeOK'
      BY <2>12 DEF ProduceOrderCreated, Goto, Until, TypeOK, Labels
    <2>13. ASSUME NEW r \in Requests, commitTransaction(r) PROVE TypeOK'
      BY <2>13 DEF commitTransaction, ApplyTransaction, Goto, Until, TypeOK,
                   Labels, Answer, OrderStatus
    <2>14. ASSUME NEW r \in Requests, FailTransaction(r) PROVE TypeOK'
      <3>1. /\ orders' \in [Requests -> OrderStatus \cup {"none"}]
            /\ outbox' \subseteq Requests
            /\ tx' \in [Requests -> SUBSET {"order", "event"}]
        BY <2>14 DEF FailTransaction, ApplyTransaction, TypeOK, OrderStatus
      <3>2. pc' \in [Requests -> Labels] /\ deadline' \in [Requests -> Nat]
        BY <2>14 DEF FailTransaction, Goto, Until, TypeOK, Labels
      <3> QED BY <2>14, <3>1, <3>2 DEF FailTransaction, TypeOK
    <2>15. ASSUME NEW r \in Requests, rollbackTransaction(r) PROVE TypeOK'
      BY <2>15 DEF rollbackTransaction, Goto, Until, TypeOK, Labels
    <2>16. ASSUME NEW r \in Requests, failCleanup(r) PROVE TypeOK'
      <3>1. idem' \in Entry
        BY <2>16 DEF failCleanup, TypeOK, Absent, NoAnswer, Entry, Answer
      <3> QED BY <2>16, <3>1, ReturnType DEF failCleanup, TypeOK
    <2>17. ASSUME NEW r \in Requests, CompleteIdempotency(r) PROVE TypeOK'
      <3>1. idem' \in Entry
        BY <2>17 DEF CompleteIdempotency, SetCompleted, TypeOK, Entry
      <3>2. CASE Return(r, "ok")
        BY <2>17, <3>1, <3>2, ReturnType DEF CompleteIdempotency, TypeOK
      <3>3. CASE Goto(r, "restore") /\ UNCHANGED <<idem, reply, locals>>
        BY <2>17, <3>1, <3>3 DEF CompleteIdempotency, TypeOK, locals, Goto, Labels
      <3> QED BY <2>17, <3>2, <3>3 DEF CompleteIdempotency
    <2>18. ASSUME NEW r \in Requests, RestoreExpiredKey(r) PROVE TypeOK'
      <3>1. idem' \in Entry
        BY <2>18 DEF RestoreExpiredKey, SetRestored, TypeOK, Entry
      <3> QED BY <2>18, <3>1, ReturnType DEF RestoreExpiredKey, TypeOK
    <2>19. ASSUME NEW r \in Requests, CompleteAttemptFails(r) PROVE TypeOK'
      <3>1. idem' \in Entry
        BY <2>19 DEF CompleteAttemptFails, SetCompleted, SetRestored, TypeOK, Entry
      <3>2. CASE Return(r, "ok")
        BY <2>19, <3>1, <3>2, ReturnType DEF CompleteAttemptFails, TypeOK
      <3>3. CASE /\ attempts[r] + 1 < CompleteAttempts
                 /\ attempts' = [attempts EXCEPT ![r] = @ + 1]
                 /\ Goto(r, "complete")
                 /\ UNCHANGED <<reply, deadline, startedAt, seen>>
        BY <2>19, <3>1, <3>3 DEF CompleteAttemptFails, TypeOK, Goto, Labels
      <3> QED BY <2>19, <3>2, <3>3 DEF CompleteAttemptFails, AfterFailedAttempt, RetryComplete
    <2>20. ASSUME NEW r \in Requests, Crash(r) PROVE TypeOK'
      BY <2>20 DEF Crash, Forget, Goto, TypeOK, Labels, NothingSeen
    <2>21. ASSUME NEW r \in Requests, CancelOrder(r) PROVE TypeOK'
      BY <2>21 DEF CancelOrder, TypeOK, OrderStatus, requestVars
    <2>22. CASE ForeignValue
      <3>1. idem' \in Entry
        BY <2>22 DEF ForeignValue, TypeOK, Entry
      <3> QED BY <2>22, <3>1 DEF ForeignValue, TypeOK, requestVars
    <2>23. CASE RateWindowEnds
      BY <2>23 DEF RateWindowEnds, TypeOK, requestVars
    <2>24. CASE Tick
      BY <2>24 DEF Tick, TypeOK, Absent, NoAnswer, Entry, Answer, requestVars
    <2>25. CASE UNCHANGED vars
      BY <2>25 DEF vars, requestVars, TypeOK
    <2>26. ASSUME NEW r \in Requests, Resend(r) PROVE TypeOK'
      <3>1. idem' \in Entry /\ acquiredAt' \in [Requests -> Nat]
        BY <2>26 DEF Resend, SetProcessing, Absent, TypeOK, Entry, Answer, NoAnswer
      <3> QED BY <2>26, <3>1 DEF Resend, TypeOK, locals
    <2> QED
      BY <2>1, <2>2, <2>3, <2>4, <2>5, <2>6, <2>7, <2>8, <2>9, <2>10, <2>11,
         <2>12, <2>13, <2>14, <2>15, <2>16, <2>17, <2>18, <2>19, <2>20, <2>21,
         <2>22, <2>23, <2>24, <2>25, <2>26 DEF Next, Handler
  <1> QED BY <1>1, <1>2, PTL DEF Spec

(***************************************************************************)
(* Durability, under every fault.                                          *)
(***************************************************************************)

\* One step keeps DurableInv.
LEMMA DurableStep == TypeOK /\ DurableInv /\ [Next]_vars => DurableInv'
  <1> SUFFICES ASSUME TypeOK, DurableInv, [Next]_vars PROVE DurableInv'
    OBVIOUS
  <1> USE ConstantsAssumption DEF DurableInv, SuccessIsDurable, OrderAndEventAtomic,
            Durable, TypeOK, BeforeCommit, Labels, Entry, Answer, OrderStatus
  <1>1. ASSUME NEW r \in Requests, Begin(r) PROVE DurableInv'
    BY <1>1 DEF Begin, Goto, Until
  <1>2. ASSUME NEW r \in Requests, Acquire(r) PROVE DurableInv'
    BY <1>2 DEF Acquire, SetProcessing, Goto
  <1>3. ASSUME NEW r \in Requests, AcquireReplyLost(r) PROVE DurableInv'
    BY <1>3 DEF AcquireReplyLost, SetProcessing, Return, Forget, Goto, locals
  <1>4. ASSUME NEW r \in Requests, AcquireExisting(r) PROVE DurableInv'
    BY <1>4, SMTT(30) DEF AcquireExisting, Return, Forget, Goto, locals
  <1>5. ASSUME NEW r \in Requests, DiscardGarbled(r) PROVE DurableInv'
    BY <1>5 DEF DiscardGarbled, Absent, Return, Forget, Goto
  <1>6. ASSUME NEW r \in Requests, tryRecoverOrderFromProcessing(r) PROVE DurableInv'
    BY <1>6 DEF tryRecoverOrderFromProcessing, RecoveryCandidates, Return, Forget, Goto, Until
  <1>7. ASSUME NEW r \in Requests, FailBeforeAcquire(r) PROVE DurableInv'
    BY <1>7 DEF FailBeforeAcquire, Return, Forget, Goto
  <1>8. ASSUME NEW r \in Requests, checkRateLimit(r) PROVE DurableInv'
    BY <1>8 DEF checkRateLimit, Goto, Until
  <1>9. ASSUME NEW r \in Requests, validateMarket(r) PROVE DurableInv'
    BY <1>9 DEF validateMarket, Goto, locals
  <1>10. ASSUME NEW r \in Requests, FailBeforeSave(r) PROVE DurableInv'
    BY <1>10 DEF FailBeforeSave, Goto, Until
  <1>11. ASSUME NEW r \in Requests, SaveOrder(r) PROVE DurableInv'
    BY <1>11 DEF SaveOrder, Goto, locals
  <1>12. ASSUME NEW r \in Requests, ProduceOrderCreated(r) PROVE DurableInv'
    BY <1>12 DEF ProduceOrderCreated, Goto, Until
  <1>13. ASSUME NEW r \in Requests, commitTransaction(r) PROVE DurableInv'
    BY <1>13 DEF commitTransaction, ApplyTransaction, Goto, Until
  <1>14. ASSUME NEW r \in Requests, FailTransaction(r) PROVE DurableInv'
    BY <1>14 DEF FailTransaction, ApplyTransaction, Goto, Until
  <1>15. ASSUME NEW r \in Requests, rollbackTransaction(r) PROVE DurableInv'
    BY <1>15 DEF rollbackTransaction, Goto, Until
  <1>16. ASSUME NEW r \in Requests, failCleanup(r) PROVE DurableInv'
    BY <1>16 DEF failCleanup, Absent, Return, Forget, Goto, locals
  <1>17. ASSUME NEW r \in Requests, CompleteIdempotency(r) PROVE DurableInv'
    BY <1>17 DEF CompleteIdempotency, SetCompleted, Return, Forget, Goto, locals
  <1>18. ASSUME NEW r \in Requests, RestoreExpiredKey(r) PROVE DurableInv'
    BY <1>18 DEF RestoreExpiredKey, SetRestored, Return, Forget, Goto
  <1>19. ASSUME NEW r \in Requests, CompleteAttemptFails(r) PROVE DurableInv'
    <2>1. Durable(target[r])
      BY <1>19 DEF CompleteAttemptFails, AfterFailedAttempt, RetryComplete
    <2>2. idem'.state = "completed" => Durable(idem'.answer)
      BY <1>19, <2>1 DEF CompleteAttemptFails, SetCompleted, SetRestored
    <2>3. UNCHANGED <<orders, outbox, tx, target>>
      BY <1>19 DEF CompleteAttemptFails, AfterFailedAttempt, RetryComplete
    <2>4. CASE Return(r, "ok")
      BY <1>19, <2>1, <2>2, <2>3, <2>4 DEF CompleteAttemptFails, Return, Forget, Goto
    <2>5. CASE Goto(r, "complete") /\ UNCHANGED reply
      BY <1>19, <2>1, <2>2, <2>3, <2>5 DEF CompleteAttemptFails, Goto
    <2> QED BY <1>19, <2>4, <2>5 DEF CompleteAttemptFails, AfterFailedAttempt, RetryComplete
  <1>20. ASSUME NEW r \in Requests, Crash(r) PROVE DurableInv'
    BY <1>20 DEF Crash, Forget, Goto
  <1>21. ASSUME NEW r \in Requests, CancelOrder(r) PROVE DurableInv'
    BY <1>21 DEF CancelOrder, requestVars
  <1>22. CASE ForeignValue
    BY <1>22 DEF ForeignValue, requestVars
  <1>23. CASE RateWindowEnds
    BY <1>23 DEF RateWindowEnds, requestVars
  <1>24. CASE Tick
    BY <1>24 DEF Tick, Absent, requestVars
  <1>25. CASE UNCHANGED vars
    BY <1>25 DEF vars, requestVars
  <1>26. ASSUME NEW r \in Requests, Resend(r) PROVE DurableInv'
    BY <1>26 DEF Resend, SetProcessing, Absent, locals
  <1> QED
    BY <1>1, <1>2, <1>3, <1>4, <1>5, <1>6, <1>7, <1>8, <1>9, <1>10, <1>11,
       <1>12, <1>13, <1>14, <1>15, <1>16, <1>17, <1>18, <1>19, <1>20, <1>21,
       <1>22, <1>23, <1>24, <1>25, <1>26 DEF Next, Handler

\* What handlers are about to answer is durable in every reachable state.
LEMMA DurableInvariant == Spec => []DurableInv
  <1>1. Init => DurableInv
    BY DEF Init, DurableInv, SuccessIsDurable, OrderAndEventAtomic, Absent
  <1> QED BY <1>1, TypeCorrect, DurableStep, PTL DEF Spec

\* An answer "ok", and every later answer read from a completed record, names
\* a committed order, whatever crashes, expires, is lost or is repeated.
THEOREM SuccessDurable == Spec => []SuccessIsDurable
  BY DurableInvariant, PTL DEF DurableInv

\* The order and its OrderCreated row are committed together or not at all.
THEOREM OrderEventAtomic == Spec => []OrderAndEventAtomic
  BY DurableInvariant, PTL DEF DurableInv

(***************************************************************************)
(* No duplicates within the TTL, when commits answer truthfully, no Redis  *)
(* command is repeated and no process stalls.                              *)
(***************************************************************************)

\* Under these faults the client library repeats no command and nobody else
\* writes into the key.
LEMMA NoStrangers ==
    ASSUME SafeFaults
    PROVE  (\A r \in Requests : ~Resend(r)) /\ ~ForeignValue
  BY DEF SafeFaults, Resend, ForeignValue

\* A request cleans up while its acquisition is younger than the TTL.
LEMMA CleanupInTime ==
    ASSUME TTLCoversHandler, TypeOK, TimingInv, NEW r \in Requests, pc[r] = "cleanup"
    PROVE  clock < acquiredAt[r] + RequestTTL
  <1>1. clock <= deadline[r] /\ deadline[r] <= acquiredAt[r] + (3 * ServiceTimeout + CleanupTimeout)
    BY DEF TimingInv, Owning, Finished, Span
  <1> QED BY <1>1, ConstantsAssumption DEF TypeOK, TTLCoversHandler

\* A request acquires the key within a service timeout of its timestamp.
LEMMA AcquireInTime ==
    ASSUME TimingInv, NEW r \in Requests, pc[r] = "acquire"
    PROVE  clock <= startedAt[r] + ServiceTimeout
  BY DEF TimingInv, Finished

\* One step keeps the bounds on where a request stands in time.
LEMMA TimingInvStep ==
    ASSUME SafeFaults, TTLCoversHandler, TypeOK, DurableInv, DedupInv, [Next]_vars
    PROVE  TimingInv'
  <1> USE ConstantsAssumption DEF DedupInv, TimingInv, Span, SafeFaults, TTLCoversHandler,
          DurableInv, TypeOK, BeforeCommit, Owning, Finished, Labels, Entry, Answer, OrderStatus
  <1>1. ASSUME NEW r \in Requests, Begin(r) PROVE TimingInv'
    BY <1>1 DEF Begin, Goto, Until
  <1>2. ASSUME NEW r \in Requests, Acquire(r) PROVE TimingInv'
    BY <1>2 DEF Acquire, SetProcessing, Goto
  <1>3. ASSUME NEW r \in Requests, AcquireReplyLost(r) PROVE TimingInv'
    <2>1. Return(r, "error") /\ SetProcessing(r) /\ pc[r] = "acquire" /\ UNCHANGED <<clock, orders>>
      BY <1>3 DEF AcquireReplyLost
    <2> QED BY <2>1 DEF SetProcessing, Return, Forget, Goto
  <1>4. ASSUME NEW r \in Requests, AcquireExisting(r) PROVE TimingInv'
    <2>1. pc[r] = "acquire" /\ UNCHANGED <<clock, orders, acquiredAt>>
      BY <1>4 DEF AcquireExisting
    <2>2. ASSUME NEW kind \in {"ok", "error", "processing"}, Return(r, kind) PROVE TimingInv'
      BY <2>1, <2>2 DEF Return, Forget, Goto
    <2>3. CASE Goto(r, "recover") /\ UNCHANGED <<reply, deadline, startedAt, attempts>>
      BY <2>1, <2>3 DEF Goto
    <2>4. idem.state # "garbled"
      BY DEF KeyInv
    <2> QED BY <1>4, <2>2, <2>3, <2>4 DEF AcquireExisting
  <1>5. ASSUME NEW r \in Requests, DiscardGarbled(r) PROVE TimingInv'
    BY <1>5 DEF DiscardGarbled, Absent, Return, Forget, Goto
  <1>6. ASSUME NEW r \in Requests, tryRecoverOrderFromProcessing(r) PROVE TimingInv'
    BY <1>6 DEF tryRecoverOrderFromProcessing, RecoveryCandidates, Return, Forget, Goto, Until
  <1>7. ASSUME NEW r \in Requests, FailBeforeAcquire(r) PROVE TimingInv'
    BY <1>7 DEF FailBeforeAcquire, Return, Forget, Goto
  <1>8. ASSUME NEW r \in Requests, checkRateLimit(r) PROVE TimingInv'
    BY <1>8 DEF checkRateLimit, Goto, Until
  <1>9. ASSUME NEW r \in Requests, validateMarket(r) PROVE TimingInv'
    BY <1>9 DEF validateMarket, Goto, locals
  <1>10. ASSUME NEW r \in Requests, FailBeforeSave(r) PROVE TimingInv'
    BY <1>10 DEF FailBeforeSave, Goto, Until
  <1>11. ASSUME NEW r \in Requests, SaveOrder(r) PROVE TimingInv'
    BY <1>11 DEF SaveOrder, Goto, locals
  <1>12. ASSUME NEW r \in Requests, ProduceOrderCreated(r) PROVE TimingInv'
    BY <1>12 DEF ProduceOrderCreated, Goto, Until
  <1>13. ASSUME NEW r \in Requests, commitTransaction(r) PROVE TimingInv'
    BY <1>13 DEF commitTransaction, ApplyTransaction, Goto, Until
  <1>14. ASSUME NEW r \in Requests, FailTransaction(r) PROVE TimingInv'
    BY <1>14 DEF FailTransaction, ApplyTransaction, Goto, Until
  <1>15. ASSUME NEW r \in Requests, rollbackTransaction(r) PROVE TimingInv'
    BY <1>15 DEF rollbackTransaction, Goto, Until
  <1>16. ASSUME NEW r \in Requests, failCleanup(r) PROVE TimingInv'
    BY <1>16 DEF failCleanup, Absent, Return, Forget, Goto, locals
  <1>17. ASSUME NEW r \in Requests, CompleteIdempotency(r) PROVE TimingInv'
    BY <1>17 DEF CompleteIdempotency, SetCompleted, Return, Forget, Goto, locals
  <1>18. ASSUME NEW r \in Requests, RestoreExpiredKey(r) PROVE TimingInv'
    BY <1>18 DEF RestoreExpiredKey, SetRestored, Return, Forget, Goto
  <1>19. ASSUME NEW r \in Requests, CompleteAttemptFails(r) PROVE TimingInv'
    BY <1>19 DEF CompleteAttemptFails, SetCompleted, SetRestored, AfterFailedAttempt,
          RetryComplete, Return, Forget, Goto
  <1>20. ASSUME NEW r \in Requests, Crash(r) PROVE TimingInv'
    BY <1>20 DEF Crash, Forget, Goto
  <1>21. ASSUME NEW r \in Requests, CancelOrder(r) PROVE TimingInv'
    BY <1>21 DEF CancelOrder, requestVars
  <1>22. (\A r \in Requests : ~Resend(r)) /\ ~ForeignValue
    BY ONLY SafeFaults, NoStrangers
  <1>23. CASE RateWindowEnds
    BY <1>23 DEF RateWindowEnds, requestVars
  <1>24. CASE Tick
    BY <1>24 DEF Tick, Absent, requestVars
  <1>25. CASE UNCHANGED vars
    BY <1>25 DEF vars, requestVars
  <1> QED
    BY ONLY [Next]_vars, <1>1, <1>2, <1>3, <1>4, <1>5, <1>6, <1>7, <1>8, <1>9, <1>10, <1>11,
       <1>12, <1>13, <1>14, <1>15, <1>16, <1>17, <1>18, <1>19, <1>20, <1>21,
       <1>22, <1>23, <1>24, <1>25 DEF Next, Handler

\* One step keeps the key of every holder.
LEMMA KeyInvStep ==
    ASSUME SafeFaults, TTLCoversHandler, TypeOK, DurableInv, DedupInv, [Next]_vars
    PROVE  KeyInv'
  <1> USE ConstantsAssumption DEF DedupInv, KeyInv, TimingInv, Span, Holder, ApartInv, SafeFaults, TTLCoversHandler,
          DurableInv, TypeOK, BeforeCommit, Owning, Finished, Labels, Entry, Answer, OrderStatus
  <1>1. ASSUME NEW r \in Requests, Begin(r) PROVE KeyInv'
    BY <1>1 DEF Begin, Goto, Until
  <1>2. ASSUME NEW r \in Requests, Acquire(r) PROVE KeyInv'
    BY <1>2 DEF Acquire, SetProcessing, Goto
  <1>3. ASSUME NEW r \in Requests, AcquireReplyLost(r) PROVE KeyInv'
    BY <1>3 DEF AcquireReplyLost, SetProcessing, Return, Forget, Goto, locals
  <1>4. ASSUME NEW r \in Requests, AcquireExisting(r) PROVE KeyInv'
    BY <1>4 DEF AcquireExisting, Return, Forget, Goto, locals
  <1>5. ASSUME NEW r \in Requests, DiscardGarbled(r) PROVE KeyInv'
    BY <1>5 DEF DiscardGarbled, Absent, Return, Forget, Goto
  <1>6. ASSUME NEW r \in Requests, tryRecoverOrderFromProcessing(r) PROVE KeyInv'
    BY <1>6 DEF tryRecoverOrderFromProcessing, RecoveryCandidates, Return, Forget, Goto, Until
  <1>7. ASSUME NEW r \in Requests, FailBeforeAcquire(r) PROVE KeyInv'
    BY <1>7 DEF FailBeforeAcquire, Return, Forget, Goto
  <1>8. ASSUME NEW r \in Requests, checkRateLimit(r) PROVE KeyInv'
    BY <1>8 DEF checkRateLimit, Goto, Until
  <1>9. ASSUME NEW r \in Requests, validateMarket(r) PROVE KeyInv'
    BY <1>9 DEF validateMarket, Goto, locals
  <1>10. ASSUME NEW r \in Requests, FailBeforeSave(r) PROVE KeyInv'
    BY <1>10 DEF FailBeforeSave, Goto, Until
  <1>11. ASSUME NEW r \in Requests, SaveOrder(r) PROVE KeyInv'
    BY <1>11 DEF SaveOrder, Goto, locals
  <1>12. ASSUME NEW r \in Requests, ProduceOrderCreated(r) PROVE KeyInv'
    BY <1>12 DEF ProduceOrderCreated, Goto, Until
  <1>13. ASSUME NEW r \in Requests, commitTransaction(r) PROVE KeyInv'
    BY <1>13 DEF commitTransaction, ApplyTransaction, Goto, Until
  <1>14. ASSUME NEW r \in Requests, FailTransaction(r) PROVE KeyInv'
    BY <1>14 DEF FailTransaction, ApplyTransaction, Goto, Until
  <1>15. ASSUME NEW r \in Requests, rollbackTransaction(r) PROVE KeyInv'
    BY <1>15 DEF rollbackTransaction, Goto, Until
  <1>16. ASSUME NEW r \in Requests, failCleanup(r) PROVE KeyInv'
    <2>1. pc[r] = "cleanup" /\ Return(r, "error") /\ UNCHANGED <<clock, orders, acquiredAt>>
      BY <1>16 DEF failCleanup
    <2>2. clock < acquiredAt[r] + RequestTTL
      BY ONLY <2>1, r \in Requests, TTLCoversHandler, TypeOK, DedupInv, CleanupInTime DEF DedupInv
    <2>3. ASSUME NEW s \in Requests, Holder(s)' PROVE s # r /\ Holder(s)
      BY <2>1, <2>3 DEF Return, Goto
    <2>4. CASE UNCHANGED idem
      BY <2>1, <2>3, <2>4
    <2>5. CASE idem' = Absent
      <3>1. ASSUME NEW s \in Requests, Holder(s)' PROVE clock >= acquiredAt[s] + RequestTTL
        <4>1. s # r /\ Holder(s) /\ Holder(r) /\ acquiredAt[s] <= clock
          BY <2>1, <2>3, <3>1
        <4>2. \/ acquiredAt[r] + RequestTTL <= acquiredAt[s]
              \/ acquiredAt[s] + RequestTTL <= acquiredAt[r]
          BY <4>1
        <4>3. acquiredAt[r] <= clock
          OBVIOUS
        <4> QED BY <2>2, <4>1, <4>2, <4>3
      <3> QED BY <2>1, <2>5, <3>1 DEF Absent
    <2> QED BY <1>16, <2>4, <2>5 DEF failCleanup
  <1>17. ASSUME NEW r \in Requests, CompleteIdempotency(r) PROVE KeyInv'
    BY <1>17 DEF CompleteIdempotency, SetCompleted, Return, Forget, Goto, locals
  <1>18. ASSUME NEW r \in Requests, RestoreExpiredKey(r) PROVE KeyInv'
    BY <1>18 DEF RestoreExpiredKey, SetRestored, Return, Forget, Goto
  <1>19. ASSUME NEW r \in Requests, CompleteAttemptFails(r) PROVE KeyInv'
    BY <1>19 DEF CompleteAttemptFails, SetCompleted, SetRestored, AfterFailedAttempt,
          RetryComplete, Return, Forget, Goto
  <1>20. ASSUME NEW r \in Requests, Crash(r) PROVE KeyInv'
    BY <1>20 DEF Crash, Forget, Goto
  <1>21. ASSUME NEW r \in Requests, CancelOrder(r) PROVE KeyInv'
    BY <1>21 DEF CancelOrder, requestVars
  <1>22. (\A r \in Requests : ~Resend(r)) /\ ~ForeignValue
    BY ONLY SafeFaults, NoStrangers
  <1>23. CASE RateWindowEnds
    BY <1>23 DEF RateWindowEnds, requestVars
  <1>24. CASE Tick
    BY <1>24 DEF Tick, Absent, requestVars
  <1>25. CASE UNCHANGED vars
    BY <1>25 DEF vars, requestVars
  <1> QED
    BY ONLY [Next]_vars, <1>1, <1>2, <1>3, <1>4, <1>5, <1>6, <1>7, <1>8, <1>9, <1>10, <1>11,
       <1>12, <1>13, <1>14, <1>15, <1>16, <1>17, <1>18, <1>19, <1>20, <1>21,
       <1>22, <1>23, <1>24, <1>25 DEF Next, Handler

\* One step keeps the holders the TTL apart.
LEMMA ApartInvStep ==
    ASSUME SafeFaults, TTLCoversHandler, TypeOK, DurableInv, DedupInv, [Next]_vars
    PROVE  ApartInv'
  <1> USE ConstantsAssumption DEF DedupInv, ApartInv, KeyInv, Holder, TimingInv, SafeFaults, TTLCoversHandler,
          DurableInv, TypeOK, BeforeCommit, Owning, Finished, Labels, Entry, Answer, OrderStatus
  <1>1. ASSUME NEW r \in Requests, Begin(r) PROVE ApartInv'
    BY <1>1 DEF Begin, Goto, Until
  <1>2. ASSUME NEW r \in Requests, Acquire(r) PROVE ApartInv'
    BY <1>2 DEF Acquire, SetProcessing, Goto
  <1>3. ASSUME NEW r \in Requests, AcquireReplyLost(r) PROVE ApartInv'
    BY <1>3 DEF AcquireReplyLost, SetProcessing, Return, Forget, Goto, locals
  <1>4. ASSUME NEW r \in Requests, AcquireExisting(r) PROVE ApartInv'
    BY <1>4 DEF AcquireExisting, Return, Forget, Goto, locals
  <1>5. ASSUME NEW r \in Requests, DiscardGarbled(r) PROVE ApartInv'
    BY <1>5 DEF DiscardGarbled, Absent, Return, Forget, Goto
  <1>6. ASSUME NEW r \in Requests, tryRecoverOrderFromProcessing(r) PROVE ApartInv'
    BY <1>6 DEF tryRecoverOrderFromProcessing, RecoveryCandidates, Return, Forget, Goto, Until
  <1>7. ASSUME NEW r \in Requests, FailBeforeAcquire(r) PROVE ApartInv'
    BY <1>7 DEF FailBeforeAcquire, Return, Forget, Goto
  <1>8. ASSUME NEW r \in Requests, checkRateLimit(r) PROVE ApartInv'
    BY <1>8 DEF checkRateLimit, Goto, Until
  <1>9. ASSUME NEW r \in Requests, validateMarket(r) PROVE ApartInv'
    BY <1>9 DEF validateMarket, Goto, locals
  <1>10. ASSUME NEW r \in Requests, FailBeforeSave(r) PROVE ApartInv'
    BY <1>10 DEF FailBeforeSave, Goto, Until
  <1>11. ASSUME NEW r \in Requests, SaveOrder(r) PROVE ApartInv'
    BY <1>11 DEF SaveOrder, Goto, locals
  <1>12. ASSUME NEW r \in Requests, ProduceOrderCreated(r) PROVE ApartInv'
    BY <1>12 DEF ProduceOrderCreated, Goto, Until
  <1>13. ASSUME NEW r \in Requests, commitTransaction(r) PROVE ApartInv'
    BY <1>13 DEF commitTransaction, ApplyTransaction, Goto, Until
  <1>14. ASSUME NEW r \in Requests, FailTransaction(r) PROVE ApartInv'
    BY <1>14 DEF FailTransaction, ApplyTransaction, Goto, Until
  <1>15. ASSUME NEW r \in Requests, rollbackTransaction(r) PROVE ApartInv'
    BY <1>15 DEF rollbackTransaction, Goto, Until
  <1>16. ASSUME NEW r \in Requests, failCleanup(r) PROVE ApartInv'
    BY <1>16 DEF failCleanup, Absent, Return, Forget, Goto, locals
  <1>17. ASSUME NEW r \in Requests, CompleteIdempotency(r) PROVE ApartInv'
    BY <1>17 DEF CompleteIdempotency, SetCompleted, Return, Forget, Goto, locals
  <1>18. ASSUME NEW r \in Requests, RestoreExpiredKey(r) PROVE ApartInv'
    BY <1>18 DEF RestoreExpiredKey, SetRestored, Return, Forget, Goto
  <1>19. ASSUME NEW r \in Requests, CompleteAttemptFails(r) PROVE ApartInv'
    BY <1>19 DEF CompleteAttemptFails, SetCompleted, SetRestored, AfterFailedAttempt,
          RetryComplete, Return, Forget, Goto
  <1>20. ASSUME NEW r \in Requests, Crash(r) PROVE ApartInv'
    BY <1>20 DEF Crash, Forget, Goto
  <1>21. ASSUME NEW r \in Requests, CancelOrder(r) PROVE ApartInv'
    BY <1>21 DEF CancelOrder, requestVars
  <1>22. (\A r \in Requests : ~Resend(r)) /\ ~ForeignValue
    BY ONLY SafeFaults, NoStrangers
  <1>23. CASE RateWindowEnds
    BY <1>23 DEF RateWindowEnds, requestVars
  <1>24. CASE Tick
    BY <1>24 DEF Tick, Absent, requestVars
  <1>25. CASE UNCHANGED vars
    BY <1>25 DEF vars, requestVars
  <1> QED
    BY ONLY [Next]_vars, <1>1, <1>2, <1>3, <1>4, <1>5, <1>6, <1>7, <1>8, <1>9, <1>10, <1>11,
       <1>12, <1>13, <1>14, <1>15, <1>16, <1>17, <1>18, <1>19, <1>20, <1>21,
       <1>22, <1>23, <1>24, <1>25 DEF Next, Handler

\* One step keeps what the recovery query relies on.
LEMMA RecoveryInvStep ==
    ASSUME SafeFaults, TTLCoversHandler, TypeOK, DurableInv, DedupInv, [Next]_vars
    PROVE  RecoveryInv'
  <1> USE ConstantsAssumption DEF DedupInv, RecoveryInv, TimingInv, ApartInv, Holder, KeyInv, SafeFaults, TTLCoversHandler,
          DurableInv, TypeOK, BeforeCommit, Owning, Finished, Labels, Entry, Answer, OrderStatus
  <1>1. ASSUME NEW r \in Requests, Begin(r) PROVE RecoveryInv'
    BY <1>1 DEF Begin, Goto, Until
  <1>2. ASSUME NEW r \in Requests, Acquire(r) PROVE RecoveryInv'
    <2>1. pc[r] = "acquire" /\ acquiredAt[r] = 0 /\ orders[r] = "none"
      BY <1>2 DEF Acquire
    <2>2. acquiredAt' = [acquiredAt EXCEPT ![r] = clock] /\ clock > 0
      BY <1>2 DEF Acquire, SetProcessing
    <2>3. clock <= startedAt[r] + ServiceTimeout
      BY ONLY <2>1, r \in Requests, DedupInv, AcquireInTime DEF DedupInv
    <2>4. /\ idem'.owner = r /\ idem'.startedAt = startedAt[r]
          /\ UNCHANGED <<seen, target, createdAt, orders>>
          /\ pc' = [pc EXCEPT ![r] = "rateLimit"]
      BY <1>2 DEF Acquire, SetProcessing, Goto
    <2>5. ASSUME NEW s \in Requests, acquiredAt[s] > 0 PROVE acquiredAt'[s] = acquiredAt[s]
      BY <2>1, <2>2, <2>5
    <2> HIDE DEF TypeOK, DurableInv
    <2>6. TypeOK OBVIOUS
    <2>7. \A s \in Requests : orders[s] # "none" \/ pc[s] \in {"insert", "produce", "commit"} => acquiredAt[s] > 0 /\ s # r
      BY <2>1
    <2> QED BY <2>1, <2>2, <2>3, <2>4, <2>5, <2>6, <2>7 DEF TypeOK
  <1>3. ASSUME NEW r \in Requests, AcquireReplyLost(r) PROVE RecoveryInv'
    <2>1. pc[r] = "acquire" /\ acquiredAt[r] = 0 /\ orders[r] = "none"
      BY <1>3 DEF AcquireReplyLost
    <2>2. acquiredAt' = [acquiredAt EXCEPT ![r] = clock] /\ clock > 0
      BY <1>3 DEF AcquireReplyLost, SetProcessing
    <2>3. clock <= startedAt[r] + ServiceTimeout
      BY ONLY <2>1, r \in Requests, DedupInv, AcquireInTime DEF DedupInv
    <2>4. /\ idem'.owner = r /\ idem'.startedAt = startedAt[r]
          /\ UNCHANGED <<target, createdAt, orders>>
          /\ pc' = [pc EXCEPT ![r] = "done"]
          /\ seen' = [seen EXCEPT ![r] = NothingSeen]
      BY <1>3 DEF AcquireReplyLost, SetProcessing, Return, Forget, Goto
    <2>5. ASSUME NEW s \in Requests, acquiredAt[s] > 0 PROVE acquiredAt'[s] = acquiredAt[s]
      BY <2>1, <2>2, <2>5
    <2> HIDE DEF TypeOK, DurableInv
    <2>6. TypeOK OBVIOUS
    <2>7. \A s \in Requests : orders[s] # "none" \/ pc[s] \in {"insert", "produce", "commit"} => acquiredAt[s] > 0 /\ s # r
      BY <2>1
    <2> QED BY <2>1, <2>2, <2>3, <2>4, <2>5, <2>6, <2>7 DEF TypeOK
  <1>4. ASSUME NEW r \in Requests, AcquireExisting(r) PROVE RecoveryInv'
    BY <1>4 DEF AcquireExisting, Return, Forget, Goto, locals
  <1>5. ASSUME NEW r \in Requests, DiscardGarbled(r) PROVE RecoveryInv'
    BY <1>5 DEF DiscardGarbled, Absent, Return, Forget, Goto
  <1>6. ASSUME NEW r \in Requests, tryRecoverOrderFromProcessing(r) PROVE RecoveryInv'
    <2>1. pc[r] = "recover" /\ UNCHANGED <<idem, acquiredAt, orders, createdAt>>
      BY <1>6 DEF tryRecoverOrderFromProcessing
    <2>2. CASE Return(r, "processing") /\ UNCHANGED target
      BY <2>1, <2>2 DEF Return, Forget, Goto
    <2>3. ASSUME NEW o \in RecoveryCandidates(r),
                 target' = [target EXCEPT ![r] = [order |-> o, status |-> orders[o]]],
                 Goto(r, "complete"), UNCHANGED seen
          PROVE  RecoveryInv'
      <3> DEFINE w == seen[r].owner
      <3>1. /\ o \in Requests /\ Holder(o) /\ acquiredAt[o] > 0
            /\ createdAt[o] >= seen[r].startedAt
            /\ createdAt[o] <= acquiredAt[o] + ServiceTimeout
        BY <2>3 DEF RecoveryCandidates
      <3>2. /\ w \in Requests /\ acquiredAt[w] > 0
            /\ acquiredAt[w] <= seen[r].startedAt + ServiceTimeout
        BY <2>1
      <3>3. acquiredAt[o] >= acquiredAt[w]
        <4>1. acquiredAt[w] <= acquiredAt[o] + 2 * ServiceTimeout
          BY <3>1, <3>2
        <4>2. acquiredAt[o] < acquiredAt[w] => acquiredAt[o] + RequestTTL <= acquiredAt[w]
          BY <3>1, <3>2
        <4> QED BY <3>1, <3>2, <4>1, <4>2
      <3>4. pc' = [pc EXCEPT ![r] = "complete"] /\ target'[r].order = o
        BY <2>3 DEF Goto
      <3>5. \A s \in Requests : s # r => target'[s] = target[s] /\ pc'[s] = pc[s]
        BY <2>3 DEF Goto
      <3> QED BY <2>1, <2>3, <3>1, <3>2, <3>3, <3>4, <3>5
    <2> QED BY <1>6, <2>2, <2>3 DEF tryRecoverOrderFromProcessing
  <1>7. ASSUME NEW r \in Requests, FailBeforeAcquire(r) PROVE RecoveryInv'
    BY <1>7 DEF FailBeforeAcquire, Return, Forget, Goto
  <1>8. ASSUME NEW r \in Requests, checkRateLimit(r) PROVE RecoveryInv'
    BY <1>8 DEF checkRateLimit, Goto, Until
  <1>9. ASSUME NEW r \in Requests, validateMarket(r) PROVE RecoveryInv'
    <2>1. clock <= acquiredAt[r] + ServiceTimeout
      <3>1. pc[r] = "validate" /\ Span("validate") = ServiceTimeout
        BY <1>9 DEF validateMarket, Span
      <3>2. clock <= deadline[r] /\ deadline[r] <= acquiredAt[r] + Span(pc[r])
        BY <3>1
      <3> QED BY <3>1, <3>2
    <2> QED BY <1>9, <2>1 DEF validateMarket, Goto, locals
  <1>10. ASSUME NEW r \in Requests, FailBeforeSave(r) PROVE RecoveryInv'
    BY <1>10 DEF FailBeforeSave, Goto, Until
  <1>11. ASSUME NEW r \in Requests, SaveOrder(r) PROVE RecoveryInv'
    BY <1>11 DEF SaveOrder, Goto, locals
  <1>12. ASSUME NEW r \in Requests, ProduceOrderCreated(r) PROVE RecoveryInv'
    BY <1>12 DEF ProduceOrderCreated, Goto, Until
  <1>13. ASSUME NEW r \in Requests, commitTransaction(r) PROVE RecoveryInv'
    BY <1>13 DEF commitTransaction, ApplyTransaction, Goto, Until
  <1>14. ASSUME NEW r \in Requests, FailTransaction(r) PROVE RecoveryInv'
    BY <1>14 DEF FailTransaction, ApplyTransaction, Goto, Until
  <1>15. ASSUME NEW r \in Requests, rollbackTransaction(r) PROVE RecoveryInv'
    BY <1>15 DEF rollbackTransaction, Goto, Until
  <1>16. ASSUME NEW r \in Requests, failCleanup(r) PROVE RecoveryInv'
    BY <1>16 DEF failCleanup, Absent, Return, Forget, Goto, locals
  <1>17. ASSUME NEW r \in Requests, CompleteIdempotency(r) PROVE RecoveryInv'
    BY <1>17 DEF CompleteIdempotency, SetCompleted, Return, Forget, Goto, locals
  <1>18. ASSUME NEW r \in Requests, RestoreExpiredKey(r) PROVE RecoveryInv'
    BY <1>18 DEF RestoreExpiredKey, SetRestored, Return, Forget, Goto
  <1>19. ASSUME NEW r \in Requests, CompleteAttemptFails(r) PROVE RecoveryInv'
    <2>1. /\ pc[r] \in {"complete", "restore"}
          /\ UNCHANGED <<acquiredAt, orders, createdAt, target>>
      BY <1>19 DEF CompleteAttemptFails, AfterFailedAttempt, RetryComplete
    <2>2. UNCHANGED idem \/ idem'.state = "completed"
      BY <1>19 DEF CompleteAttemptFails, SetCompleted, SetRestored
    <2>3. CASE Return(r, "ok")
      BY <2>1, <2>2, <2>3 DEF Return, Forget, Goto
    <2>4. CASE Goto(r, "complete") /\ UNCHANGED seen
      BY <2>1, <2>2, <2>4 DEF Goto
    <2> QED BY <1>19, <2>3, <2>4 DEF CompleteAttemptFails, AfterFailedAttempt, RetryComplete
  <1>20. ASSUME NEW r \in Requests, Crash(r) PROVE RecoveryInv'
    BY <1>20 DEF Crash, Forget, Goto
  <1>21. ASSUME NEW r \in Requests, CancelOrder(r) PROVE RecoveryInv'
    BY <1>21 DEF CancelOrder, requestVars
  <1>22. (\A r \in Requests : ~Resend(r)) /\ ~ForeignValue
    BY ONLY SafeFaults, NoStrangers
  <1>23. CASE RateWindowEnds
    BY <1>23 DEF RateWindowEnds, requestVars
  <1>24. CASE Tick
    BY <1>24 DEF Tick, Absent, requestVars
  <1>25. CASE UNCHANGED vars
    BY <1>25 DEF vars, requestVars
  <1> QED
    BY ONLY [Next]_vars, <1>1, <1>2, <1>3, <1>4, <1>5, <1>6, <1>7, <1>8, <1>9, <1>10, <1>11,
       <1>12, <1>13, <1>14, <1>15, <1>16, <1>17, <1>18, <1>19, <1>20, <1>21,
       <1>22, <1>23, <1>24, <1>25 DEF Next, Handler

\* The inductive invariant of the deduplication argument.
LEMMA DedupInvariant ==
    ASSUME SafeFaults, TTLCoversHandler
    PROVE  Spec => []DedupInv
  <1>1. Init => DedupInv /\ DurableInv
    BY ConstantsAssumption
    DEF Init, DedupInv, TimingInv, KeyInv, ApartInv, RecoveryInv, Holder, Owning,
        Finished, Absent, DurableInv, SuccessIsDurable, OrderAndEventAtomic
  <1>2. TypeOK /\ DurableInv /\ DedupInv /\ [Next]_vars => DedupInv'
    BY TimingInvStep, KeyInvStep, ApartInvStep, RecoveryInvStep DEF DedupInv
  <1> QED BY <1>1, <1>2, TypeCorrect, DurableStep, PTL DEF Spec

\* If the TTL of the key covers the slowest handler, two orders of the same
\* request are taken in charge at least the TTL apart: a client that repeats
\* CreateOrder within the TTL never gets a second order.
THEOREM NoDuplicateWithinTTL ==
    ASSUME SafeFaults, TTLCoversHandler
    PROVE  Spec => []DedupWithinTTL
  <1>1. DedupInv => DedupWithinTTL
    BY DEF DedupInv, ApartInv, DedupWithinTTL, Holder
  <1> QED BY <1>1, DedupInvariant, PTL

\* Under the same conditions an error answer means that no order exists, so
\* that freeing the key is harmless.
THEOREM ErrorLeavesNoOrder ==
    ASSUME SafeFaults, TTLCoversHandler
    PROVE  Spec => []ErrorMeansNoOrder
  <1>1. DedupInv => ErrorMeansNoOrder
    BY DEF DedupInv, TimingInv, ErrorMeansNoOrder
  <1> QED BY <1>1, DedupInvariant, PTL

\* Under the same conditions the lower bound created_at >= started_at keeps
\* the recovery from answering with an order of an older attempt.
THEOREM RecoveryIsCurrent ==
    ASSUME SafeFaults, TTLCoversHandler
    PROVE  Spec => []RecoveryNeverOlder
  <1>1. DedupInv => RecoveryNeverOlder
    BY DEF DedupInv, RecoveryInv, RecoveryNeverOlder
  <1> QED BY <1>1, DedupInvariant, PTL

\* One step keeps the entry with its holder: a key is acquired only where no holder
\* is left (KeyInv), a restored or deleted one has no owner.
LEMMA OwnerInvStep ==
    ASSUME SafeFaults, TTLCoversHandler, TypeOK, DurableInv, DedupInv, OwnerInv, [Next]_vars
    PROVE  OwnerInv'
  <1> USE ConstantsAssumption DEF DedupInv, KeyInv, OwnerInv, TimingInv, Span, Holder, ApartInv, SafeFaults, TTLCoversHandler,
          DurableInv, TypeOK, BeforeCommit, Owning, Finished, Labels, Entry, Answer, OrderStatus
  <1>1. ASSUME NEW r \in Requests, Begin(r) PROVE OwnerInv'
    BY <1>1 DEF Begin, Goto, Until
  <1>2. ASSUME NEW r \in Requests, Acquire(r) PROVE OwnerInv'
    BY <1>2 DEF Acquire, SetProcessing, Goto
  <1>3. ASSUME NEW r \in Requests, AcquireReplyLost(r) PROVE OwnerInv'
    BY <1>3 DEF AcquireReplyLost, SetProcessing, Return, Forget, Goto, locals
  <1>4. ASSUME NEW r \in Requests, AcquireExisting(r) PROVE OwnerInv'
    BY <1>4 DEF AcquireExisting, Return, Forget, Goto, locals
  <1>5. ASSUME NEW r \in Requests, DiscardGarbled(r) PROVE OwnerInv'
    BY <1>5 DEF DiscardGarbled, Absent, Return, Forget, Goto
  <1>6. ASSUME NEW r \in Requests, tryRecoverOrderFromProcessing(r) PROVE OwnerInv'
    BY <1>6 DEF tryRecoverOrderFromProcessing, RecoveryCandidates, Return, Forget, Goto, Until
  <1>7. ASSUME NEW r \in Requests, FailBeforeAcquire(r) PROVE OwnerInv'
    BY <1>7 DEF FailBeforeAcquire, Return, Forget, Goto
  <1>8. ASSUME NEW r \in Requests, checkRateLimit(r) PROVE OwnerInv'
    BY <1>8 DEF checkRateLimit, Goto, Until
  <1>9. ASSUME NEW r \in Requests, validateMarket(r) PROVE OwnerInv'
    BY <1>9 DEF validateMarket, Goto, locals
  <1>10. ASSUME NEW r \in Requests, FailBeforeSave(r) PROVE OwnerInv'
    BY <1>10 DEF FailBeforeSave, Goto, Until
  <1>11. ASSUME NEW r \in Requests, SaveOrder(r) PROVE OwnerInv'
    BY <1>11 DEF SaveOrder, Goto, locals
  <1>12. ASSUME NEW r \in Requests, ProduceOrderCreated(r) PROVE OwnerInv'
    BY <1>12 DEF ProduceOrderCreated, Goto, Until
  <1>13. ASSUME NEW r \in Requests, commitTransaction(r) PROVE OwnerInv'
    BY <1>13 DEF commitTransaction, ApplyTransaction, Goto, Until
  <1>14. ASSUME NEW r \in Requests, FailTransaction(r) PROVE OwnerInv'
    BY <1>14 DEF FailTransaction, ApplyTransaction, Goto, Until
  <1>15. ASSUME NEW r \in Requests, rollbackTransaction(r) PROVE OwnerInv'
    BY <1>15 DEF rollbackTransaction, Goto, Until
  <1>16. ASSUME NEW r \in Requests, failCleanup(r) PROVE OwnerInv'
    BY <1>16 DEF failCleanup, Absent, Return, Forget, Goto
  <1>17. ASSUME NEW r \in Requests, CompleteIdempotency(r) PROVE OwnerInv'
    BY <1>17 DEF CompleteIdempotency, SetCompleted, Return, Forget, Goto, locals
  <1>18. ASSUME NEW r \in Requests, RestoreExpiredKey(r) PROVE OwnerInv'
    BY <1>18 DEF RestoreExpiredKey, SetRestored, Return, Forget, Goto
  <1>19. ASSUME NEW r \in Requests, CompleteAttemptFails(r) PROVE OwnerInv'
    BY <1>19 DEF CompleteAttemptFails, SetCompleted, SetRestored, AfterFailedAttempt,
          RetryComplete, Return, Forget, Goto
  <1>20. ASSUME NEW r \in Requests, Crash(r) PROVE OwnerInv'
    BY <1>20 DEF Crash, Forget, Goto
  <1>21. ASSUME NEW r \in Requests, CancelOrder(r) PROVE OwnerInv'
    BY <1>21 DEF CancelOrder, requestVars
  <1>22. (\A r \in Requests : ~Resend(r)) /\ ~ForeignValue
    BY ONLY SafeFaults, NoStrangers
  <1>23. CASE RateWindowEnds
    BY <1>23 DEF RateWindowEnds, requestVars
  <1>24. CASE Tick
    BY <1>24 DEF Tick, Absent, requestVars
  <1>25. CASE UNCHANGED vars
    BY <1>25 DEF vars, requestVars
  <1> QED
    BY ONLY [Next]_vars, <1>1, <1>2, <1>3, <1>4, <1>5, <1>6, <1>7, <1>8, <1>9, <1>10, <1>11,
       <1>12, <1>13, <1>14, <1>15, <1>16, <1>17, <1>18, <1>19, <1>20, <1>21,
       <1>22, <1>23, <1>24, <1>25 DEF Next, Handler

\* Under the same conditions the DEL of failCleanup, which names no owner, never
\* frees the key that another attempt has acquired: a request cleans up while its
\* own acquisition is younger than the TTL.
THEOREM CleanupFreesOwnKey ==
    ASSUME SafeFaults, TTLCoversHandler
    PROVE  Spec => []CleanupSparesOthers
  <1>1. Init => OwnerInv
    BY DEF Init, OwnerInv, Absent
  <1>2. TypeOK /\ DurableInv /\ DedupInv /\ OwnerInv /\ [Next]_vars => OwnerInv'
    BY OwnerInvStep
  <1>3. TypeOK /\ DedupInv /\ OwnerInv => CleanupSparesOthers
    <2> SUFFICES ASSUME TypeOK, DedupInv, OwnerInv, NEW r \in Requests, pc[r] = "cleanup"
                 PROVE  idem.owner \in {r, NoOrder}
      BY DEF CleanupSparesOthers
    <2>1. clock < acquiredAt[r] + RequestTTL
      BY CleanupInTime DEF DedupInv
    <2> QED BY <2>1 DEF OwnerInv, Holder, Owning
  <1> QED BY <1>1, <1>2, <1>3, TypeCorrect, DurableInvariant, DedupInvariant, PTL DEF Spec

\* Under the same conditions two successful answers name one order, unless the
\* orders were taken in charge the TTL apart: durable answers name orders, and
\* orders are apart.
THEOREM RepeatedAnswersAgree ==
    ASSUME SafeFaults, TTLCoversHandler
    PROVE  Spec => []AnswersAgree
  <1>1. SuccessIsDurable /\ DedupWithinTTL => AnswersAgree
    BY DEF SuccessIsDurable, Durable, DedupWithinTTL, AnswersAgree
  <1> QED BY <1>1, SuccessDurable, NoDuplicateWithinTTL, PTL
=============================================================================
