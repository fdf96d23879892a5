----------------------- MODULE ServiceLifecycleProofs -----------------------
(***************************************************************************)
(* Proofs about ServiceLifecycle.  The safety properties rest on three     *)
(* facts about fx and the hooks: a goroutine that runs belongs to a hook   *)
(* that is still started, unless the timeout is over (UseInv); what is     *)
(* being closed is never below the hook that is being stopped (FxInv); and *)
(* the streaks of the monitor are exact (StreakInv).                       *)
(***************************************************************************)
EXTENDS ServiceLifecycle, TLAPS

most == SuccessThreshold + FailureThreshold

FxInv ==
    /\ phase \in {"starting", "running"} => closed = {} /\ ~ waiting
    /\ phase = "running" => started = GRPCServer
    /\ waiting => started > 0
    /\ phase = "exited" => expired \/ (started = 0 /\ ~ waiting)
    /\ \A h \in closed : h >= started

UseInv ==
    /\ \A g \in alive : g <= started \/ (expired /\ phase # "starting")
    /\ \A h \in closed, g \in alive : g <= h
    /\ \A p \in Publishers : sends[p] # "none" => p \in alive
    /\ \A r \in Requests \union Watchers : rpc[r] = "running" => started = GRPCServer
    /\ service = "order" /\ started >= BlockWorkers /\ BlockWorkers \notin closed
          => BlockWorkers \in alive
    /\ queue > 0 => BlockWorkers \in alive
    /\ stray > 0 => expired \/ started >= Producer
    /\ drained => Producer \in closed
    /\ stray > 0 => ~ drained
    /\ status = "SERVING" => expired \/ started >= Readiness

StreakInv ==
    /\ phase = "starting" /\ started < Readiness => checks = <<>>
    /\ \A i \in 1 .. Len(checks) : /\ i <= failureStreak => checks[i] = "failed"
                                   /\ i <= successStreak => checks[i] = "ok"
    /\ failureStreak <= Len(checks) \/ Len(checks) = most
    /\ successStreak <= Len(checks) \/ Len(checks) = most
    /\ failureStreak < Len(checks) => checks[failureStreak + 1] = "ok"
    /\ successStreak < Len(checks) => checks[successStreak + 1] = "failed"
    /\ serving => failureStreak < FailureThreshold
    /\ ~ serving => successStreak < SuccessThreshold
    /\ status = "SERVING" => serving
    /\ Readiness \in alive /\ serving => status = "SERVING"

IInv == TypeOK /\ FxInv /\ UseInv /\ StreakInv

USE DEF Infrastructure, Metrics, Producer, OutboxWorker, Loop, Readiness, BlockWorkers,
        GRPCServer, Hooks, Routines, Publishers

-----------------------------------------------------------------------------
(* Init. *)

\* The process begins in a state of the invariant.
LEMMA InitIInv == Init => IInv
<1> SUFFICES ASSUME Init PROVE IInv
    OBVIOUS
<1> USE LifecycleAssumption
<1>1. checks = <<>> /\ Len(checks) = 0 /\ checks \in Seq(Results)
    BY DEF Init
<1>2. TypeOK
  <2>1. /\ sends \in [Publishers -> {"none", "waiting", "answered"}]
        /\ rpc \in [Requests \union Watchers -> {"new", "running", "done"}]
    BY DEF Init
  <2>2. Len(checks) <= SuccessThreshold + FailureThreshold
    BY <1>1
  <2>3. waiting \in BOOLEAN /\ expired \in BOOLEAN /\ signalled \in BOOLEAN
        /\ backoff \in BOOLEAN /\ drained \in BOOLEAN /\ serving \in BOOLEAN
    BY DEF Init
  <2>4. cancelled \subseteq Hooks /\ closed \subseteq Hooks /\ alive \subseteq Routines
    BY DEF Init
  <2>5. started \in 0 .. GRPCServer /\ stray \in 0 .. MaxStray /\ queue \in 0 .. QueueSize
    BY DEF Init
  <2>6. successStreak \in 0 .. MaxStreak /\ failureStreak \in 0 .. MaxStreak
        /\ faults \in 0 .. MaxFaults
    BY DEF Init
  <2>7. service \in Services /\ phase \in {"starting", "running", "stopping", "exited"}
        /\ status \in {"SERVING", "NOT_SERVING"}
    BY DEF Init
  <2> QED BY <1>1, <2>1, <2>2, <2>3, <2>4, <2>5, <2>6, <2>7 DEF TypeOK
<1>3. FxInv
    BY DEF Init, FxInv
<1>4. UseInv
    BY DEF Init, UseInv
<1>5. StreakInv
    BY <1>1 DEF Init, StreakInv
<1> QED BY <1>2, <1>3, <1>4, <1>5 DEF IInv

-----------------------------------------------------------------------------
(* The readiness monitor. *)

\* Remember puts one result before the results that are kept.
LEMMA RememberPrepends ==
    ASSUME TypeOK, NEW ok \in Results, Remember(ok)
    PROVE  /\ checks' \in Seq(Results)
           /\ Len(checks') = IF Len(checks) + 1 > most THEN most ELSE Len(checks) + 1
           /\ Len(checks') > 0
           /\ checks'[1] = ok
           /\ \A i \in 2 .. Len(checks') : checks'[i] = checks[i - 1]
<1> USE LifecycleAssumption
<1> DEFINE longer == <<ok>> \o checks
           kept == IF Len(longer) > most THEN most ELSE Len(longer)
<1>1. checks \in Seq(Results) /\ Len(checks) \in Nat /\ Len(checks) <= most /\ most \in Nat
      /\ most > 0
    BY DEF TypeOK, most
<1>2. /\ longer \in Seq(Results) /\ Len(longer) = Len(checks) + 1
      /\ longer[1] = ok /\ \A i \in 2 .. Len(longer) : longer[i] = checks[i - 1]
    BY <1>1
<1>3. checks' = SubSeq(longer, 1, kept)
    BY DEF Remember, most
<1> HIDE DEF longer
<1>4. kept \in 1 .. Len(longer)
    BY <1>1, <1>2
<1>5. /\ SubSeq(longer, 1, kept) \in Seq(Results)
      /\ Len(SubSeq(longer, 1, kept)) = kept
      /\ \A i \in 1 .. kept : SubSeq(longer, 1, kept)[i] = longer[i]
    BY <1>2, <1>4
<1>6. /\ checks' \in Seq(Results) /\ Len(checks') = kept
      /\ \A i \in 1 .. kept : checks'[i] = longer[i]
    BY <1>3, <1>5
<1> QED BY <1>1, <1>2, <1>4, <1>6

-----------------------------------------------------------------------------
(* Actions. *)

\* The invariant of the monitor survives a step that leaves the monitor alone.
LEMMA StreakKept ==
    ASSUME StreakInv, UNCHANGED healthVars, alive' \subseteq alive,
           phase' = "starting" => phase = "starting" /\ started' = started
    PROVE  StreakInv'
BY DEF StreakInv, healthVars

\* The invariant of fx survives a step of something else.
LEMMA FxKept ==
    ASSUME FxInv, UNCHANGED fxVars, UNCHANGED closed
    PROVE  FxInv'
BY DEF FxInv, fxVars

\* A signal keeps the invariant.
LEMMA SignalKeeps ==
    ASSUME IInv, Signal
    PROVE  IInv'
<1> USE LifecycleAssumption DEF IInv
<1>1. TypeOK'
    BY DEF TypeOK, Signal, Running, Done, fxVars, routineVars, producerVars, serverVars, healthVars
<1>2. FxInv'
    BY DEF FxInv, TypeOK, Signal, Running, Done, fxVars, routineVars, producerVars, serverVars, healthVars
<1>3. UseInv'
    BY DEF UseInv, FxInv, TypeOK, Signal, Running, Done, fxVars, routineVars, producerVars, serverVars, healthVars
<1>4. StreakInv'
    BY StreakKept DEF Signal, Running, Done, TypeOK, fxVars, routineVars, producerVars, serverVars, healthVars
<1> QED BY <1>1, <1>2, <1>3, <1>4

\* The begin of a stop keeps the invariant.
LEMMA BeginStopKeeps ==
    ASSUME IInv, BeginStop
    PROVE  IInv'
<1> USE LifecycleAssumption DEF IInv
<1>1. TypeOK'
    BY DEF TypeOK, BeginStop, Running, Done, fxVars, routineVars, producerVars, serverVars, healthVars
<1>2. FxInv'
    BY DEF FxInv, TypeOK, BeginStop, Running, Done, fxVars, routineVars, producerVars, serverVars, healthVars
<1>3. UseInv'
    BY DEF UseInv, FxInv, TypeOK, BeginStop, Running, Done, fxVars, routineVars, producerVars, serverVars, healthVars
<1>4. StreakInv'
    BY StreakKept DEF BeginStop, Running, Done, TypeOK, fxVars, routineVars, producerVars, serverVars, healthVars
<1> QED BY <1>1, <1>2, <1>3, <1>4

\* The end of the start keeps the invariant.
LEMMA StartDoneKeeps ==
    ASSUME IInv, StartDone
    PROVE  IInv'
<1> USE LifecycleAssumption DEF IInv
<1>1. TypeOK'
    BY DEF TypeOK, StartDone, Running, Done, fxVars, routineVars, producerVars, serverVars, healthVars
<1>2. FxInv'
    BY DEF FxInv, TypeOK, StartDone, Running, Done, fxVars, routineVars, producerVars, serverVars, healthVars
<1>3. UseInv'
    BY DEF UseInv, FxInv, TypeOK, StartDone, Running, Done, fxVars, routineVars, producerVars, serverVars, healthVars
<1>4. StreakInv'
    BY StreakKept DEF StartDone, Running, Done, TypeOK, fxVars, routineVars, producerVars, serverVars, healthVars
<1> QED BY <1>1, <1>2, <1>3, <1>4

\* A failed start keeps the invariant.
LEMMA FailStartKeeps ==
    ASSUME IInv, FailStart
    PROVE  IInv'
<1> USE LifecycleAssumption DEF IInv
<1>1. TypeOK'
    BY DEF TypeOK, FailStart, Running, Done, fxVars, routineVars, producerVars, serverVars, healthVars
<1>2. FxInv'
    BY DEF FxInv, TypeOK, FailStart, Running, Done, fxVars, routineVars, producerVars, serverVars, healthVars
<1>3. UseInv'
    BY DEF UseInv, FxInv, TypeOK, FailStart, Running, Done, fxVars, routineVars, producerVars, serverVars, healthVars
<1>4. StreakInv'
    BY StreakKept DEF FailStart, Running, Done, TypeOK, fxVars, routineVars, producerVars, serverVars, healthVars
<1> QED BY <1>1, <1>2, <1>3, <1>4

\* The end of a timeout keeps the invariant.
LEMMA ExpireKeeps ==
    ASSUME IInv, Expire
    PROVE  IInv'
<1> USE LifecycleAssumption DEF IInv
<1>1. TypeOK'
    BY DEF TypeOK, Expire, Running, Done, fxVars, routineVars, producerVars, serverVars, healthVars
<1>2. FxInv'
    BY DEF FxInv, TypeOK, Expire, Running, Done, fxVars, routineVars, producerVars, serverVars, healthVars
<1>3. UseInv'
    BY DEF UseInv, FxInv, TypeOK, Expire, Running, Done, fxVars, routineVars, producerVars, serverVars, healthVars
<1>4. StreakInv'
    BY StreakKept DEF Expire, Running, Done, TypeOK, fxVars, routineVars, producerVars, serverVars, healthVars
<1> QED BY <1>1, <1>2, <1>3, <1>4

\* The end of the process keeps the invariant.
LEMMA ExitKeeps ==
    ASSUME IInv, Exit
    PROVE  IInv'
<1> USE LifecycleAssumption DEF IInv
<1>1. TypeOK'
    BY DEF TypeOK, Exit, Running, Done, fxVars, routineVars, producerVars, serverVars, healthVars
<1>2. FxInv'
    BY DEF FxInv, TypeOK, Exit, Running, Done, fxVars, routineVars, producerVars, serverVars, healthVars
<1>3. UseInv'
    BY DEF UseInv, FxInv, TypeOK, Exit, Running, Done, fxVars, routineVars, producerVars, serverVars, healthVars
<1>4. StreakInv'
    BY StreakKept DEF Exit, Running, Done, TypeOK, fxVars, routineVars, producerVars, serverVars, healthVars
<1> QED BY <1>1, <1>2, <1>3, <1>4

\* The begin of an OnStop keeps the invariant.
LEMMA StopHookKeeps ==
    ASSUME IInv, StopHook
    PROVE  IInv'
<1> USE LifecycleAssumption DEF IInv
<1>1. TypeOK'
    BY DEF TypeOK, StopHook, Running, Done, fxVars, routineVars, producerVars, serverVars, healthVars
<1>2. FxInv'
    BY DEF FxInv, TypeOK, StopHook, Running, Done, fxVars, routineVars, producerVars, serverVars, healthVars
<1>3. UseInv'
    BY DEF UseInv, FxInv, TypeOK, StopHook, Running, Done, fxVars, routineVars, producerVars, serverVars, healthVars
<1>4. StreakInv'
    BY StreakKept DEF StopHook, Running, Done, TypeOK, fxVars, routineVars, producerVars, serverVars, healthVars
<1> QED BY <1>1, <1>2, <1>3, <1>4

\* An OnStop that times out keeps the invariant.
LEMMA AbandonStopKeeps ==
    ASSUME IInv, AbandonStop
    PROVE  IInv'
<1> USE LifecycleAssumption DEF IInv
<1>1. TypeOK'
  <2>1. started' \in 0 .. GRPCServer
    BY DEF FxInv, TypeOK, AbandonStop
  <2> QED BY <2>1 DEF TypeOK, AbandonStop, fxVars, routineVars, producerVars, serverVars, healthVars
<1>2. FxInv'
    BY DEF FxInv, TypeOK, AbandonStop, Running, Done, fxVars, routineVars, producerVars, serverVars, healthVars
<1>3. UseInv'
    BY DEF UseInv, FxInv, TypeOK, AbandonStop, Running, Done, fxVars, routineVars, producerVars, serverVars, healthVars
<1>4. StreakInv'
    BY StreakKept DEF FxInv, AbandonStop, Running, Done, TypeOK, fxVars, routineVars, producerVars, serverVars, healthVars
<1> QED BY <1>1, <1>2, <1>3, <1>4

\* A goroutine that ends keeps the invariant.
LEMMA ReturnKeeps ==
    ASSUME IInv, NEW g \in Routines \ {BlockWorkers}, Return(g)
    PROVE  IInv'
<1> USE LifecycleAssumption DEF IInv
<1>1. TypeOK'
    BY DEF TypeOK, Return, Running, Done, fxVars, routineVars, producerVars, serverVars, healthVars
<1>2. FxInv'
    BY FxKept DEF Return, Running, Done
<1>3. UseInv'
    BY DEF UseInv, FxInv, TypeOK, Return, Running, Done, fxVars, routineVars, producerVars, serverVars, healthVars
<1>4. StreakInv'
    BY StreakKept DEF Return, Running, Done, TypeOK, fxVars, routineVars, producerVars, serverVars, healthVars
<1> QED BY <1>1, <1>2, <1>3, <1>4

\* A panic of the outbox worker keeps the invariant.
LEMMA OutboxPanicsKeeps ==
    ASSUME IInv, OutboxPanics
    PROVE  IInv'
<1> USE LifecycleAssumption DEF IInv
<1>1. TypeOK'
    BY DEF TypeOK, OutboxPanics, Running, Done, fxVars, routineVars, producerVars, serverVars, healthVars
<1>2. FxInv'
    BY FxKept DEF OutboxPanics, Running, Done
<1>3. UseInv'
    BY DEF UseInv, FxInv, TypeOK, OutboxPanics, Running, Done, fxVars, routineVars, producerVars, serverVars, healthVars
<1>4. StreakInv'
    BY StreakKept DEF OutboxPanics, Running, Done, TypeOK, fxVars, routineVars, producerVars, serverVars, healthVars
<1> QED BY <1>1, <1>2, <1>3, <1>4

\* A failed run of the consumer or the poller keeps the invariant.
LEMMA LoopFailsKeeps ==
    ASSUME IInv, LoopFails
    PROVE  IInv'
<1> USE LifecycleAssumption DEF IInv
<1>1. TypeOK'
    BY DEF TypeOK, LoopFails, Running, Done, fxVars, routineVars, producerVars, serverVars, healthVars
<1>2. FxInv'
    BY FxKept DEF LoopFails, Running, Done
<1>3. UseInv'
    BY DEF UseInv, FxInv, TypeOK, LoopFails, Running, Done, fxVars, routineVars, producerVars, serverVars, healthVars
<1>4. StreakInv'
    BY StreakKept DEF LoopFails, Running, Done, TypeOK, fxVars, routineVars, producerVars, serverVars, healthVars
<1> QED BY <1>1, <1>2, <1>3, <1>4

\* Its next run keeps the invariant.
LEMMA LoopRestartsKeeps ==
    ASSUME IInv, LoopRestarts
    PROVE  IInv'
<1> USE LifecycleAssumption DEF IInv
<1>1. TypeOK'
    BY DEF TypeOK, LoopRestarts, Running, Done, fxVars, routineVars, producerVars, serverVars, healthVars
<1>2. FxInv'
    BY FxKept DEF LoopRestarts, Running, Done
<1>3. UseInv'
    BY DEF UseInv, FxInv, TypeOK, LoopRestarts, Running, Done, fxVars, routineVars, producerVars, serverVars, healthVars
<1>4. StreakInv'
    BY StreakKept DEF LoopRestarts, Running, Done, TypeOK, fxVars, routineVars, producerVars, serverVars, healthVars
<1> QED BY <1>1, <1>2, <1>3, <1>4

\* A publish keeps the invariant.
LEMMA PublishKeeps ==
    ASSUME IInv, NEW p \in Publishers, publish(p)
    PROVE  IInv'
<1> USE LifecycleAssumption DEF IInv
<1>1. TypeOK'
    BY DEF TypeOK, publish, Running, Done, fxVars, routineVars, producerVars, serverVars, healthVars
<1>2. FxInv'
    BY FxKept DEF publish, Running, Done
<1>3. UseInv'
    BY DEF UseInv, FxInv, TypeOK, publish, Running, Done, fxVars, routineVars, producerVars, serverVars, healthVars
<1>4. StreakInv'
    BY StreakKept DEF publish, Running, Done, TypeOK, fxVars, routineVars, producerVars, serverVars, healthVars
<1> QED BY <1>1, <1>2, <1>3, <1>4

\* An answer of Kafka keeps the invariant.
LEMMA AckKeeps ==
    ASSUME IInv, NEW p \in Publishers, Ack(p)
    PROVE  IInv'
<1> USE LifecycleAssumption DEF IInv
<1>1. TypeOK'
    BY DEF TypeOK, Ack, Running, Done, fxVars, routineVars, producerVars, serverVars, healthVars
<1>2. FxInv'
    BY FxKept DEF Ack, Running, Done
<1>3. UseInv'
    BY DEF UseInv, FxInv, TypeOK, Ack, Running, Done, fxVars, routineVars, producerVars, serverVars, healthVars
<1>4. StreakInv'
    BY StreakKept DEF Ack, Running, Done, TypeOK, fxVars, routineVars, producerVars, serverVars, healthVars
<1> QED BY <1>1, <1>2, <1>3, <1>4

\* A late answer of Kafka keeps the invariant.
LEMMA AckStrayKeeps ==
    ASSUME IInv, AckStray
    PROVE  IInv'
<1> USE LifecycleAssumption DEF IInv
<1>1. TypeOK'
    BY DEF TypeOK, AckStray, Running, Done, fxVars, routineVars, producerVars, serverVars, healthVars
<1>2. FxInv'
    BY FxKept DEF AckStray, Running, Done
<1>3. UseInv'
    BY DEF UseInv, FxInv, TypeOK, AckStray, Running, Done, fxVars, routineVars, producerVars, serverVars, healthVars
<1>4. StreakInv'
    BY StreakKept DEF AckStray, Running, Done, TypeOK, fxVars, routineVars, producerVars, serverVars, healthVars
<1> QED BY <1>1, <1>2, <1>3, <1>4

\* The end of a publish keeps the invariant.
LEMMA WaitPublishResultKeeps ==
    ASSUME IInv, NEW p \in Publishers, waitPublishResult(p)
    PROVE  IInv'
<1> USE LifecycleAssumption DEF IInv
<1>1. TypeOK'
    BY DEF TypeOK, waitPublishResult, Running, Done, fxVars, routineVars, producerVars, serverVars, healthVars
<1>2. FxInv'
    BY FxKept DEF waitPublishResult, Running, Done
<1>3. UseInv'
    BY DEF UseInv, FxInv, TypeOK, waitPublishResult, Running, Done, fxVars, routineVars, producerVars, serverVars, healthVars
<1>4. StreakInv'
    BY StreakKept DEF waitPublishResult, Running, Done, TypeOK, fxVars, routineVars, producerVars, serverVars, healthVars
<1> QED BY <1>1, <1>2, <1>3, <1>4

\* The end of the producer client keeps the invariant.
LEMMA DrainKeeps ==
    ASSUME IInv, Drain
    PROVE  IInv'
<1> USE LifecycleAssumption DEF IInv
<1>1. TypeOK'
    BY DEF TypeOK, Drain, Running, Done, fxVars, routineVars, producerVars, serverVars, healthVars
<1>2. FxInv'
    BY FxKept DEF Drain, Running, Done
<1>3. UseInv'
    BY DEF UseInv, FxInv, TypeOK, Drain, Running, Done, fxVars, routineVars, producerVars, serverVars, healthVars
<1>4. StreakInv'
    BY StreakKept DEF Drain, Running, Done, TypeOK, fxVars, routineVars, producerVars, serverVars, healthVars
<1> QED BY <1>1, <1>2, <1>3, <1>4

\* A new call keeps the invariant.
LEMMA AcceptKeeps ==
    ASSUME IInv, NEW r \in Requests \union Watchers, Accept(r)
    PROVE  IInv'
<1> USE LifecycleAssumption DEF IInv
<1>1. TypeOK'
    BY DEF TypeOK, Accept, Running, Done, fxVars, routineVars, producerVars, serverVars, healthVars
<1>2. FxInv'
    BY FxKept DEF Accept, Running, Done
<1>3. UseInv'
    BY DEF UseInv, FxInv, TypeOK, Accept, Running, Done, fxVars, routineVars, producerVars, serverVars, healthVars
<1>4. StreakInv'
    BY StreakKept DEF Accept, Running, Done, TypeOK, fxVars, routineVars, producerVars, serverVars, healthVars
<1> QED BY <1>1, <1>2, <1>3, <1>4

\* A block task keeps the invariant.
LEMMA HandleKeeps ==
    ASSUME IInv, NEW r \in Requests, Handle(r)
    PROVE  IInv'
<1> USE LifecycleAssumption DEF IInv
<1>1. TypeOK'
    BY DEF TypeOK, Handle, Running, Done, fxVars, routineVars, producerVars, serverVars, healthVars
<1>2. FxInv'
    BY FxKept DEF Handle, Running, Done
<1>3. UseInv'
    BY DEF UseInv, FxInv, TypeOK, Handle, Running, Done, fxVars, routineVars, producerVars, serverVars, healthVars
<1>4. StreakInv'
    BY StreakKept DEF Handle, Running, Done, TypeOK, fxVars, routineVars, producerVars, serverVars, healthVars
<1> QED BY <1>1, <1>2, <1>3, <1>4

\* The end of a call keeps the invariant.
LEMMA FinishKeeps ==
    ASSUME IInv, NEW r \in Requests \union Watchers, Finish(r)
    PROVE  IInv'
<1> USE LifecycleAssumption DEF IInv
<1>1. TypeOK'
    BY DEF TypeOK, Finish, Running, Done, fxVars, routineVars, producerVars, serverVars, healthVars
<1>2. FxInv'
    BY FxKept DEF Finish, Running, Done
<1>3. UseInv'
    BY DEF UseInv, FxInv, TypeOK, Finish, Running, Done, fxVars, routineVars, producerVars, serverVars, healthVars
<1>4. StreakInv'
    BY StreakKept DEF Finish, Running, Done, TypeOK, fxVars, routineVars, producerVars, serverVars, healthVars
<1> QED BY <1>1, <1>2, <1>3, <1>4

\* The run of a block task keeps the invariant.
LEMMA RunTaskKeeps ==
    ASSUME IInv, RunTask
    PROVE  IInv'
<1> USE LifecycleAssumption DEF IInv
<1>1. TypeOK'
    BY DEF TypeOK, RunTask, Running, Done, fxVars, routineVars, producerVars, serverVars, healthVars
<1>2. FxInv'
    BY FxKept DEF RunTask, Running, Done
<1>3. UseInv'
    BY DEF UseInv, FxInv, TypeOK, RunTask, Running, Done, fxVars, routineVars, producerVars, serverVars, healthVars
<1>4. StreakInv'
    BY StreakKept DEF RunTask, Running, Done, TypeOK, fxVars, routineVars, producerVars, serverVars, healthVars
<1> QED BY <1>1, <1>2, <1>3, <1>4

\* The end of the block workers keeps the invariant.
LEMMA WorkersEndKeeps ==
    ASSUME IInv, WorkersEnd
    PROVE  IInv'
<1> USE LifecycleAssumption DEF IInv
<1>1. TypeOK'
    BY DEF TypeOK, WorkersEnd, Running, Done, fxVars, routineVars, producerVars, serverVars, healthVars
<1>2. FxInv'
    BY FxKept DEF WorkersEnd, Running, Done
<1>3. UseInv'
    BY DEF UseInv, FxInv, TypeOK, WorkersEnd, Running, Done, fxVars, routineVars, producerVars, serverVars, healthVars
<1>4. StreakInv'
    BY StreakKept DEF WorkersEnd, Running, Done, TypeOK, fxVars, routineVars, producerVars, serverVars, healthVars
<1> QED BY <1>1, <1>2, <1>3, <1>4

\* What an OnStop waits for has happened when it ends.
LEMMA EndStopKeeps ==
    ASSUME IInv, EndStop
    PROVE  IInv'
<1> USE LifecycleAssumption DEF IInv
<1>0. started \in 1 .. GRPCServer /\ phase = "stopping" /\ started' = started - 1
    BY DEF EndStop, FxInv, TypeOK, Running
<1>1. TypeOK'
  <2>1. started' \in 0 .. GRPCServer /\ status' \in {"SERVING", "NOT_SERVING"}
    BY <1>0 DEF EndStop, TypeOK
  <2> QED BY <2>1 DEF TypeOK, EndStop, fxVars, routineVars, producerVars, serverVars, healthVars
<1>2. FxInv'
    BY <1>0 DEF EndStop, FxInv, TypeOK
<1>3. UseInv'
  <2>1. started # Producer \/ stray = 0
    BY <1>0 DEF EndStop, Stopped, UseInv, TypeOK
  <2> QED BY <1>0, <2>1 DEF EndStop, Stopped, UseInv, FxInv, TypeOK, routineVars, producerVars, serverVars
<1>4. StreakInv'
    BY <1>0 DEF EndStop, Stopped, StreakInv, routineVars
<1> QED BY <1>1, <1>2, <1>3, <1>4

\* An OnStart that succeeds keeps the invariant; that of the monitor makes its
\* first check.
LEMMA StartHookKeeps ==
    ASSUME IInv, StartHook
    PROVE  IInv'
<1> USE LifecycleAssumption DEF IInv
<1>0. /\ started \in 0 .. 7 /\ started' = started + 1 /\ phase = "starting" /\ phase' = phase
      /\ ~ expired /\ ~ waiting /\ closed = {} /\ closed' = {}
      /\ alive' \subseteq Routines /\ alive' \subseteq alive \union {started'}
    BY DEF StartHook, TypeOK, FxInv
<1>1. CASE started' = Readiness
  <2>1. RequireReady /\ checks = <<>>
    BY <1>0, <1>1 DEF StartHook, StreakInv
  <2>2. /\ checks' \in Seq(Results) /\ Len(checks') = 1 /\ checks'[1] = "ok"
    <3>1. Len(checks) = 0 /\ Remember("ok") /\ "ok" \in Results /\ most \in Nat \ {0}
      BY <2>1 DEF RequireReady, Results, most
    <3> QED BY <3>1, RememberPrepends
  <2>3. TypeOK'
    BY <1>0, <2>1, <2>2 DEF TypeOK, StartHook, RequireReady, producerVars, serverVars
  <2>4. FxInv'
    BY <1>0 DEF FxInv, StartHook
  <2>5. UseInv'
    BY <1>0, <1>1, <2>1 DEF UseInv, StartHook, RequireReady, TypeOK, producerVars, serverVars
  <2>6. StreakInv'
    BY <1>0, <1>1, <2>1, <2>2 DEF StreakInv, RequireReady
  <2> QED BY <2>3, <2>4, <2>5, <2>6
<1>2. CASE started' # Readiness
  <2>1. UNCHANGED healthVars
    BY <1>2 DEF StartHook
  <2>2. TypeOK'
    BY <1>0, <2>1 DEF TypeOK, StartHook, healthVars, producerVars, serverVars
  <2>3. FxInv'
    BY <1>0 DEF FxInv, StartHook
  <2>4. UseInv'
    BY <1>0, <1>2, <2>1 DEF UseInv, StartHook, TypeOK, healthVars, producerVars, serverVars
  <2>5. StreakInv'
    BY <1>0, <1>2, <2>1 DEF StreakInv, healthVars
  <2> QED BY <2>2, <2>3, <2>4, <2>5
<1> QED BY <1>1, <1>2

\* A check keeps the invariant: the streak that goes on is counted, the other one
\* starts again.
LEMMA ProbeKeeps ==
    ASSUME IInv, probe
    PROVE  IInv'
<1> USE LifecycleAssumption DEF IInv
<1>0. /\ UNCHANGED <<service, fxVars, closed, routineVars, producerVars, serverVars, faults>>
      /\ Readiness \in alive /\ Running
    BY DEF probe
<1>t. /\ started \in Nat /\ failureStreak \in Nat /\ successStreak \in Nat /\ Len(checks) \in Nat
      /\ Len(checks) <= most /\ most \in Nat /\ most >= 1 /\ serving \in BOOLEAN
      /\ (status = "SERVING" <=> serving) /\ status \in {"SERVING", "NOT_SERVING"}
    BY <1>0 DEF TypeOK, most, StreakInv
<1>s. ~ (phase = "starting" /\ started < Readiness)
    BY <1>0, <1>t DEF UseInv
<1>1. ASSUME Remember("failed"), failureStreak < MaxStreak,
             failureStreak' = failureStreak + 1, successStreak' = 0,
             serving' \in BOOLEAN, serving' <=> (serving /\ failureStreak' < FailureThreshold),
             status' \in {"SERVING", "NOT_SERVING"}, status' = "SERVING" <=> serving'
      PROVE  IInv'
  <2>1. /\ checks' \in Seq(Results)
        /\ Len(checks') = IF Len(checks) + 1 > most THEN most ELSE Len(checks) + 1
        /\ Len(checks') > 0 /\ checks'[1] = "failed"
        /\ \A i \in 2 .. Len(checks') : checks'[i] = checks[i - 1]
    BY <1>1, RememberPrepends DEF Results
  <2>2. TypeOK'
    <3>1. Len(checks') <= SuccessThreshold + FailureThreshold
      BY <1>t, <2>1 DEF most
    <3> QED BY <1>0, <1>1, <2>1, <3>1 DEF TypeOK, fxVars, routineVars, producerVars, serverVars
  <2>3. FxInv'
    BY <1>0, FxKept
  <2>4. UseInv'
    BY <1>0, <1>1, <1>t DEF UseInv, fxVars, routineVars, producerVars, serverVars
  <2>5. StreakInv'
    <3>1. /\ phase' = "starting" /\ started' < Readiness => checks' = <<>>
      BY <1>0, <1>s DEF fxVars
    <3>2. \A i \in 1 .. Len(checks') : /\ i <= failureStreak' => checks'[i] = "failed"
                                       /\ i <= successStreak' => checks'[i] = "ok"
      BY <1>1, <1>t, <2>1, SMTT(30) DEF StreakInv
    <3>3. /\ failureStreak' <= Len(checks') \/ Len(checks') = most
          /\ successStreak' <= Len(checks') \/ Len(checks') = most
      BY <1>1, <1>t, <2>1 DEF StreakInv
    <3>4. failureStreak' < Len(checks') => checks'[failureStreak' + 1] = "ok"
      BY <1>1, <1>t, <2>1 DEF StreakInv
    <3>5. successStreak' < Len(checks') => checks'[successStreak' + 1] = "failed"
      BY <1>1, <1>t, <2>1
    <3>6. /\ serving' => failureStreak' < FailureThreshold
          /\ ~ serving' => successStreak' < SuccessThreshold
          /\ status' = "SERVING" => serving'
          /\ serving' => status' = "SERVING"
      BY <1>1, <1>t
    <3>7. most' = most
      BY DEF most
    <3> QED BY <3>1, <3>2, <3>3, <3>4, <3>5, <3>6, <3>7 DEF StreakInv
  <2> QED BY <2>2, <2>3, <2>4, <2>5
<1>2. ASSUME Remember("ok"), successStreak < MaxStreak,
             successStreak' = successStreak + 1, failureStreak' = 0,
             serving' \in BOOLEAN, serving' <=> (serving \/ successStreak' >= SuccessThreshold),
             status' \in {"SERVING", "NOT_SERVING"}, status' = "SERVING" <=> serving'
      PROVE  IInv'
  <2>1. /\ checks' \in Seq(Results)
        /\ Len(checks') = IF Len(checks) + 1 > most THEN most ELSE Len(checks) + 1
        /\ Len(checks') > 0 /\ checks'[1] = "ok"
        /\ \A i \in 2 .. Len(checks') : checks'[i] = checks[i - 1]
    BY <1>2, RememberPrepends DEF Results
  <2>2. TypeOK'
    <3>1. Len(checks') <= SuccessThreshold + FailureThreshold
      BY <1>t, <2>1 DEF most
    <3> QED BY <1>0, <1>2, <2>1, <3>1 DEF TypeOK, fxVars, routineVars, producerVars, serverVars
  <2>3. FxInv'
    BY <1>0, FxKept
  <2>4. UseInv'
    BY <1>0, <1>2, <1>t DEF UseInv, fxVars, routineVars, producerVars, serverVars
  <2>5. StreakInv'
    <3>1. /\ phase' = "starting" /\ started' < Readiness => checks' = <<>>
      BY <1>0, <1>s DEF fxVars
    <3>2. \A i \in 1 .. Len(checks') : /\ i <= failureStreak' => checks'[i] = "failed"
                                       /\ i <= successStreak' => checks'[i] = "ok"
      BY <1>2, <1>t, <2>1 DEF StreakInv
    <3>3. /\ failureStreak' <= Len(checks') \/ Len(checks') = most
          /\ successStreak' <= Len(checks') \/ Len(checks') = most
      BY <1>2, <1>t, <2>1 DEF StreakInv
    <3>4. failureStreak' < Len(checks') => checks'[failureStreak' + 1] = "ok"
      BY <1>2, <1>t, <2>1
    <3>5. successStreak' < Len(checks') => checks'[successStreak' + 1] = "failed"
      BY <1>2, <1>t, <2>1 DEF StreakInv
    <3>6. /\ serving' => failureStreak' < FailureThreshold
          /\ ~ serving' => successStreak' < SuccessThreshold
          /\ status' = "SERVING" => serving'
          /\ serving' => status' = "SERVING"
      BY <1>2, <1>t
    <3>7. most' = most
      BY DEF most
    <3> QED BY <3>1, <3>2, <3>3, <3>4, <3>5, <3>6, <3>7 DEF StreakInv
  <2> QED BY <2>2, <2>3, <2>4, <2>5
<1>3. CASE failureStreak' = failureStreak + 1 /\ Remember("failed") /\ failureStreak < MaxStreak
           /\ successStreak' = 0
  <2>0. \/ /\ serving /\ failureStreak' >= FailureThreshold
           /\ serving' = FALSE /\ status' = "NOT_SERVING"
        \/ /\ ~ (serving /\ failureStreak' >= FailureThreshold)
           /\ serving' = serving /\ status' = status
    BY <1>3, <1>t DEF probe
  <2>n. failureStreak' \in Nat
    BY <1>3, <1>t
  <2>1. /\ serving' \in BOOLEAN /\ (serving' <=> (serving /\ failureStreak' < FailureThreshold))
        /\ status' \in {"SERVING", "NOT_SERVING"} /\ (status' = "SERVING" <=> serving')
    <3>1. failureStreak' >= FailureThreshold <=> ~ (failureStreak' < FailureThreshold)
      BY <2>n
    <3>2. serving' \in BOOLEAN /\ status' \in {"SERVING", "NOT_SERVING"}
      BY <2>0, <1>t
    <3>3. status' = "SERVING" <=> serving'
      BY <2>0, <1>t
    <3>4. CASE serving /\ failureStreak' >= FailureThreshold
      BY <2>0, <3>1, <3>2, <3>3, <3>4
    <3>5. CASE ~ (serving /\ failureStreak' >= FailureThreshold)
      <4>1. serving' = serving
        BY <2>0, <3>5
      <4>2. serving' <=> serving
        BY <4>1
      <4> QED BY <3>1, <3>2, <3>3, <3>5, <4>2
    <3> QED BY <3>1, <3>4, <3>5
  <2> QED BY <1>1, <1>3, <2>1
<1>4. CASE successStreak' = successStreak + 1 /\ Remember("ok") /\ successStreak < MaxStreak
           /\ failureStreak' = 0
  <2>0. \/ /\ ~ serving /\ successStreak' >= SuccessThreshold
           /\ serving' = TRUE /\ status' = "SERVING"
        \/ /\ serving \/ successStreak' < SuccessThreshold
           /\ serving' = serving /\ status' = status
    BY <1>4, <1>t DEF probe
  <2>n. successStreak' \in Nat
    BY <1>4, <1>t
  <2>1. /\ serving' \in BOOLEAN /\ (serving' <=> (serving \/ successStreak' >= SuccessThreshold))
        /\ status' \in {"SERVING", "NOT_SERVING"} /\ (status' = "SERVING" <=> serving')
    <3>1. successStreak' < SuccessThreshold <=> ~ (successStreak' >= SuccessThreshold)
      BY <2>n
    <3>2. serving' \in BOOLEAN /\ status' \in {"SERVING", "NOT_SERVING"}
      BY <2>0, <1>t
    <3>3. status' = "SERVING" <=> serving'
      BY <2>0, <1>t
    <3>4. CASE ~ serving /\ successStreak' >= SuccessThreshold
      BY <2>0, <3>1, <3>2, <3>3, <3>4
    <3>5. CASE serving \/ successStreak' < SuccessThreshold
      <4>1. serving' = serving
        BY <2>0, <3>1, <3>5
      <4>2. serving' <=> serving
        BY <4>1
      <4> QED BY <3>1, <3>2, <3>3, <3>5, <4>2
    <3> QED BY <3>1, <3>4, <3>5
  <2> QED BY <1>2, <1>4, <2>1
<1> QED BY <1>3, <1>4 DEF probe
-----------------------------------------------------------------------------
(* The theorems. *)

\* A step that changes nothing keeps the invariant.
LEMMA StutterKeeps == ASSUME IInv, UNCHANGED vars PROVE IInv'
<1> USE DEF IInv, vars
<1>1. TypeOK'
    BY DEF TypeOK, fxVars, routineVars, producerVars, serverVars, healthVars
<1>2. FxInv'
    BY FxKept
<1>3. UseInv'
    BY DEF UseInv, fxVars, routineVars, producerVars, serverVars, healthVars
<1>4. StreakInv'
    BY StreakKept DEF fxVars, routineVars
<1> QED BY <1>1, <1>2, <1>3, <1>4

\* IInv is an invariant of the process.
THEOREM Invariance == Spec => []IInv
<1>1. IInv /\ [Next]_vars => IInv'
  <2> SUFFICES ASSUME IInv, [Next]_vars PROVE IInv'
    OBVIOUS
  <2>1. CASE StartHook
    BY <2>1, StartHookKeeps
  <2>2. CASE FailStart
    BY <2>2, FailStartKeeps
  <2>3. CASE StartDone
    BY <2>3, StartDoneKeeps
  <2>4. CASE BeginStop
    BY <2>4, BeginStopKeeps
  <2>5. CASE StopHook
    BY <2>5, StopHookKeeps
  <2>6. CASE EndStop
    BY <2>6, EndStopKeeps
  <2>7. CASE AbandonStop
    BY <2>7, AbandonStopKeeps
  <2>8. CASE Exit
    BY <2>8, ExitKeeps
  <2>9. CASE Signal
    BY <2>9, SignalKeeps
  <2>10. CASE Expire
    BY <2>10, ExpireKeeps
  <2>11. CASE probe
    BY <2>11, ProbeKeeps
  <2>12. CASE OutboxPanics
    BY <2>12, OutboxPanicsKeeps
  <2>13. CASE LoopFails
    BY <2>13, LoopFailsKeeps
  <2>14. CASE LoopRestarts
    BY <2>14, LoopRestartsKeeps
  <2>15. CASE AckStray
    BY <2>15, AckStrayKeeps
  <2>16. CASE Drain
    BY <2>16, DrainKeeps
  <2>17. CASE RunTask
    BY <2>17, RunTaskKeeps
  <2>18. CASE WorkersEnd
    BY <2>18, WorkersEndKeeps
  <2>19. CASE \E g \in Routines \ {BlockWorkers} : Return(g)
    BY <2>19, ReturnKeeps
  <2>20. CASE \E p \in Publishers : publish(p)
    BY <2>20, PublishKeeps
  <2>21. CASE \E p \in Publishers : Ack(p)
    BY <2>21, AckKeeps
  <2>22. CASE \E p \in Publishers : waitPublishResult(p)
    BY <2>22, WaitPublishResultKeeps
  <2>23. CASE \E r \in Requests \union Watchers : Accept(r)
    BY <2>23, AcceptKeeps
  <2>24. CASE \E r \in Requests \union Watchers : Finish(r)
    BY <2>24, FinishKeeps
  <2>25. CASE \E r \in Requests : Handle(r)
    BY <2>25, HandleKeeps
  <2>26. CASE UNCHANGED vars
    BY <2>26, StutterKeeps
  <2> QED
    BY <2>1, <2>2, <2>3, <2>4, <2>5, <2>6, <2>7, <2>8, <2>9, <2>10, <2>11, <2>12,
       <2>13, <2>14, <2>15, <2>16, <2>17, <2>18, <2>19, <2>20, <2>21, <2>22, <2>23, <2>24,
       <2>25, <2>26 DEF Next, Fx
<1> QED BY InitIInv, <1>1, PTL DEF Spec

\* The variables keep their types: the queue of block tasks never holds more than
\* its capacity, and no hook is stopped that is not started.
THEOREM TypeCorrect == Spec => []TypeOK
<1>1. IInv => TypeOK
    BY DEF IInv
<1> QED BY Invariance, <1>1, PTL

\* No goroutine, publish or call works with something that is being closed.
THEOREM CloseIsLast == Spec => []NothingUsedAfterClose
<1>1. ASSUME IInv PROVE NothingUsedAfterClose
  <2> USE <1>1 DEF IInv
  <2>1. ASSUME NEW g \in alive PROVE Infrastructure \notin closed
    <3>1. g \in Routines
      BY DEF TypeOK
    <3> QED BY <3>1 DEF UseInv
  <2>2. ASSUME NEW p \in Publishers, p \in alive \/ sends[p] # "none"
        PROVE  closed \intersect {Infrastructure, Producer} = {}
    BY <2>2 DEF UseInv, TypeOK
  <2>3. ASSUME NEW r \in Requests \union Watchers, rpc[r] = "running"
        PROVE  closed \intersect {Infrastructure, BlockWorkers} = {}
    BY <2>3 DEF UseInv, FxInv, TypeOK
  <2> QED BY <2>1, <2>2, <2>3 DEF NothingUsedAfterClose
<1> QED BY Invariance, <1>1, PTL

\* A process that ends before its timeout leaves nothing behind.
THEOREM CleanExit == Spec => []ExitIsClean
<1>1. ASSUME IInv PROVE ExitIsClean
  <2> USE <1>1 DEF IInv
  <2> SUFFICES ASSUME phase = "exited", ~ expired
               PROVE  /\ alive = {} /\ queue = 0
                      /\ stray = 0 /\ \A p \in Publishers : sends[p] = "none"
                      /\ \A r \in Requests \union Watchers : rpc[r] # "running"
                      /\ status = "NOT_SERVING"
    BY DEF ExitIsClean
  <2>1. started = 0
    BY DEF FxInv
  <2>2. alive = {}
    BY <2>1 DEF UseInv, TypeOK
  <2> QED BY <2>1, <2>2, LifecycleAssumption DEF UseInv, TypeOK
<1> QED BY Invariance, <1>1, PTL

\* A streak shorter than n is not n equal results; a streak of n is.
LEMMA StreakIsExact ==
    ASSUME TypeOK, StreakInv
    PROVE  /\ \A n \in 1 .. most : Newest(n, "failed") <=> failureStreak >= n
           /\ \A n \in 1 .. most : Newest(n, "ok") <=> successStreak >= n
<1> USE LifecycleAssumption
<1>1. /\ failureStreak \in Nat /\ successStreak \in Nat /\ Len(checks) \in Nat
      /\ most \in Nat
    BY DEF TypeOK, most
<1>2. ASSUME NEW n \in 1 .. most PROVE Newest(n, "failed") <=> failureStreak >= n
    BY <1>1 DEF StreakInv, Newest
<1>3. ASSUME NEW n \in 1 .. most PROVE Newest(n, "ok") <=> successStreak >= n
    BY <1>1 DEF StreakInv, Newest
<1> QED BY <1>2, <1>3

\* The status of the health server follows the last checks.
THEOREM StatusIsCurrent == Spec => []StatusFollowsChecks
<1>1. ASSUME IInv PROVE StatusFollowsChecks
  <2>1. FailureThreshold \in 1 .. most /\ SuccessThreshold \in 1 .. most
    BY LifecycleAssumption DEF most
  <2>2. failureStreak \in Nat /\ successStreak \in Nat
    BY <1>1, LifecycleAssumption DEF IInv, TypeOK
  <2> QED BY <1>1, <2>1, <2>2, StreakIsExact, LifecycleAssumption
          DEF IInv, StreakInv, StatusFollowsChecks, TypeOK
<1> QED BY Invariance, <1>1, PTL

\* A check changes the status only after a whole threshold of equal results.
THEOREM StatusDoesNotFlap == Spec => StatusNeedsEvidence
<1>1. ASSUME IInv, IInv', probe, status' # status
      PROVE  IF status' = "SERVING" THEN Newest(SuccessThreshold, "ok")'
                                    ELSE Newest(FailureThreshold, "failed")'
  <2>1. FailureThreshold \in 1 .. most /\ SuccessThreshold \in 1 .. most /\ most' = most
    BY LifecycleAssumption DEF most
  <2>2. /\ \A n \in 1 .. most : failureStreak' >= n => Newest(n, "failed")'
        /\ \A n \in 1 .. most : successStreak' >= n => Newest(n, "ok")'
    <3>1. TypeOK' /\ StreakInv'
      BY <1>1 DEF IInv
    <3>2. /\ failureStreak' \in Nat /\ successStreak' \in Nat /\ Len(checks)' \in Nat
          /\ most \in Nat
      BY <3>1, LifecycleAssumption DEF TypeOK, most
    <3> QED BY <2>1, <3>1, <3>2 DEF StreakInv, Newest
  <2>3. \/ status' = "NOT_SERVING" /\ failureStreak' >= FailureThreshold
        \/ status' = "SERVING" /\ successStreak' >= SuccessThreshold
    BY <1>1 DEF probe
  <2> QED BY <2>1, <2>2, <2>3
<1>2. IInv /\ IInv' /\ [Next]_vars =>
        [probe /\ status' # status =>
            IF status' = "SERVING" THEN Newest(SuccessThreshold, "ok")'
                                   ELSE Newest(FailureThreshold, "failed")']_vars
    BY <1>1
<1> QED BY Invariance, <1>2, PTL DEF Spec, StatusNeedsEvidence
=============================================================================
