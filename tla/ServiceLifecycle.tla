-------------------------- MODULE ServiceLifecycle --------------------------
(***************************************************************************)
(* The life of one process, of the order or of the spot service: fx starts *)
(* the hooks of lifecycle.go in order, and stops them in reverse when a    *)
(* signal comes or a start fails.  In between the goroutines that the hooks *)
(* have started work with what other hooks own: the pool and the Redis     *)
(* client, the Kafka producer client, the queue of market block tasks.     *)
(*                                                                         *)
(* fx is external: it runs one hook at a time, gives up and ends the       *)
(* process when the context of the start or the stop is done, and does not *)
(* begin the next hook after that.  Tracing and the listener hold nothing  *)
(* that another part waits for and are left out.                           *)
(***************************************************************************)
EXTENDS Integers, Sequences, FiniteSets

CONSTANTS
    Services,          \* which of "order" and "spot" the process may be
    Requests,          \* unary calls of clients
    Watchers,          \* health Watch streams of clients
    QueueSize,         \* marketBlockQueueSize
    SuccessThreshold, FailureThreshold, \* health.*_threshold
    MaxStreak,         \* bound on the streaks of the readiness monitor
    MaxStray,          \* bound on messages whose publisher has given up
    MaxFaults          \* bound on panics and failed runs

ASSUME LifecycleAssumption ==
    /\ Services \subseteq {"order", "spot"}
    /\ QueueSize \in Nat \ {0}
    /\ SuccessThreshold \in Nat \ {0} /\ FailureThreshold \in Nat \ {0}
    /\ MaxStreak \in Nat \ {0} /\ MaxStray \in Nat /\ MaxFaults \in Nat
    /\ IsFiniteSet(Requests) /\ IsFiniteSet(Watchers)

\* The hooks in the order in which fx starts them.
Infrastructure == 1
Metrics == 2
Producer == 3
OutboxWorker == 4
Loop == 5            \* the Kafka consumer of order, the market poller of spot
Readiness == 6
BlockWorkers == 7    \* Start and Close of OrderService; spot has none
GRPCServer == 8
Hooks == 1 .. 8

Routines == {OutboxWorker, Loop, Readiness, BlockWorkers}
Publishers == {OutboxWorker, Loop}

VARIABLES
    service,
    phase,       \* of the process
    started,     \* hooks that are started and not yet stopped (numStarted of fx)
    waiting,     \* the OnStop of hook number started is under way
    expired,     \* the context of the start or of the stop is done
    signalled,   \* SIGTERM has come: it also cancels app_ctx
    cancelled,   \* hooks whose own context is cancelled
    closed,      \* hooks that have begun to close what they own
    alive,       \* hooks whose goroutines run
    backoff,     \* the Loop waits for its next run
    sends,       \* what the publish of each publisher is doing
    stray,       \* messages in the client whose publisher has given up
    drained,     \* runAckLoop has ended
    queue,       \* tasks in marketBlockQueue
    rpc,         \* each call and stream
    checks,      \* results of the last readiness checks, newest first
    serving, successStreak, failureStreak, \* the fields of ReadinessMonitor
    status,      \* what the health server says
    faults

fxVars == <<phase, started, waiting, expired, signalled>>
routineVars == <<cancelled, alive, backoff>>
producerVars == <<sends, stray, drained>>
serverVars == <<queue, rpc>>
healthVars == <<checks, serving, successStreak, failureStreak, status>>
vars == <<service, fxVars, closed, routineVars, producerVars, serverVars, healthVars, faults>>

Init ==
    /\ service \in Services
    /\ phase = "starting" /\ started = 0 /\ waiting = FALSE /\ expired = FALSE
    /\ signalled = FALSE
    /\ cancelled = {} /\ closed = {} /\ alive = {} /\ backoff = FALSE
    /\ sends = [p \in Publishers |-> "none"] /\ stray = 0 /\ drained = FALSE
    /\ queue = 0 /\ rpc = [r \in Requests \union Watchers |-> "new"]
    /\ checks = <<>> /\ serving = FALSE /\ successStreak = 0 /\ failureStreak = 0
    /\ status = "NOT_SERVING"
    /\ faults = 0

\* The context of a goroutine is a child of app_ctx, with a cancel of its hook.
Done(g) == signalled \/ g \in cancelled

Running == phase # "exited"

-----------------------------------------------------------------------------
(* The readiness monitor. *)

Remember(ok) ==
    LET longer == <<ok>> \o checks
        most == SuccessThreshold + FailureThreshold
    IN  checks' = SubSeq(longer, 1, IF Len(longer) > most THEN most ELSE Len(longer))

RequireReady ==
    /\ Remember("ok")
    /\ successStreak' = 1 /\ failureStreak' = 0
    /\ serving' = TRUE /\ status' = "SERVING"

\* Seeded variant for checking: the thresholds are exceeded, not reached.
ProbeOneMore ==
    /\ Running /\ Readiness \in alive
    /\ \/ /\ failureStreak < MaxStreak
          /\ Remember("failed")
          /\ failureStreak' = failureStreak + 1 /\ successStreak' = 0
          /\ serving' = (serving /\ failureStreak' <= FailureThreshold)
       \/ /\ successStreak < MaxStreak
          /\ Remember("ok")
          /\ successStreak' = successStreak + 1 /\ failureStreak' = 0
          /\ serving' = (serving \/ successStreak' > SuccessThreshold)
    /\ status' = IF serving' THEN "SERVING" ELSE "NOT_SERVING"
    /\ UNCHANGED <<service, fxVars, closed, routineVars, producerVars, serverVars, faults>>

probe ==
    /\ Running /\ Readiness \in alive
    /\ \/ /\ failureStreak < MaxStreak
          /\ Remember("failed")
          /\ failureStreak' = failureStreak + 1 /\ successStreak' = 0
          /\ \/ /\ serving /\ failureStreak' >= FailureThreshold
                /\ serving' = FALSE /\ status' = "NOT_SERVING"
             \/ /\ ~ (serving /\ failureStreak' >= FailureThreshold)
                /\ UNCHANGED <<serving, status>>
       \/ /\ successStreak < MaxStreak
          /\ Remember("ok")
          /\ successStreak' = successStreak + 1 /\ failureStreak' = 0
          /\ \/ /\ ~ serving /\ successStreak' >= SuccessThreshold
                /\ serving' = TRUE /\ status' = "SERVING"
             \/ /\ serving \/ successStreak' < SuccessThreshold
                /\ UNCHANGED <<serving, status>>
    /\ UNCHANGED <<service, fxVars, closed, routineVars, producerVars, serverVars, faults>>

-----------------------------------------------------------------------------
(* fx: start and stop. *)

\* The next OnStart succeeds.
StartHook ==
    /\ phase = "starting" /\ ~ expired /\ started < GRPCServer
    /\ started' = started + 1
    /\ alive' = alive \union ({started'} \intersect
                   (IF service = "order" THEN Routines ELSE Routines \ {BlockWorkers}))
    /\ IF started' = Readiness THEN RequireReady ELSE UNCHANGED healthVars
    /\ UNCHANGED <<service, phase, waiting, expired, signalled, closed, cancelled, backoff,
                   producerVars, serverVars, faults>>

\* The next OnStart fails: the address of the metrics is taken, poller.Init
\* fails or a dependency is not ready.  fx stops what it has started, under the
\* same context.
FailStart ==
    /\ phase = "starting" /\ ~ expired
    /\ started + 1 \in {Metrics, Readiness} \union (IF service = "spot" THEN {Loop} ELSE {})
    /\ phase' = "stopping"
    /\ UNCHANGED <<service, started, waiting, expired, signalled, closed, routineVars,
                   producerVars, serverVars, healthVars, faults>>

\* SIGTERM.
Signal ==
    /\ Running /\ ~ signalled
    /\ signalled' = TRUE
    /\ UNCHANGED <<service, phase, started, waiting, expired, closed, routineVars, producerVars,
                   serverVars, healthVars, faults>>

\* All hooks are started: fx waits for the signal.
StartDone ==
    /\ phase = "starting" /\ ~ expired /\ started = GRPCServer
    /\ phase' = "running"
    /\ UNCHANGED <<service, started, waiting, expired, signalled, closed, routineVars, producerVars,
                   serverVars, healthVars, faults>>

BeginStop ==
    /\ phase = "running" /\ signalled
    /\ phase' = "stopping"
    /\ UNCHANGED <<service, started, waiting, expired, signalled, closed, routineVars,
                   producerVars, serverVars, healthVars, faults>>

Expire ==
    /\ phase \in {"starting", "stopping"} /\ ~ expired
    /\ expired' = TRUE
    /\ UNCHANGED <<service, phase, started, waiting, signalled, closed, routineVars,
                   producerVars, serverVars, healthVars, faults>>

\* Seeded variant for checking: OnStop waits for its goroutine without cancel().
StopWithoutCancel ==
    /\ phase = "stopping" /\ ~ waiting /\ ~ expired /\ started > 0
    /\ waiting' = TRUE
    /\ closed' = closed \union ({started} \ {OutboxWorker, Loop, Readiness})
    /\ UNCHANGED <<service, phase, started, expired, signalled, routineVars, producerVars,
                   serverVars, healthVars, faults>>

\* The next OnStop begins: it cancels the context of its goroutine, or begins to
\* close what it owns.
StopHook ==
    /\ phase = "stopping" /\ ~ waiting /\ ~ expired /\ started > 0
    /\ waiting' = TRUE
    /\ cancelled' = cancelled \union ({started} \intersect {OutboxWorker, Loop, Readiness})
    /\ closed' = closed \union ({started} \ {OutboxWorker, Loop, Readiness})
    /\ UNCHANGED <<service, phase, started, expired, signalled, alive, backoff, producerVars,
                   serverVars, healthVars, faults>>

\* Seeded variant for checking: OnStop does not wait for done.
StoppedAfterCancel(h) ==
    /\ h = BlockWorkers => h \notin alive
    /\ h = Producer => drained
    /\ h = GRPCServer => \A r \in Requests \union Watchers : rpc[r] # "running"

\* What the OnStop of a hook waits for.
Stopped(h) ==
    /\ h \in Routines => h \notin alive
    /\ h = Producer => drained
    /\ h = GRPCServer => \A r \in Requests \union Watchers : rpc[r] # "running"

\* The OnStop returns.  healthServer.Shutdown comes last in its hook.
EndStop ==
    /\ waiting /\ Running
    /\ Stopped(started)
    /\ waiting' = FALSE /\ started' = started - 1
    /\ status' = IF started = Readiness THEN "NOT_SERVING" ELSE status
    /\ UNCHANGED <<service, phase, expired, signalled, closed, routineVars, producerVars,
                   serverVars, checks, serving, successStreak, failureStreak, faults>>

\* The OnStop returns because its context is done.
AbandonStop ==
    /\ waiting /\ Running /\ expired
    /\ started \in Routines
    /\ waiting' = FALSE /\ started' = started - 1
    /\ UNCHANGED <<service, phase, expired, signalled, closed, routineVars, producerVars,
                   serverVars, healthVars, faults>>

\* The process ends: all hooks are stopped, or fx does not wait any longer.
Exit ==
    /\ Running
    /\ \/ phase = "stopping" /\ started = 0 /\ ~ waiting
       \/ expired
    /\ phase' = "exited"
    /\ UNCHANGED <<service, started, waiting, expired, signalled, closed, routineVars,
                   producerVars, serverVars, healthVars, faults>>

-----------------------------------------------------------------------------
(* The goroutines. *)

\* Run returns after its context is done: Watch, the outbox worker, the consumer
\* or the poller, also out of its backoff.
Return(g) ==
    /\ Running /\ g \in alive
    /\ Done(g)
    /\ g \in Publishers => sends[g] = "none"
    /\ alive' = alive \ {g}
    /\ backoff' = (backoff /\ g # Loop)
    /\ UNCHANGED <<service, fxVars, closed, cancelled, producerVars, serverVars, healthVars, faults>>

\* The outbox worker panics and is not started again.
OutboxPanics ==
    /\ Running /\ OutboxWorker \in alive /\ faults < MaxFaults
    /\ faults' = faults + 1
    /\ sends[OutboxWorker] = "none"
    /\ alive' = alive \ {OutboxWorker}
    /\ UNCHANGED <<service, fxVars, closed, cancelled, backoff, producerVars, serverVars, healthVars>>

\* The consumer or the poller panics or fails, and waits for restart_backoff.
LoopFails ==
    /\ Running /\ Loop \in alive /\ ~ backoff /\ ~ Done(Loop) /\ faults < MaxFaults
    /\ faults' = faults + 1
    /\ sends[Loop] = "none"
    /\ backoff' = TRUE
    /\ UNCHANGED <<service, fxVars, closed, cancelled, alive, producerVars, serverVars, healthVars>>

LoopRestarts ==
    /\ Running /\ backoff
    /\ backoff' = FALSE
    /\ UNCHANGED <<service, fxVars, closed, cancelled, alive, producerVars, serverVars, healthVars, faults>>

\* publish up to the wait: ctx.Err, then the select of enqueue, which may also see
\* that the client is closing.
publish(p) ==
    /\ Running /\ p \in alive /\ sends[p] = "none" /\ ~ Done(p)
    /\ p = Loop => service = "order" /\ ~ backoff
    /\ sends' \in {[sends EXCEPT ![p] = "waiting"]} \union
                 (IF Producer \in closed THEN {sends} ELSE {})
    /\ UNCHANGED <<service, fxVars, closed, routineVars, stray, drained, serverVars, healthVars, faults>>

\* runAckLoop passes an answer of Kafka on.
Ack(p) ==
    /\ Running /\ sends[p] = "waiting"
    /\ sends' = [sends EXCEPT ![p] = "answered"]
    /\ UNCHANGED <<service, fxVars, closed, routineVars, stray, drained, serverVars, healthVars, faults>>

\* It takes an answer that nobody waits for any longer.
AckStray ==
    /\ Running /\ stray > 0
    /\ stray' = stray - 1
    /\ UNCHANGED <<service, fxVars, closed, routineVars, sends, drained, serverVars, healthVars, faults>>

\* waitPublishResult: the answer, or the context of the call is done; the message
\* stays in the client.
waitPublishResult(p) ==
    /\ Running
    /\ \/ /\ sends[p] = "answered"
          /\ UNCHANGED stray
       \/ /\ sends[p] = "waiting" /\ stray < MaxStray
          /\ ~ Done(p) => p = OutboxWorker
          /\ stray' = stray + 1
    /\ sends' = [sends EXCEPT ![p] = "none"]
    /\ UNCHANGED <<service, fxVars, closed, routineVars, drained, serverVars, healthVars, faults>>

\* Seeded variant for checking: runAckLoop ends with closing, not with the channels.
DrainAtOnce ==
    /\ Running /\ Producer \in closed /\ ~ drained
    /\ drained' = TRUE
    /\ UNCHANGED <<service, fxVars, closed, routineVars, sends, stray, serverVars, healthVars, faults>>

\* AsyncClose lets the messages in the client go first; then runAckLoop ends.
Drain ==
    /\ Running /\ Producer \in closed /\ ~ drained
    /\ stray = 0 /\ \A p \in Publishers : sends[p] # "waiting"
    /\ drained' = TRUE
    /\ UNCHANGED <<service, fxVars, closed, routineVars, sends, stray, serverVars, healthVars, faults>>

-----------------------------------------------------------------------------
(* The gRPC server and the market block workers. *)

Accept(r) ==
    /\ Running /\ started = GRPCServer /\ GRPCServer \notin closed
    /\ rpc[r] = "new"
    /\ rpc' = [rpc EXCEPT ![r] = "running"]
    /\ UNCHANGED <<service, fxVars, closed, routineVars, producerVars, queue, healthVars, faults>>

\* Seeded variant for checking: the queue is appended to, not a bounded channel.
HandleUnbounded(r) ==
    /\ Running /\ rpc[r] = "running" /\ service = "order" /\ BlockWorkers \notin closed
    /\ queue' = queue + 1
    /\ UNCHANGED <<service, fxVars, closed, routineVars, producerVars, rpc, healthVars, faults>>

\* synchronizeMarketBlockAsync in a handler; a task more or none.
Handle(r) ==
    /\ Running /\ rpc[r] = "running" /\ service = "order"
    /\ BlockWorkers \notin closed /\ queue < QueueSize
    /\ queue' = queue + 1
    /\ UNCHANGED <<service, fxVars, closed, routineVars, producerVars, rpc, healthVars, faults>>

\* A handler returns, within its own timeout; a stream ends when its client goes,
\* or when Stop follows a GracefulStop that took too long.
Finish(r) ==
    /\ Running /\ rpc[r] = "running"
    /\ rpc' = [rpc EXCEPT ![r] = "done"]
    /\ UNCHANGED <<service, fxVars, closed, routineVars, producerVars, queue, healthVars, faults>>

RunTask ==
    /\ Running /\ BlockWorkers \in alive /\ queue > 0
    /\ queue' = queue - 1
    /\ UNCHANGED <<service, fxVars, closed, routineVars, producerVars, rpc, healthVars, faults>>

\* The queue is closed and empty: range ends.
WorkersEnd ==
    /\ Running /\ BlockWorkers \in alive /\ BlockWorkers \in closed /\ queue = 0
    /\ alive' = alive \ {BlockWorkers}
    /\ UNCHANGED <<service, fxVars, closed, cancelled, backoff, producerVars, serverVars, healthVars, faults>>

-----------------------------------------------------------------------------
Fx == StartHook \/ FailStart \/ StartDone \/ BeginStop \/ StopHook \/ EndStop
      \/ AbandonStop \/ Exit

Next ==
    \/ Fx \/ Signal \/ Expire
    \/ probe
    \/ \E g \in Routines \ {BlockWorkers} : Return(g)
    \/ OutboxPanics \/ LoopFails \/ LoopRestarts
    \/ \E p \in Publishers : publish(p) \/ Ack(p) \/ waitPublishResult(p)
    \/ AckStray \/ Drain
    \/ \E r \in Requests \union Watchers : Accept(r) \/ Finish(r)
    \/ \E r \in Requests : Handle(r)
    \/ RunTask \/ WorkersEnd

Spec == Init /\ [][Next]_vars

\* The scheduler runs every goroutine, Kafka answers each message or the client
\* fails it, and a handler ends within its timeout.  Nothing ends a stream of the
\* health service but its client, and no timeout is taken to be reached.
FairSpec ==
    /\ Spec
    /\ WF_vars(Fx)
    /\ \A g \in Routines \ {BlockWorkers} : WF_vars(Return(g))
    /\ \A p \in Publishers : WF_vars(Ack(p)) /\ WF_vars(waitPublishResult(p))
    /\ WF_vars(AckStray) /\ WF_vars(Drain)
    /\ \A r \in Requests : WF_vars(Finish(r))
    /\ WF_vars(RunTask) /\ WF_vars(WorkersEnd)

-----------------------------------------------------------------------------
(* Properties. *)

Results == {"ok", "failed"}

\* Every variable has its type: the queue of block tasks holds no more than its
\* capacity, and a hook is never stopped more often than it was started.
TypeOK ==
    /\ service \in Services
    /\ phase \in {"starting", "running", "stopping", "exited"}
    /\ started \in 0 .. GRPCServer
    /\ waiting \in BOOLEAN /\ expired \in BOOLEAN /\ signalled \in BOOLEAN
    /\ cancelled \subseteq Hooks /\ closed \subseteq Hooks /\ alive \subseteq Routines
    /\ backoff \in BOOLEAN
    /\ sends \in [Publishers -> {"none", "waiting", "answered"}]
    /\ stray \in 0 .. MaxStray /\ drained \in BOOLEAN
    /\ queue \in 0 .. QueueSize
    /\ rpc \in [Requests \union Watchers -> {"new", "running", "done"}]
    /\ checks \in Seq(Results) /\ Len(checks) <= SuccessThreshold + FailureThreshold
    /\ serving \in BOOLEAN
    /\ successStreak \in 0 .. MaxStreak /\ failureStreak \in 0 .. MaxStreak
    /\ status \in {"SERVING", "NOT_SERVING"}
    /\ faults \in 0 .. MaxFaults

\* While a goroutine, a publish or a call is under way, what it works with is not
\* being closed: the hooks wait for their goroutines, and fx begins no hook after
\* one that has timed out.  A publish into a closed sarama client would panic, and
\* a query of a closed pool would fail.
NothingUsedAfterClose ==
    /\ alive # {} => Infrastructure \notin closed
    /\ \A p \in Publishers : p \in alive \/ sends[p] # "none" =>
           closed \intersect {Infrastructure, Producer} = {}
    /\ \A r \in Requests \union Watchers : rpc[r] = "running" =>
           closed \intersect {Infrastructure, BlockWorkers} = {}

\* A process that ends before its timeout leaves nothing behind: every goroutine
\* and call has ended, every message handed to the Kafka client has its answer,
\* every block task has run, and the health server says NOT_SERVING.
ExitIsClean ==
    phase = "exited" /\ ~ expired =>
        /\ alive = {} /\ queue = 0
        /\ stray = 0 /\ \A p \in Publishers : sends[p] = "none"
        /\ \A r \in Requests \union Watchers : rpc[r] # "running"
        /\ status = "NOT_SERVING"

\* The newest n checks all had this result.
Newest(n, result) == Len(checks) >= n /\ \A i \in 1 .. n : checks[i] = result

\* The health server does not say SERVING when the last failure_threshold checks
\* have failed, and while the monitor runs it does not say NOT_SERVING when the last
\* success_threshold have succeeded.
StatusFollowsChecks ==
    /\ status = "SERVING" => ~ Newest(FailureThreshold, "failed")
    /\ Readiness \in alive /\ status = "NOT_SERVING" => ~ Newest(SuccessThreshold, "ok")

\* While the process serves, the status changes only with a whole threshold of equal
\* results behind it: checks that alternate do not make it flap.
StatusNeedsEvidence ==
    [][probe /\ status' # status =>
          IF status' = "SERVING" THEN Newest(SuccessThreshold, "ok")'
                                 ELSE Newest(FailureThreshold, "failed")']_vars

\* A stop, or the rollback of a failed start, ends on its own: no hook waits for
\* another, nor for something that only its timeout ends.  The one exception is a
\* health stream, which keeps GracefulStop waiting until its client leaves.
StopsOnItsOwn ==
    phase = "stopping" ~>
        phase = "exited" \/ \E w \in Watchers : rpc[w] = "running"
=============================================================================
