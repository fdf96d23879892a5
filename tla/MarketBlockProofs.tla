------------------------- MODULE MarketBlockProofs -------------------------
(***************************************************************************)
(* Proofs about the decision whether a market can be traded: what the key  *)
(* in Redis says is true, it falls behind for known reasons only, and no   *)
(* order comes later than its window.                                      *)
(***************************************************************************)
EXTENDS MarketBlock, TLAPS

\* Window is the sum of three bounds.
LEMMA WindowNat == Window \in Nat /\ Staleness + ServiceTimeout + ServiceTimeout = Window
  BY BlockAssumption DEF Window

\* A sequence is a function on its positions.
LEMMA SeqIsFunction ==
    ASSUME NEW S, NEW s \in Seq(S)
    PROVE  s \in [1 .. Len(s) -> S] /\ Len(s) \in Nat
  OBVIOUS

\* A function on 1 .. n is a sequence of that length.
LEMMA FunctionIsSeq ==
    ASSUME NEW S, NEW n \in Nat, NEW f \in [1 .. n -> S]
    PROVE  f \in Seq(S) /\ Len(f) = n
  OBVIOUS

\* What Append does.
LEMMA AppendFacts ==
    ASSUME NEW S, NEW s \in Seq(S), NEW e \in S, NEW t, t = Append(s, e)
    PROVE  /\ t \in Seq(S) /\ Len(t) = Len(s) + 1
           /\ t[Len(s) + 1] = e
           /\ \A n \in 1 .. Len(s) : t[n] = s[n]
  OBVIOUS

Version == [status : Status, ms : Nat]

\* The versions of the market.
LEMMA VersionTypes ==
    ASSUME TypeOK
    PROVE  Current \in Nat \ {0} /\ \A v \in 1 .. Current : history[v] \in Version
<1>1. history \in Seq(Version) /\ Current \in 1 .. MaxVersions
  BY DEF TypeOK, Version
<1>2. history \in [1 .. Current -> Version]
  BY <1>1, SeqIsFunction DEF Current
<1>3. Current \in Nat \ {0}
  BY <1>1, BlockAssumption
<1> QED
  BY <1>2, <1>3

\* What a change of the market does to its versions.
LEMMA ChangeFacts ==
    ASSUME TypeOK, NEW status \in Status, NEW later \in {0, 1}, ChangeMarket(status, later)
    PROVE  /\ history' \in Seq(Version) /\ Current' = Current + 1 /\ Current' \in 1 .. MaxVersions
           /\ \A v \in 1 .. Current : history'[v] = history[v] /\ gone'[v] = gone[v]
           /\ history'[Current'].ms >= history[Current].ms
           /\ gone' \in [1 .. Current' -> 0 .. Window + 1]
<1>1. history[Current] \in Version /\ Current \in Nat \ {0}
  BY VersionTypes
<1>2. [status |-> status, ms |-> history[Current].ms + later] \in Version
  BY <1>1 DEF Version
<1>3. history \in Seq(Version)
  BY DEF TypeOK, Version
<1>4. /\ history' \in Seq(Version) /\ Current' = Current + 1
      /\ history'[Current'] = [status |-> status, ms |-> history[Current].ms + later]
      /\ \A v \in 1 .. Current : history'[v] = history[v]
  BY <1>2, <1>3, AppendFacts DEF ChangeMarket, Current
<1>5. gone \in Seq(0 .. Window + 1) /\ Len(gone) = Current
  <2>1. gone \in [1 .. Current -> 0 .. Window + 1] /\ Current \in Nat
    BY <1>1 DEF TypeOK
  <2> HIDE DEF Current
  <2> QED
    BY <2>1, FunctionIsSeq
<1>6. 0 \in 0 .. Window + 1
  BY WindowNat
<1>7. /\ gone' \in Seq(0 .. Window + 1) /\ Len(gone') = Current + 1
      /\ \A v \in 1 .. Current : gone'[v] = gone[v]
  BY <1>5, <1>6, AppendFacts DEF ChangeMarket
<1>8. gone' \in [1 .. Current' -> 0 .. Window + 1]
  BY <1>4, <1>7, SeqIsFunction
<1>9. Current' \in 1 .. MaxVersions
  BY <1>1, <1>4, BlockAssumption DEF ChangeMarket
<1>10. history'[Current'].ms >= history[Current].ms
  BY <1>1, <1>4 DEF Version
<1> QED
  BY <1>4, <1>7, <1>8, <1>9, <1>10

-----------------------------------------------------------------------------
(* Types.                                                                  *)

\* SynchronizeState leaves the types alone, whichever version it writes.
LEMMA SynchronizeTypes ==
    ASSUME TypeOK, NEW v \in 1 .. Current, NEW isBlocked \in BOOLEAN,
           SynchronizeState(v, isBlocked)
    PROVE  /\ block' \in [ms : Nat \cup {-1}, flag : {"1", "0", "?", "none"}, of : 0 .. Current]
           /\ missed' \in BOOLEAN
           /\ faults' \in 0 .. MaxFaults
<1>1. faults' \in 0 .. MaxFaults
  BY BlockAssumption, SMTT(30) DEF SynchronizeState, Fault, TypeOK
<1>2. history[v].ms \in Nat
  BY VersionTypes DEF Version
<1>3. block' \in [ms : Nat \cup {-1}, flag : {"1", "0", "?", "none"}, of : 0 .. Current]
  <2>1. BlockOf(v, isBlocked) \in [ms : Nat \cup {-1}, flag : {"1", "0", "?", "none"}, of : 0 .. Current]
    BY <1>2 DEF BlockOf
  <2>2. NoBlock \in [ms : Nat \cup {-1}, flag : {"1", "0", "?", "none"}, of : 0 .. Current]
    BY DEF NoBlock, TypeOK
  <2>3. block' \in {block, NoBlock, BlockOf(v, isBlocked)}
    BY DEF SynchronizeState, synchronizeStateScript
  <2> QED
    BY <2>1, <2>2, <2>3 DEF TypeOK
<1>4. missed' \in BOOLEAN
  BY DEF SynchronizeState, TypeOK
<1> QED
  BY <1>1, <1>3, <1>4

\* A sent task stays inside the queue.
LEMMA SendTypes ==
    ASSUME TypeOK, NEW v \in 1 .. Current, NEW isBlocked \in BOOLEAN,
           synchronizeMarketBlockAsync(v, isBlocked)
    PROVE  queue' \in Seq(Task) /\ Len(queue') <= QueueSize
<1>1. [of |-> v, blocked |-> isBlocked] \in Task
  BY BlockAssumption DEF Task, TypeOK
<1> QED
  BY <1>1, BlockAssumption DEF synchronizeMarketBlockAsync, TypeOK

\* EndRequest leaves the types of a request alone.
LEMMA EndTypes ==
    ASSUME TypeOK, NEW r \in Requests, NEW end \in {"idle", "active"}, EndRequest(r, end), UNCHANGED history
    PROVE  /\ phase' \in [Requests -> {"idle", "active"} \cup Waiting]
           /\ blocked' \in [Requests -> BOOLEAN]
           /\ saw' \in [Requests -> 0 .. Current']
           /\ left' \in [Requests -> Nat]
  BY DEF TypeOK, EndRequest, Current

\* One step keeps the types.
LEMMA TypeStep ==
    ASSUME TypeOK, [Next]_vars, TasksAreTrue
    PROVE  TypeOK'
<1>0. ASSUME NEW status \in Status, NEW later \in {0, 1}, ChangeMarket(status, later)
      PROVE  /\ history' \in Seq(Version) /\ Current' = Current + 1 /\ Current' \in 1 .. MaxVersions
             /\ gone' \in [1 .. Current' -> 0 .. Window + 1]
  BY <1>0, ChangeFacts
<1> USE BlockAssumption DEF TypeOK
<1>1. ASSUME NEW status \in Status, NEW later \in {0, 1}, ChangeMarket(status, later) PROVE TypeOK'
  <2>1. /\ history' \in Seq(Version) /\ Current' = Current + 1 /\ Current' \in 1 .. MaxVersions
        /\ gone' \in [1 .. Current' -> 0 .. Window + 1]
    BY <1>0, <1>1
  <2>2. block' \in [ms : Nat \cup {-1}, flag : {"1", "0", "?", "none"}, of : 0 .. Current']
    BY <1>1, <2>1 DEF ChangeMarket
  <2>3. saw' \in [Requests -> 0 .. Current'] /\ announced' \subseteq 1 .. Current'
    <3>1. UNCHANGED <<saw, announced>>
      BY <1>1 DEF ChangeMarket, requestVars
    <3>2. 0 .. Current \subseteq 0 .. Current'
      BY <2>1
    <3>3. 1 .. Current \subseteq 1 .. Current'
      BY <2>1
    <3>4. saw \in [Requests -> 0 .. Current] /\ announced \subseteq 1 .. Current
      OBVIOUS
    <3> QED
      BY <3>1, <3>2, <3>3, <3>4
  <2> QED
    BY <1>1, <2>1, <2>2, <2>3 DEF ChangeMarket, queueVars, requestVars, Version
<1>2. CASE Announce
  <2>1. Current' = Current
    BY <1>2 DEF Announce, Current
  <2>2. announced' \subseteq 1 .. Current' /\ processed' \subseteq announced'
    BY <1>2, <2>1 DEF Announce, eventVars
  <2> QED
    BY <1>2, <2>1, <2>2 DEF Announce, eventVars, queueVars, requestVars
<1>3. CASE Tick
  <2>1. gone' \in [1 .. Current' -> 0 .. Window + 1]
    BY <1>3, WindowNat DEF Tick, Current
  <2>2. left' \in [Requests -> Nat]
    BY <1>3 DEF Tick
  <2> QED
    BY <1>3, <2>1, <2>2 DEF Tick, Current, eventVars, queueVars
<1>4. ASSUME Forget, UNCHANGED history
      PROVE  block' \in [ms : Nat \cup {-1}, flag : {"1", "0", "?", "none"}, of : 0 .. Current'] /\ missed' \in BOOLEAN
  BY <1>4 DEF Forget, NoBlock, Current
<1>5. CASE Expire
  BY <1>5, <1>4 DEF Expire, Current, marketVars, eventVars, queueVars, requestVars
<1>6. CASE Corrupt
  <2>1. faults' \in 0 .. MaxFaults
    BY <1>6 DEF Corrupt, Fault
  <2>2. block' \in [ms : Nat \cup {-1}, flag : {"1", "0", "?", "none"}, of : 0 .. Current]
    BY <1>6 DEF Corrupt
  <2> QED
    BY <1>6, <2>1, <2>2 DEF Corrupt, Current, marketVars, eventVars, queueVars, requestVars
<1>7. CASE Close
  BY <1>7 DEF Close, Current, marketVars, eventVars, requestVars
<1>8. ASSUME NEW v \in 1 .. Current, ProcessMarketStateChanged(v) PROVE TypeOK'
  <2>1. phase' \in [Requests -> {"idle", "active"} \cup Waiting] /\ settled' \in BOOLEAN
    BY <1>8 DEF ProcessMarketStateChanged
  <2> QED
    BY <1>8, <2>1 DEF ProcessMarketStateChanged, Current, marketVars, queueVars
<1>9. ASSUME NEW v \in 1 .. Current, trySynchronizeMarketBlockState(v) PROVE TypeOK'
  <2>1. Blocked(v) \in BOOLEAN
    BY DEF Blocked
  <2> QED
    <3>1. /\ block' \in [ms : Nat \cup {-1}, flag : {"1", "0", "?", "none"}, of : 0 .. Current]
          /\ missed' \in BOOLEAN /\ faults' \in 0 .. MaxFaults
      BY <1>9, <2>1, SynchronizeTypes, SMTT(30) DEF trySynchronizeMarketBlockState
    <3> QED
      BY <1>9, <3>1 DEF trySynchronizeMarketBlockState, Current, marketVars, queueVars, requestVars
<1>10. ASSUME NEW w \in Workers, TakeTask(w) PROVE TypeOK'
  BY <1>10, SMTT(30) DEF TakeTask, Current, marketVars, eventVars, requestVars
<1>11. ASSUME NEW w \in Workers, RunTask(w) PROVE TypeOK'
  <2>1. worker[w].of \in 1 .. Current /\ worker[w].blocked \in BOOLEAN
    BY <1>11 DEF RunTask, TasksAreTrue, IsTrueTask, Task
  <2> QED
    <3>1. /\ block' \in [ms : Nat \cup {-1}, flag : {"1", "0", "?", "none"}, of : 0 .. Current]
          /\ missed' \in BOOLEAN /\ faults' \in 0 .. MaxFaults
      BY <1>11, <2>1, SynchronizeTypes DEF RunTask
    <3> QED
      BY <1>11, <3>1 DEF RunTask, Current, marketVars, eventVars, requestVars
<1>12. ASSUME NEW r \in Requests, getMarketBlockedState(r) PROVE TypeOK'
  <2>1. phase' \in [Requests -> {"idle", "active"} \cup Waiting] /\ left' \in [Requests -> Nat]
    BY <1>12 DEF getMarketBlockedState, Waiting
  <2>2. blocked' \in [Requests -> BOOLEAN]
    BY <1>12 DEF getMarketBlockedState
  <2>3. faults' \in 0 .. MaxFaults
    BY <1>12, SMTT(30) DEF getMarketBlockedState, Fault
  <2>4. block' \in [ms : Nat \cup {-1}, flag : {"1", "0", "?", "none"}, of : 0 .. Current'] /\ missed' \in BOOLEAN
    BY <1>12, <1>4 DEF getMarketBlockedState, marketVars, Current
  <2> QED
    BY <1>12, <2>1, <2>2, <2>3, <2>4 DEF getMarketBlockedState, Current, marketVars, eventVars, queueVars
<1>13. ASSUME NEW r \in Requests, NEW v \in 1 .. Current, NEW role \in Roles, validateMarket(r, v, role)
       PROVE  TypeOK'
  <2>1. queue' \in Seq(Task) /\ Len(queue') <= QueueSize
    BY <1>13, SendTypes DEF validateMarket
  <2>2. /\ phase' \in [Requests -> {"idle", "active"} \cup Waiting] /\ blocked' \in [Requests -> BOOLEAN]
        /\ saw' \in [Requests -> 0 .. Current'] /\ left' \in [Requests -> Nat]
    <3>1. UNCHANGED history /\ Current' = Current
      BY <1>13 DEF validateMarket, marketVars, Current
    <3>2. CASE EndRequest(r, "idle")
      BY <3>1, <3>2, EndTypes
    <3>3. CASE /\ phase' = [phase EXCEPT ![r] = "validated"] /\ saw' = [saw EXCEPT ![r] = v]
               /\ UNCHANGED <<blocked, left>>
      BY <3>1, <3>3 DEF Waiting
    <3> QED
      BY <1>13, <3>2, <3>3 DEF validateMarket
  <2> QED
    BY <1>13, <2>1, <2>2 DEF validateMarket, Current, marketVars, eventVars
<1>14. ASSUME NEW r \in Requests, saveOrder(r) PROVE TypeOK'
  BY <1>14 DEF saveOrder, Waiting, Current, marketVars, eventVars, queueVars
<1>15. ASSUME NEW r \in Requests, commitTransaction(r) \/ FailRequest(r) PROVE TypeOK'
  BY <1>15, EndTypes DEF commitTransaction, FailRequest, Current, marketVars, eventVars, queueVars
<1>16. CASE UNCHANGED vars
  BY <1>16 DEF vars, Current, marketVars, eventVars, queueVars, requestVars
<1> QED
  BY <1>1, <1>2, <1>3, <1>5, <1>6, <1>7, <1>8, <1>9, <1>10, <1>11, <1>12, <1>13, <1>14, <1>15, <1>16
     DEF Next
-----------------------------------------------------------------------------
(* Versions, tasks and the key.                                            *)

\* A step appends a version or leaves all of them alone.
LEMMA HistoryGrows ==
    ASSUME TypeOK, [Next]_vars
    PROVE  /\ Current' \in Nat /\ Current <= Current'
           /\ \A v \in 1 .. Current : /\ v \in 1 .. Current'
                                      /\ history'[v] = history[v]
                                      /\ Blocked(v)' <=> Blocked(v)
<1>0. Current \in Nat \ {0}
  BY VersionTypes
<1>1. ASSUME NEW status \in Status, NEW later \in {0, 1}, ChangeMarket(status, later)
      PROVE  Current' = Current + 1 /\ \A v \in 1 .. Current : history'[v] = history[v]
  BY <1>1, ChangeFacts
<1>2. CASE UNCHANGED history
  <2>1. Current' = Current
    BY <1>2 DEF Current
  <2> QED
    BY <1>0, <1>2, <2>1 DEF Blocked
<1>3. CASE \E status \in Status, later \in {0, 1} : ChangeMarket(status, later)
  <2>1. Current' = Current + 1 /\ \A v \in 1 .. Current : history'[v] = history[v]
    BY <1>1, <1>3
  <2> QED
    BY <1>0, <2>1 DEF Blocked
<1> QED
  BY <1>2, <1>3 DEF Next, vars, marketVars, Announce, Tick, Expire, Corrupt, Close,
     ProcessMarketStateChanged, trySynchronizeMarketBlockState, TakeTask, RunTask,
     getMarketBlockedState, validateMarket, saveOrder, commitTransaction, FailRequest

\* IsTrueTask for the versions h.
TrueIn(h, task) == task.of \in 1 .. Len(h) /\ (task.blocked <=> h[task.of].status # "enabled")

\* TasksAreTrue now and after a step.
LEMMA TrueTasks ==
    /\ TasksAreTrue <=> /\ \A n \in 1 .. Len(queue) : TrueIn(history, queue[n])
                        /\ \A w \in Workers : worker[w] # NoTask => TrueIn(history, worker[w])
    /\ TasksAreTrue' <=> /\ \A n \in 1 .. Len(queue') : TrueIn(history', queue'[n])
                         /\ \A w \in Workers : worker'[w] # NoTask => TrueIn(history', worker'[w])
  BY DEF TasksAreTrue, IsTrueTask, TrueIn, Blocked, Current

\* A true task stays true.
LEMMA TaskKept ==
    ASSUME TypeOK, [Next]_vars, NEW task, TrueIn(history, task)
    PROVE  TrueIn(history', task)
<1>1. task.of \in 1 .. Current
  BY DEF TrueIn, Current
<1>2. task.of \in 1 .. Current' /\ history'[task.of] = history[task.of]
  BY <1>1, HistoryGrows
<1> QED
  BY <1>2 DEF TrueIn, Current

\* What is sent to the queue is true.
LEMMA SendTrue ==
    ASSUME TypeOK, [Next]_vars, TasksAreTrue, NEW v \in 1 .. Current, NEW isBlocked \in BOOLEAN,
           isBlocked <=> Blocked(v), synchronizeMarketBlockAsync(v, isBlocked)
    PROVE  \A n \in 1 .. Len(queue') : TrueIn(history', queue'[n])
<1> DEFINE task == [of |-> v, blocked |-> isBlocked]
<1>0. queue \in Seq(Task) /\ task \in Task
  BY BlockAssumption DEF TypeOK, Task
<1>1. TrueIn(history, task)
  BY DEF TrueIn, Blocked, Current
<1>2. TrueIn(history', task)
  BY <1>1, TaskKept
<1>3. \A n \in 1 .. Len(queue) : TrueIn(history, queue[n])
  BY TrueTasks
<1> HIDE DEF task
<1>4. CASE queue' = queue
  BY <1>3, <1>4, TaskKept
<1>5. CASE queue' = Append(queue, task)
  <2>1. /\ Len(queue') = Len(queue) + 1 /\ Len(queue) \in Nat /\ queue'[Len(queue) + 1] = task
        /\ \A n \in 1 .. Len(queue) : queue'[n] = queue[n]
    BY <1>0, <1>5, AppendFacts
  <2> SUFFICES ASSUME NEW n \in 1 .. Len(queue') PROVE TrueIn(history', queue'[n])
    OBVIOUS
  <2>2. CASE n = Len(queue) + 1
    BY <1>2, <2>1, <2>2
  <2>3. CASE n # Len(queue) + 1
    <3>1. n \in 1 .. Len(queue) /\ queue'[n] = queue[n]
      BY <2>1, <2>3
    <3> QED
      BY <1>3, <3>1, TaskKept
  <2> QED
    BY <2>2, <2>3
<1> QED
  BY <1>4, <1>5 DEF synchronizeMarketBlockAsync, task

\* One step keeps the tasks true.
LEMMA TasksStep ==
    ASSUME TypeOK, TasksAreTrue, [Next]_vars
    PROVE  TasksAreTrue'
<1>1. ASSUME UNCHANGED queue PROVE \A n \in 1 .. Len(queue') : TrueIn(history', queue'[n])
  BY <1>1, TaskKept, TrueTasks
<1>2. ASSUME UNCHANGED worker PROVE \A w \in Workers : worker'[w] # NoTask => TrueIn(history', worker'[w])
  BY <1>2, TaskKept, TrueTasks
<1>3. ASSUME UNCHANGED <<queue, worker>> PROVE TasksAreTrue'
  BY <1>1, <1>2, <1>3, TrueTasks
<1>4. ASSUME NEW w \in Workers, TakeTask(w) PROVE TasksAreTrue'
  <2>1. queue \in Seq(Task) /\ queue # << >>
    BY <1>4 DEF TakeTask, TypeOK
  <2>2. /\ Head(queue) = queue[1] /\ 1 \in 1 .. Len(queue) /\ Len(queue) \in Nat
        /\ Len(Tail(queue)) = Len(queue) - 1
        /\ \A n \in 1 .. Len(queue) - 1 : Tail(queue)[n] = queue[n + 1]
    BY <2>1
  <2>3. \A n \in 1 .. Len(queue) : TrueIn(history', queue[n])
    BY TaskKept, TrueTasks
  <2>4. ASSUME NEW n \in 1 .. Len(queue') PROVE TrueIn(history', queue'[n])
    <3>1. n + 1 \in 1 .. Len(queue) /\ queue'[n] = queue[n + 1]
      BY <1>4, <2>2 DEF TakeTask
    <3> QED
      BY <2>3, <3>1
  <2>5. ASSUME NEW x \in Workers, worker'[x] # NoTask PROVE TrueIn(history', worker'[x])
    <3>1. worker'[x] = IF x = w THEN queue[1] ELSE worker[x]
      BY <1>4, <2>2 DEF TakeTask, TypeOK
    <3> QED
      BY <2>2, <2>3, <2>5, <3>1, TaskKept, TrueTasks
  <2> QED
    BY <2>4, <2>5, TrueTasks
<1>5. ASSUME NEW w \in Workers, RunTask(w) PROVE TasksAreTrue'
  <2>1. ASSUME NEW x \in Workers, worker'[x] # NoTask PROVE TrueIn(history', worker'[x])
    <3>1. worker'[x] = worker[x]
      BY <1>5, <2>1 DEF RunTask, TypeOK
    <3> QED
      BY <2>1, <3>1, TaskKept, TrueTasks
  <2> QED
    BY <1>1, <1>5, <2>1, TrueTasks DEF RunTask
<1>6. ASSUME NEW r \in Requests, NEW v \in 1 .. Current, NEW role \in Roles, validateMarket(r, v, role)
      PROVE  TasksAreTrue'
  <2>1. \A n \in 1 .. Len(queue') : TrueIn(history', queue'[n])
    <3>1. CASE UNCHANGED queue
      BY <1>1, <3>1
    <3>2. CASE synchronizeMarketBlockAsync(v, TRUE) /\ Blocked(v)
      BY <3>2, SendTrue
    <3>3. CASE synchronizeMarketBlockAsync(v, FALSE) /\ ~Blocked(v)
      BY <3>3, SendTrue
    <3> QED
      BY <1>6, <3>1, <3>2, <3>3 DEF validateMarket
  <2> QED
    BY <1>2, <1>6, <2>1, TrueTasks DEF validateMarket
<1> QED
  BY <1>3, <1>4, <1>5, <1>6 DEF Next, vars, queueVars, ChangeMarket, Announce, Tick, Expire, Corrupt, Close,
     ProcessMarketStateChanged, trySynchronizeMarketBlockState,
     getMarketBlockedState, saveOrder, commitTransaction, FailRequest

\* KeyIsTrue for the versions h and the key b.
KeyTrueIn(h, b) ==
    b # NoBlock => /\ b.of \in 1 .. Len(h)
                   /\ b.ms # -1 => b.ms = h[b.of].ms
                   /\ b.flag # "?" => b.flag = (IF h[b.of].status # "enabled" THEN "1" ELSE "0")

\* KeyIsTrue now and after a step.
LEMMA TrueKey ==
    /\ KeyIsTrue <=> KeyTrueIn(history, block)
    /\ KeyIsTrue' <=> KeyTrueIn(history', block')
  BY DEF KeyIsTrue, KeyTrueIn, Blocked, Current

\* A true key that nobody writes stays true.
LEMMA KeyKept ==
    ASSUME TypeOK, [Next]_vars, NEW b, KeyTrueIn(history, b)
    PROVE  KeyTrueIn(history', b)
<1> SUFFICES ASSUME b # NoBlock
             PROVE  /\ b.of \in 1 .. Len(history')
                    /\ b.ms # -1 => b.ms = history'[b.of].ms
                    /\ b.flag # "?" => b.flag = (IF history'[b.of].status # "enabled" THEN "1" ELSE "0")
  BY DEF KeyTrueIn
<1>1. b.of \in 1 .. Current
  BY DEF KeyTrueIn, Current
<1>2. b.of \in 1 .. Current' /\ history'[b.of] = history[b.of]
  BY <1>1, HistoryGrows
<1> QED
  BY <1>2 DEF KeyTrueIn, Current

\* What SynchronizeState can leave in the key.
LEMMA SynchronizeResult ==
    ASSUME NEW v, NEW isBlocked, SynchronizeState(v, isBlocked)
    PROVE  block' = block \/ block' = NoBlock \/ block' = BlockOf(v, isBlocked)
  BY DEF SynchronizeState, synchronizeStateScript

\* A true state makes a true key.
LEMMA SynchronizeTrue ==
    ASSUME TypeOK, [Next]_vars, KeyIsTrue, NEW v \in 1 .. Current, NEW isBlocked \in BOOLEAN,
           isBlocked <=> Blocked(v), SynchronizeState(v, isBlocked)
    PROVE  KeyIsTrue'
<1>1. KeyTrueIn(history, BlockOf(v, isBlocked))
  <2>1. BlockOf(v, isBlocked).of = v /\ BlockOf(v, isBlocked).ms = history[v].ms
        /\ BlockOf(v, isBlocked).flag = IF isBlocked THEN "1" ELSE "0"
    BY DEF BlockOf
  <2> QED
    BY <2>1 DEF KeyTrueIn, Blocked, Current
<1>2. KeyTrueIn(history, NoBlock)
  BY DEF KeyTrueIn
<1> QED
  BY <1>1, <1>2, SynchronizeResult, KeyKept, TrueKey

\* One step keeps the key true.
LEMMA KeyStep ==
    ASSUME TypeOK, TasksAreTrue, KeyIsTrue, [Next]_vars
    PROVE  KeyIsTrue'
<1>1. ASSUME UNCHANGED block PROVE KeyIsTrue'
  BY <1>1, KeyKept, TrueKey
<1>2. ASSUME Forget PROVE KeyIsTrue'
  BY <1>2, TrueKey DEF Forget, KeyTrueIn
<1>3. CASE Corrupt
  <2>1. KeyTrueIn(history, block) /\ block # NoBlock
    BY <1>3, TrueKey DEF Corrupt, Readable, NoBlock
  <2>2. \/ block'.of = block.of /\ block'.ms = block.ms /\ block'.flag = "?"
        \/ block'.of = block.of /\ block'.ms = -1 /\ block'.flag = block.flag
    BY <1>3 DEF Corrupt, TypeOK
  <2>3. KeyTrueIn(history, block')
    BY <2>1, <2>2 DEF KeyTrueIn
  <2>4. UNCHANGED history
    BY <1>3 DEF Corrupt, marketVars
  <2> QED
    BY <2>3, <2>4, TrueKey
<1>4. ASSUME NEW v \in 1 .. Current, trySynchronizeMarketBlockState(v) PROVE KeyIsTrue'
  <2>1. Blocked(v) \in BOOLEAN /\ SynchronizeState(v, Blocked(v))
    BY <1>4 DEF trySynchronizeMarketBlockState, Blocked
  <2> QED
    BY <2>1, SynchronizeTrue
<1>5. ASSUME NEW w \in Workers, RunTask(w) PROVE KeyIsTrue'
  <2>1. worker[w].of \in 1 .. Current /\ worker[w].blocked \in BOOLEAN
        /\ (worker[w].blocked <=> Blocked(worker[w].of))
    BY <1>5 DEF RunTask, TypeOK, TasksAreTrue, IsTrueTask, Task
  <2> QED
    BY <1>5, <2>1, SynchronizeTrue DEF RunTask
<1>6. ASSUME NEW r \in Requests, getMarketBlockedState(r) PROVE KeyIsTrue'
  BY <1>1, <1>2, <1>6 DEF getMarketBlockedState
<1> QED
  BY <1>1, <1>2, <1>3, <1>4, <1>5, <1>6 DEF Next, vars, ChangeMarket, Announce, Tick, Expire, Close,
     ProcessMarketStateChanged, TakeTask, validateMarket, saveOrder, commitTransaction, FailRequest

\* One step keeps updated_at in order.
LEMMA TimesStep ==
    ASSUME TypeOK, TimesInOrder, [Next]_vars
    PROVE  TimesInOrder'
<1>1. CASE UNCHANGED history
  BY <1>1 DEF TimesInOrder, Current
<1>2. ASSUME NEW status \in Status, NEW later \in {0, 1}, ChangeMarket(status, later) PROVE TimesInOrder'
  <2>1. /\ Current' = Current + 1 /\ \A v \in 1 .. Current : history'[v] = history[v]
        /\ history'[Current'].ms >= history[Current].ms /\ history' \in Seq(Version)
    BY <1>2, ChangeFacts
  <2>2. Current \in Nat \ {0} /\ \A v \in 1 .. Current : history[v].ms \in Nat
    BY VersionTypes DEF Version
  <2>3. history'[Current'].ms \in Nat
    <3>1. history'[Current'] \in Version
      BY <2>1, <2>2, SeqIsFunction DEF Current
    <3> QED
      BY <3>1 DEF Version
  <2> SUFFICES ASSUME NEW u \in 1 .. Current', NEW v \in 1 .. Current', u <= v
               PROVE  history'[u].ms <= history'[v].ms
    BY DEF TimesInOrder
  <2>4. CASE v = Current'
    <3>1. CASE u = Current'
      BY <2>3, <2>4, <3>1
    <3>2. CASE u # Current'
      <4>1. u \in 1 .. Current /\ Current \in 1 .. Current /\ u <= Current
        BY <2>1, <2>2, <3>2
      <4>2. history[u].ms <= history[Current].ms /\ history'[u] = history[u]
        BY <2>1, <4>1 DEF TimesInOrder
      <4> QED
        BY <2>1, <2>2, <2>3, <2>4, <4>1, <4>2
    <3> QED
      BY <3>1, <3>2
  <2>5. CASE v # Current'
    <3>1. u \in 1 .. Current /\ v \in 1 .. Current
      BY <2>1, <2>2, <2>5
    <3> QED
      BY <2>1, <3>1 DEF TimesInOrder
  <2> QED
    BY <2>4, <2>5
<1> QED
  BY <1>1, <1>2 DEF Next, vars, marketVars, Announce, Tick, Expire, Corrupt, Close,
     ProcessMarketStateChanged, trySynchronizeMarketBlockState, TakeTask, RunTask,
     getMarketBlockedState, validateMarket, saveOrder, commitTransaction, FailRequest

\* SynchronizeState does not take the time of the current version from the key.
LEMMA SynchronizeTime ==
    ASSUME TypeOK, TimesInOrder, NEW v \in 1 .. Current, NEW isBlocked \in BOOLEAN,
           SynchronizeState(v, isBlocked),
           v = Current \/ (~missed /\ block.ms = history[Current].ms), ~missed'
    PROVE  block'.ms = history[Current].ms
<1>1. CASE v = Current
  BY <1>1 DEF SynchronizeState
<1>2. CASE v # Current /\ block.ms = history[Current].ms
  <2>1. Current \in 1 .. Current /\ history[v].ms \in Nat /\ history[Current].ms \in Nat
    BY VersionTypes DEF Version
  <2>2. history[v].ms <= history[Current].ms
    BY <2>1, VersionTypes DEF TimesInOrder
  <2>3. block.ms # -1 /\ block # NoBlock
    BY <1>2, <2>1 DEF NoBlock
  <2>4. BlockOf(v, isBlocked).ms = history[v].ms
    BY DEF BlockOf
  <2>5. block' = block \/ (block' = BlockOf(v, isBlocked) /\ ~(history[v].ms < block.ms))
    BY <2>3 DEF SynchronizeState, synchronizeStateScript
  <2> QED
    BY <1>2, <2>1, <2>2, <2>4, <2>5
<1> QED
  BY <1>1, <1>2

\* One step keeps the key up to date, or marks that it is not.
LEMMA SyncedStep ==
    ASSUME TypeOK, TasksAreTrue, TimesInOrder, SyncedOrMissed, [Next]_vars
    PROVE  SyncedOrMissed'
<1>1. ASSUME UNCHANGED <<history, processed, resync, block, missed>> PROVE SyncedOrMissed'
  BY <1>1 DEF SyncedOrMissed, Current
<1>2. ASSUME missed' PROVE SyncedOrMissed'
  BY <1>2 DEF SyncedOrMissed
<1>3. ASSUME NEW status \in Status, NEW later \in {0, 1}, ChangeMarket(status, later) PROVE SyncedOrMissed'
  <2>1. Current' = Current + 1 /\ Current \in Nat
    BY <1>3, ChangeFacts, VersionTypes
  <2>2. Current' \notin processed'
    BY <1>3, <2>1 DEF ChangeMarket, TypeOK
  <2> QED
    BY <2>2 DEF SyncedOrMissed
<1>4. ASSUME NEW v \in 1 .. Current, ProcessMarketStateChanged(v) PROVE SyncedOrMissed'
  <2>1. UNCHANGED <<history, block, missed>> /\ processed' = processed \cup {v} /\ resync' = resync \cup {v}
    BY <1>4 DEF ProcessMarketStateChanged, marketVars
  <2>2. Current' = Current
    BY <2>1 DEF Current
  <2> QED
    BY <2>1, <2>2 DEF SyncedOrMissed
<1>5. ASSUME NEW v \in 1 .. Current, NEW isBlocked \in BOOLEAN, SynchronizeState(v, isBlocked),
             UNCHANGED <<history, processed>>, resync' = resync \ {v} \/ resync' = resync
      PROVE  SyncedOrMissed'
  <2>1. Current' = Current
    BY <1>5 DEF Current
  <2>2. v # Current => missed' = missed
    BY <1>5 DEF SynchronizeState
  <2>3. ASSUME Current \in processed, Current \notin resync', ~missed' PROVE block'.ms = history[Current].ms
    <3>1. v = Current \/ (~missed /\ block.ms = history[Current].ms)
      BY <1>5, <2>2, <2>3 DEF SyncedOrMissed
    <3> QED
      BY <1>5, <2>3, <3>1, SynchronizeTime
  <2> QED
    BY <1>5, <2>1, <2>3 DEF SyncedOrMissed
<1>6. ASSUME NEW v \in 1 .. Current, trySynchronizeMarketBlockState(v) PROVE SyncedOrMissed'
  <2>1. Blocked(v) \in BOOLEAN
    BY DEF Blocked
  <2> QED
    BY <1>5, <1>6, <2>1 DEF trySynchronizeMarketBlockState, marketVars
<1>7. ASSUME NEW w \in Workers, RunTask(w) PROVE SyncedOrMissed'
  <2>1. worker[w].of \in 1 .. Current /\ worker[w].blocked \in BOOLEAN
    BY <1>7 DEF RunTask, TypeOK, TasksAreTrue, IsTrueTask, Task
  <2> QED
    BY <1>5, <1>7, <2>1 DEF RunTask, marketVars, eventVars
<1>8. ASSUME NEW r \in Requests, getMarketBlockedState(r) PROVE SyncedOrMissed'
  BY <1>1, <1>2, <1>8 DEF getMarketBlockedState, Forget, marketVars, eventVars
<1> QED
  BY <1>1, <1>2, <1>3, <1>4, <1>6, <1>7, <1>8 DEF Next, vars, marketVars, eventVars, Announce, Tick,
     Expire, Forget, Corrupt, Close, TakeTask, validateMarket, saveOrder, commitTransaction, FailRequest

-----------------------------------------------------------------------------
(* Deadlines and cancelled orders.                                         *)

\* What Deadlines says of one request, with the versions h and their ends g.
InTime(h, g, ph, version, time) ==
    /\ ph \in {"calling", "validated"} => time <= ServiceTimeout
    /\ ph \in {"validated", "committing"} => version \in 1 .. Len(h) /\ h[version].status = "enabled"
    /\ ph = "validated" => g[version] + time <= Staleness + ServiceTimeout
    /\ ph = "committing" => g[version] + time <= Window

\* Deadlines now and after a step.
LEMMA TimedRequests ==
    /\ Deadlines <=> \A r \in Requests : InTime(history, gone, phase[r], saw[r], left[r])
    /\ Deadlines' <=> \A r \in Requests : InTime(history', gone', phase'[r], saw'[r], left'[r])
  BY DEF Deadlines, InTime, Blocked, Current

\* A request without a version is in time.
LEMMA IdleInTime ==
    ASSUME NEW h, NEW g, NEW ph \in {"idle", "active"}, NEW version, NEW time
    PROVE  InTime(h, g, ph, version, time)
  BY DEF InTime

\* One step keeps the deadlines.
LEMMA DeadlinesStep ==
    ASSUME TypeOK, Deadlines, [Next]_vars
    PROVE  Deadlines'
<1> SUFFICES ASSUME NEW x \in Requests
             PROVE  InTime(history', gone', phase'[x], saw'[x], left'[x])
  BY TimedRequests
<1>a. InTime(history, gone, phase[x], saw[x], left[x])
  BY TimedRequests
<1>b. left[x] \in Nat /\ Staleness \in Nat /\ ServiceTimeout \in Nat \ {0}
  BY BlockAssumption DEF TypeOK
<1>1. ASSUME UNCHANGED <<history, gone>>, phase'[x] = phase[x], saw'[x] = saw[x], left'[x] = left[x]
      PROVE  InTime(history', gone', phase'[x], saw'[x], left'[x])
  BY <1>1, <1>a
<1>2. ASSUME NEW status \in Status, NEW later \in {0, 1}, ChangeMarket(status, later)
      PROVE  InTime(history', gone', phase'[x], saw'[x], left'[x])
  <2>1. /\ Current' = Current + 1 /\ Current \in Nat
        /\ \A v \in 1 .. Current : history'[v] = history[v] /\ gone'[v] = gone[v]
    BY <1>2, ChangeFacts, VersionTypes
  <2>2. UNCHANGED <<phase, saw, left>>
    BY <1>2 DEF ChangeMarket, requestVars
  <2>3. saw[x] \in 1 .. Current =>
          /\ saw[x] \in 1 .. Current'
          /\ history'[saw[x]] = history[saw[x]] /\ gone'[saw[x]] = gone[saw[x]]
    BY <2>1
  <2> QED
    BY <1>a, <2>2, <2>3 DEF InTime, Current
<1>3. ASSUME Tick PROVE InTime(history', gone', phase'[x], saw'[x], left'[x])
  <2>1. UNCHANGED <<history, phase, saw>>
    BY <1>3 DEF Tick
  <2>2. CASE phase[x] \notin Waiting
    BY <2>1, <2>2 DEF InTime, Waiting
  <2>3. CASE phase[x] \in Waiting
    <3>1. left'[x] = left[x] - 1
      BY <1>3, <2>3 DEF Tick
    <3>2. saw[x] \in 1 .. Current => gone'[saw[x]] <= gone[saw[x]] + 1 /\ gone'[saw[x]] \in Nat /\ gone[saw[x]] \in Nat
      BY <1>3, WindowNat DEF Tick, TypeOK
    <3>3. phase[x] \in {"validated", "committing"} =>
            saw[x] \in 1 .. Current /\ gone'[saw[x]] + left'[x] <= gone[saw[x]] + left[x]
            /\ gone'[saw[x]] + left'[x] \in Int /\ gone[saw[x]] + left[x] \in Int
      <4> SUFFICES ASSUME phase[x] \in {"validated", "committing"}
                   PROVE  saw[x] \in 1 .. Current /\ gone'[saw[x]] + left'[x] <= gone[saw[x]] + left[x]
                          /\ gone'[saw[x]] + left'[x] \in Int /\ gone[saw[x]] + left[x] \in Int
        OBVIOUS
      <4>1. saw[x] \in 1 .. Current
        BY <1>a DEF InTime, Current
      <4> QED
        BY <1>b, <3>1, <3>2, <4>1
    <3>4. left'[x] <= left[x] /\ left'[x] \in Int
      BY <1>b, <3>1
    <3>5. phase[x] = "validated" => gone'[saw[x]] + left'[x] <= Staleness + ServiceTimeout
      BY <1>a, <1>b, <3>3 DEF InTime
    <3>6. phase[x] = "committing" => gone'[saw[x]] + left'[x] <= Window
      BY <1>a, <3>3, WindowNat DEF InTime
    <3>7. phase[x] \in {"calling", "validated"} => left'[x] <= ServiceTimeout
      BY <1>a, <1>b, <3>4 DEF InTime
    <3> QED
      BY <1>a, <2>1, <3>5, <3>6, <3>7 DEF InTime
  <2> QED
    BY <2>2, <2>3
<1>4. ASSUME NEW r \in Requests, NEW end \in {"idle", "active"}, EndRequest(r, end), UNCHANGED <<history, gone>>
      PROVE  InTime(history', gone', phase'[x], saw'[x], left'[x])
  <2>1. CASE x = r
    <3>1. phase'[x] \in {"idle", "active"}
      BY <1>4, <2>1 DEF EndRequest, TypeOK
    <3> QED
      BY <3>1, IdleInTime
  <2>2. CASE x # r
    BY <1>1, <1>4, <2>2 DEF EndRequest, TypeOK
  <2> QED
    BY <2>1, <2>2
<1>5. ASSUME NEW v \in 1 .. Current, ProcessMarketStateChanged(v)
      PROVE  InTime(history', gone', phase'[x], saw'[x], left'[x])
  <2>1. UNCHANGED <<history, gone, saw, left>>
    BY <1>5 DEF ProcessMarketStateChanged, marketVars
  <2>2. phase'[x] = phase[x] \/ phase'[x] = "idle"
    BY <1>5 DEF ProcessMarketStateChanged
  <2> QED
    BY <1>1, <2>1, <2>2, IdleInTime
<1>6. ASSUME NEW r \in Requests, getMarketBlockedState(r)
      PROVE  InTime(history', gone', phase'[x], saw'[x], left'[x])
  <2>1. UNCHANGED <<history, gone, saw>>
    BY <1>6 DEF getMarketBlockedState, marketVars
  <2>2. CASE x = r
    <3>1. phase'[x] = "calling" /\ left'[x] = ServiceTimeout
      BY <1>6, <2>2 DEF getMarketBlockedState, TypeOK
    <3> QED
      BY <1>b, <2>1, <3>1 DEF InTime
  <2>3. CASE x # r
    BY <1>1, <1>6, <2>1, <2>3 DEF getMarketBlockedState, TypeOK
  <2> QED
    BY <2>2, <2>3
<1>7. ASSUME NEW r \in Requests, NEW v \in 1 .. Current, NEW role \in Roles, validateMarket(r, v, role)
      PROVE  InTime(history', gone', phase'[x], saw'[x], left'[x])
  <2>1. UNCHANGED <<history, gone>> /\ phase[r] = "calling" /\ gone[v] <= Staleness
    BY <1>7 DEF validateMarket, marketVars
  <2>2. CASE EndRequest(r, "idle")
    BY <1>4, <2>1, <2>2
  <2>3. CASE /\ phase' = [phase EXCEPT ![r] = "validated"] /\ saw' = [saw EXCEPT ![r] = v]
             /\ UNCHANGED <<blocked, left>> /\ ~Blocked(v)
    <3>1. CASE x = r
      <4>1. phase'[x] = "validated" /\ saw'[x] = v /\ left'[x] = left[x]
        BY <2>3, <3>1 DEF TypeOK
      <4>2. left[x] <= ServiceTimeout
        BY <1>a, <2>1, <3>1 DEF InTime
      <4>3. gone[v] \in Nat
        BY WindowNat DEF TypeOK
      <4> QED
        BY <1>b, <2>1, <2>3, <4>1, <4>2, <4>3 DEF InTime, Blocked, Current
    <3>2. CASE x # r
      BY <1>1, <2>1, <2>3, <3>2 DEF TypeOK
    <3> QED
      BY <3>1, <3>2
  <2> QED
    BY <1>7, <2>2, <2>3 DEF validateMarket
<1>8. ASSUME NEW r \in Requests, saveOrder(r)
      PROVE  InTime(history', gone', phase'[x], saw'[x], left'[x])
  <2>1. UNCHANGED <<history, gone, saw>> /\ phase[r] = "validated"
    BY <1>8 DEF saveOrder, marketVars
  <2>2. CASE x = r
    <3>1. phase'[x] = "committing" /\ left'[x] = ServiceTimeout
      BY <1>8, <2>2 DEF saveOrder, TypeOK
    <3>2. saw[x] \in 1 .. Current /\ gone[saw[x]] + left[x] <= Staleness + ServiceTimeout
          /\ history[saw[x]].status = "enabled"
      BY <1>a, <2>1, <2>2 DEF InTime, Current
    <3>3. gone[saw[x]] \in Nat
      BY <3>2, WindowNat DEF TypeOK
    <3>4. gone[saw[x]] + ServiceTimeout <= Window
      BY <1>b, <3>2, <3>3, WindowNat
    <3> QED
      BY <2>1, <3>1, <3>2, <3>4 DEF InTime, Current
  <2>3. CASE x # r
    BY <1>1, <1>8, <2>1, <2>3 DEF saveOrder, TypeOK
  <2> QED
    BY <2>2, <2>3
<1>9. ASSUME UNCHANGED <<history, gone, phase, saw, left>>
      PROVE  InTime(history', gone', phase'[x], saw'[x], left'[x])
  BY <1>1, <1>9
<1> QED
  BY <1>2, <1>3, <1>4, <1>5, <1>6, <1>7, <1>8, <1>9 DEF Next, vars, marketVars, requestVars, Announce, Expire,
     Corrupt, Close, trySynchronizeMarketBlockState, TakeTask, RunTask, commitTransaction, FailRequest

\* One step keeps what a late cancellation left behind.
LEMMA SettledStep ==
    ASSUME TypeOK, Deadlines, SettledOK, [Next]_vars
    PROVE  SettledOK'
<1>a. Current \in Nat \ {0}
  BY VersionTypes
<1>1. ASSUME UNCHANGED <<history, gone, settled>>, \A r \in Requests : phase'[r] = "active" => phase[r] = "active"
      PROVE  SettledOK'
  BY <1>1 DEF SettledOK, Blocked, Current
<1>2. ASSUME NEW status \in Status, NEW later \in {0, 1}, ChangeMarket(status, later) PROVE SettledOK'
  BY <1>2 DEF ChangeMarket, SettledOK
<1>3. ASSUME Tick PROVE SettledOK'
  <2>1. UNCHANGED <<history, phase, settled>>
    BY <1>3 DEF Tick, eventVars
  <2>2. \A u \in 1 .. Current - 1 : gone[u] > Window => gone'[u] > Window
    BY <1>3, <1>a, WindowNat DEF Tick, TypeOK
  <2> QED
    BY <2>1, <2>2 DEF SettledOK, Blocked, Current
<1>4. ASSUME NEW v \in 1 .. Current, ProcessMarketStateChanged(v) PROVE SettledOK'
  <2>1. CASE UNCHANGED <<phase, settled>>
    BY <1>1, <1>4, <2>1 DEF ProcessMarketStateChanged, marketVars
  <2>2. CASE /\ phase' = [r \in Requests |-> IF phase[r] = "active" THEN "idle" ELSE phase[r]]
             /\ settled' = (settled \/ (v = Current /\ \A u \in 1 .. v - 1 : gone[u] > Window))
             /\ Blocked(v)
    <3>1. \A r \in Requests : phase'[r] # "active"
      BY <2>2
    <3>2. settled' => settled \/ (v = Current /\ \A u \in 1 .. v - 1 : gone[u] > Window)
      BY <2>2, Zenon
    <3>3. UNCHANGED <<history, gone>>
      BY <1>4 DEF ProcessMarketStateChanged, marketVars
    <3>4. settled' => Blocked(Current) /\ \A u \in 1 .. Current - 1 : gone[u] > Window
      BY <2>2, <3>2 DEF SettledOK
    <3> QED
      BY <3>1, <3>3, <3>4 DEF SettledOK, Blocked, Current
  <2> QED
    BY <1>4, <2>1, <2>2 DEF ProcessMarketStateChanged
<1>5. ASSUME NEW r \in Requests, commitTransaction(r) PROVE SettledOK'
  <2>1. UNCHANGED <<history, gone, settled>> /\ phase[r] = "committing"
    BY <1>5 DEF commitTransaction, marketVars, eventVars
  <2>2. ~settled
    <3> SUFFICES ASSUME settled PROVE FALSE
      OBVIOUS
    <3>1. saw[r] \in 1 .. Current /\ ~Blocked(saw[r]) /\ gone[saw[r]] + left[r] <= Window
      BY <2>1 DEF Deadlines
    <3>2. gone[saw[r]] \in Nat /\ left[r] \in Nat
      BY <3>1, WindowNat DEF TypeOK
    <3>3. gone[saw[r]] <= Window
      BY <3>1, <3>2, WindowNat
    <3>4. saw[r] = Current
      BY <1>a, <3>1, <3>2, <3>3, WindowNat DEF SettledOK
    <3> QED
      BY <3>1, <3>4 DEF SettledOK
  <2> QED
    BY <2>1, <2>2 DEF SettledOK
<1>6. ASSUME NEW r \in Requests, EndRequest(r, "idle"), UNCHANGED <<history, gone, settled>> PROVE SettledOK'
  BY <1>1, <1>6 DEF EndRequest, TypeOK
<1>7. ASSUME NEW r \in Requests, NEW v \in 1 .. Current, NEW role \in Roles, validateMarket(r, v, role)
      PROVE  SettledOK'
  <2>1. UNCHANGED <<history, gone, settled>>
    BY <1>7 DEF validateMarket, marketVars, eventVars
  <2>2. CASE EndRequest(r, "idle")
    BY <1>6, <2>1, <2>2
  <2>3. CASE phase' = [phase EXCEPT ![r] = "validated"]
    BY <1>1, <2>1, <2>3 DEF TypeOK
  <2> QED
    BY <1>7, <2>2, <2>3 DEF validateMarket
<1>8. ASSUME NEW r \in Requests, getMarketBlockedState(r) \/ saveOrder(r) PROVE SettledOK'
  <2>1. UNCHANGED <<history, gone, settled>>
    BY <1>8 DEF getMarketBlockedState, saveOrder, marketVars, eventVars
  <2>2. \A x \in Requests : phase'[x] = "active" => phase[x] = "active"
    BY <1>8 DEF getMarketBlockedState, saveOrder, TypeOK
  <2> QED
    BY <1>1, <2>1, <2>2
<1>9. ASSUME NEW r \in Requests, FailRequest(r) PROVE SettledOK'
  BY <1>6, <1>9 DEF FailRequest, marketVars, eventVars
<1>10. ASSUME UNCHANGED <<history, gone, settled, phase>> PROVE SettledOK'
  BY <1>1, <1>10
<1> QED
  BY <1>2, <1>3, <1>4, <1>5, <1>7, <1>8, <1>9, <1>10 DEF Next, vars, marketVars, eventVars, requestVars,
     Announce, Expire, Corrupt, Close, trySynchronizeMarketBlockState, TakeTask, RunTask

-----------------------------------------------------------------------------
(* Theorems.                                                               *)

\* It holds at the start.
LEMMA IInvInit == Init => IInv
<1> SUFFICES ASSUME Init PROVE IInv
  OBVIOUS
<1>1. PICK status \in Status : history = <<[status |-> status, ms |-> 0]>>
  BY DEF Init
<1>2. Current = 1 /\ history[1] = [status |-> status, ms |-> 0] /\ history \in Seq([status : Status, ms : Nat])
  BY <1>1 DEF Current
<1>3. gone \in [1 .. Current -> 0 .. Window + 1]
  BY <1>2, WindowNat DEF Init
<1>4. block \in [ms : Nat \cup {-1}, flag : {"1", "0", "?", "none"}, of : 0 .. Current]
  BY <1>2 DEF Init, NoBlock
<1>5. queue \in Seq(Task) /\ Len(queue) = 0
  BY DEF Init
<1>6. TypeOK
  <2>1. Current \in 1 .. MaxVersions /\ faults \in 0 .. MaxFaults /\ Len(queue) <= QueueSize
    BY <1>2, <1>5, BlockAssumption DEF Init
  <2>2. worker \in [Workers -> Task \cup {NoTask}] /\ saw \in [Requests -> 0 .. Current]
        /\ left \in [Requests -> Nat] /\ blocked \in [Requests -> BOOLEAN]
    BY <1>2 DEF Init
  <2>3. phase \in [Requests -> {"idle", "active"} \cup Waiting]
    BY DEF Init
  <2> QED
    BY <1>2, <1>3, <1>4, <1>5, <2>1, <2>2, <2>3 DEF Init, TypeOK
<1>7. TasksAreTrue /\ KeyIsTrue /\ SettledOK /\ Deadlines
  BY <1>5 DEF Init, TasksAreTrue, KeyIsTrue, SettledOK, Deadlines
<1>8. TimesInOrder /\ SyncedOrMissed
  BY <1>2 DEF Init, TimesInOrder, SyncedOrMissed
<1> QED
  BY <1>6, <1>7, <1>8 DEF IInv

\* The inductive invariant holds in all reachable states.
LEMMA IInvHolds == Spec => []IInv
<1>1. IInv /\ [Next]_vars => IInv'
  <2> SUFFICES ASSUME IInv, [Next]_vars PROVE IInv'
    OBVIOUS
  <2>1. TypeOK' /\ TasksAreTrue' /\ KeyIsTrue' /\ TimesInOrder' /\ SyncedOrMissed' /\ Deadlines' /\ SettledOK'
    BY TypeStep, TasksStep, KeyStep, TimesStep, SyncedStep, DeadlinesStep, SettledStep DEF IInv
  <2> QED
    BY <2>1 DEF IInv
<1> QED
  BY <1>1, IInvInit, PTL DEF Spec

\* TypeOK for every number of requests, workers and versions: the queue never
\* grows past its size, and only processed events are synchronized.
THEOREM TypeCorrect == Spec => []TypeOK
<1>1. IInv => TypeOK
  BY DEF IInv
<1> QED
  BY <1>1, IInvHolds, PTL

\* BlockIsTrue for every number of writers: what IsBlocked reads was the state
\* of the market at that time.
THEOREM KeySaysWhatWas == Spec => []BlockIsTrue
<1>1. IInv => BlockIsTrue
  <2> SUFFICES ASSUME IInv, Readable(block)
               PROVE  \E v \in 1 .. Current : history[v].ms = block.ms /\ (Blocked(v) <=> block.flag = "1")
    BY DEF BlockIsTrue
  <2>1. block # NoBlock /\ block.ms # -1 /\ block.flag # "?"
    BY DEF Readable, NoBlock
  <2>2. /\ block.of \in 1 .. Current /\ block.ms = history[block.of].ms
        /\ block.flag = (IF Blocked(block.of) THEN "1" ELSE "0")
    BY <2>1 DEF IInv, KeyIsTrue
  <2> QED
    BY <2>2
<1> QED
  BY <1>1, IInvHolds, PTL

\* WrongBlockHasReason for every order of the writers: the timestamp in the key
\* keeps late workers and redelivered events from bringing an old state back.
THEOREM KeyFallsBehindForAReason == Spec => []WrongBlockHasReason
<1>1. IInv => WrongBlockHasReason
  BY DEF IInv, SyncedOrMissed, WrongBlockHasReason
<1> QED
  BY <1>1, IInvHolds, PTL

\* OrderWithinWindow for every timeout: the age of the answer that validated an
\* order is bounded when the order is committed.
THEOREM OrdersComeInTime == Spec => []OrderWithinWindow
<1>1. IInv => OrderWithinWindow
  BY DEF IInv, Deadlines, OrderWithinWindow
<1> QED
  BY <1>1, IInvHolds, PTL

\* NoOrderLeftBehind for every number of requests: an event that is processed
\* later than Window after the market was closed leaves no active order.
THEOREM LateCancellationIsComplete == Spec => []NoOrderLeftBehind
<1>1. IInv => NoOrderLeftBehind
  BY DEF IInv, SettledOK, NoOrderLeftBehind
<1> QED
  BY <1>1, IInvHolds, PTL
=============================================================================
