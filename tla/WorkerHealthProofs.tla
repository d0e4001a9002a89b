------------------------- MODULE WorkerHealthProofs --------------------------
(***************************************************************************)
(* Proofs about WorkerHealth, for any timing.  The age of what the         *)
(* heartbeat key says, the time since the process has gone and the TTL the *)
(* key has left add up to at most the TTL; the TTL left, the heartbeats    *)
(* that went missing and the time since the last tick make up at least the *)
(* TTL.  Everything about the heartbeat follows from these two sums.       *)
(***************************************************************************)
EXTENDS WorkerHealth, TLAPS

\* The counter of lost heartbeats is bounded by the number of faults.
Counted == HealthTypeOK /\ missed <= faults

\* What is in the heartbeat key is no older than the key, and no process means
\* that none has written it since.
KeyIsFresh ==
  /\ worker # "down" => down = 0
  /\ left > 0 => stamp + left <= TTL /\ down + left <= TTL

\* While a process sends heartbeats the key has lost no more than the time of
\* those that failed and of the one to come.
KeyIsFed == worker = "up" /\ announced => left + missed * Beat + ticked >= TTL

\* What the monitor remembers of an alert is what happened.
WarnedIsTold == \A t \in Tasks : warned[t] = told[t] \/ warned[t] = Horizon

USE HealthAssumption

LEMMA Timings ==
  /\ Horizon \in Nat /\ MaxFaults \in Nat
  /\ Beat \in Nat /\ TTL \in Nat /\ PollEvery \in Nat /\ CheckEvery \in Nat
  /\ LostAfter \in Nat /\ StuckAfter \in Nat /\ Cooldown \in Nat /\ TaskTimeout \in Nat
  /\ Beat >= 1 /\ TTL >= 1 /\ PollEvery >= 1 /\ LostAfter >= 1
  /\ TTL <= Horizon
OBVIOUS

LEMMA OlderAge ==
  ASSUME NEW age \in Age
  PROVE  Older(age) \in Age /\ Older(age) <= age + 1 /\ age <= Older(age)
BY Timings DEF Older, Age

LEMMA AllOlderAges ==
  ASSUME NEW ages \in [Tasks -> Age]
  PROVE  AllOlder(ages) \in [Tasks -> Age]
BY OlderAge DEF AllOlder

-----------------------------------------------------------------------------
LEMMA CountedInit == Init => Counted
<1> SUFFICES ASSUME Init PROVE Counted
  OBVIOUS
<1>1. announced \in BOOLEAN /\ lost \in BOOLEAN
  BY Zenon DEF Init
<1>2. 0 \in Age /\ Horizon \in Age
  BY Timings DEF Age
<1> QED BY Timings, <1>1, <1>2 DEF Init, Counted, HealthTypeOK

LEMMA CountedStep == Counted /\ [Next]_vars => Counted'
<1> SUFFICES ASSUME Counted, [Next]_vars PROVE Counted'
  OBVIOUS
<1> USE Timings DEF Counted, HealthTypeOK
<1>0. 0 \in Age /\ Horizon \in Age
  BY DEF Age
<1>1. CASE Tick
  <2>1. /\ ticked' \in 0 .. Beat /\ polled' \in 0 .. PollEvery /\ left' \in 0 .. TTL
    BY <1>1 DEF Tick, NothingDue
  <2>2. /\ down' \in Age /\ stamp' \in Age /\ checked' \in Age /\ good' \in Age
    BY <1>0, <1>1, OlderAge DEF Tick
  <2>3. /\ started' \in [Tasks -> Age] /\ warned' \in [Tasks -> Age] /\ told' \in [Tasks -> Age]
    BY <1>1, AllOlderAges DEF Tick
  <2>4. ran' \in 0 .. TaskTimeout
    BY <1>1 DEF Tick, NothingDue
  <2>5. /\ UNCHANGED <<worker, busy, announced, missed, active, monitor, lost, faults>>
        /\ missed' <= faults'
    BY <1>1 DEF Tick
  <2> QED BY <2>1, <2>2, <2>3, <2>4, <2>5
<1>2. CASE StartWorker
  <2>1. announced' \in BOOLEAN
    BY <1>2, Zenon DEF StartWorker
  <2> QED BY <1>0, <1>2, <2>1 DEF StartWorker, keyVars, monitorVars, seenVars
<1>3. CASE UpdateWorkerHeartbeat
  <2>1. announced' \in BOOLEAN
    BY <1>3, Zenon DEF UpdateWorkerHeartbeat
  <2>2. missed' \in 0 .. MaxFaults /\ missed' <= faults' /\ faults' \in 0 .. MaxFaults
    BY <1>3 DEF UpdateWorkerHeartbeat, Fault
  <2>3. left' \in 0 .. TTL /\ stamp' \in Age
    BY <1>0, <1>3 DEF UpdateWorkerHeartbeat
  <2> QED BY <1>3, <2>1, <2>2, <2>3 DEF UpdateWorkerHeartbeat, monitorVars, seenVars
<1>4. CASE RemoveActiveTask
  BY <1>4 DEF RemoveActiveTask, Fault, monitorVars, seenVars
<1>5. CASE Sigterm
  BY <1>5 DEF Sigterm, Fault, keyVars, monitorVars, seenVars
<1>6. CASE Stop
  BY <1>6 DEF Stop, keyVars, monitorVars, seenVars
<1>7. CASE Crash
  BY <1>7 DEF Crash, Fault, keyVars, monitorVars, seenVars
<1>8. ASSUME NEW t \in Tasks, SetActiveTask(t) PROVE Counted'
  <2>1. /\ busy' \in Tasks \union {NoTask} /\ ran' \in 0 .. TaskTimeout
        /\ active' \subseteq Tasks /\ started' \in [Tasks -> Age]
    BY <1>0, <1>8 DEF SetActiveTask
  <2>2. faults' \in 0 .. MaxFaults /\ faults <= faults'
    BY <1>8 DEF SetActiveTask, Fault
  <2> QED BY <1>8, <2>1, <2>2 DEF SetActiveTask, monitorVars, seenVars
<1>9. CASE CheckStuckTasks
  <2>1. warned' \in [Tasks -> Age] /\ told' \in [Tasks -> Age] /\ good' \in Age
    BY <1>0, <1>9 DEF CheckStuckTasks
  <2> QED BY <1>9, <2>1 DEF CheckStuckTasks, Fault, workerVars, keyVars
<1>10. CASE CheckLostHeartbeats
  <2>1. checked' \in Age /\ faults' \in 0 .. MaxFaults /\ faults <= faults'
    BY <1>0, <1>10 DEF CheckLostHeartbeats, Fault
  <2>2. lost' \in BOOLEAN
    BY <1>10, Zenon DEF CheckLostHeartbeats
  <2> QED BY <1>10, <2>1, <2>2 DEF CheckLostHeartbeats, workerVars, keyVars
<1>11. CASE StopMonitor
  BY <1>11 DEF StopMonitor, Fault, workerVars, keyVars, seenVars
<1>12. CASE NewMonitor
  BY <1>0, <1>12 DEF NewMonitor, workerVars, keyVars, seenVars
<1>13. CASE UNCHANGED vars
  BY <1>13 DEF vars, workerVars, keyVars, monitorVars, seenVars
<1> QED BY <1>1, <1>2, <1>3, <1>4, <1>5, <1>6, <1>7, <1>8, <1>9, <1>10, <1>11, <1>12, <1>13
        DEF Next, Worker

\* Every variable keeps to its range: ages are counted up to Horizon, timers
\* never run past their period (the tickers of cmd/worker and Monitor.Run).
THEOREM HealthTyped == Spec => []HealthTypeOK
<1>1. Counted => HealthTypeOK
  BY DEF Counted
<1> QED BY CountedInit, CountedStep, <1>1, PTL DEF Spec

-----------------------------------------------------------------------------
LEMMA FreshInit == Init => KeyIsFresh
BY Timings DEF Init, KeyIsFresh

\* Only time, heartbeats and the end of the process touch what KeyIsFresh
\* speaks of.
LEMMA FreshStep == Counted /\ KeyIsFresh /\ [Next]_vars => KeyIsFresh'
<1> SUFFICES ASSUME Counted, KeyIsFresh, [Next]_vars PROVE KeyIsFresh'
  OBVIOUS
<1> USE Timings DEF Counted, HealthTypeOK, KeyIsFresh
<1>1. CASE Tick
  <2>1. stamp' <= stamp + 1 /\ stamp' \in Age /\ down' \in Age /\ down' <= down + 1
    BY <1>1, OlderAge DEF Tick, Age
  <2>2. worker' # "down" => down' = 0
    BY <1>1 DEF Tick
  <2>3. left' > 0 => left' = left - 1 /\ left > 0
    BY <1>1 DEF Tick
  <2> QED BY <2>1, <2>2, <2>3 DEF Age
<1>2. CASE StartWorker
  BY <1>2 DEF StartWorker, keyVars, Age
<1>3. CASE UpdateWorkerHeartbeat
  BY <1>3 DEF UpdateWorkerHeartbeat, Age
<1>4. CASE Crash \/ Stop \/ Sigterm
  BY <1>4 DEF Crash, Stop, Sigterm, keyVars
<1>5. ASSUME UNCHANGED <<worker, down, left, stamp>> PROVE KeyIsFresh'
  BY <1>5
<1>6. CASE RemoveActiveTask
  BY <1>5, <1>6 DEF RemoveActiveTask
<1>7. ASSUME NEW t \in Tasks, SetActiveTask(t) PROVE KeyIsFresh'
  BY <1>5, <1>7 DEF SetActiveTask
<1>8. CASE CheckStuckTasks \/ CheckLostHeartbeats \/ StopMonitor \/ NewMonitor
  BY <1>5, <1>8 DEF CheckStuckTasks, CheckLostHeartbeats, StopMonitor, NewMonitor, workerVars, keyVars
<1>9. CASE UNCHANGED vars
  BY <1>5, <1>9 DEF vars, workerVars, keyVars
<1> QED BY <1>1, <1>2, <1>3, <1>4, <1>6, <1>7, <1>8, <1>9 DEF Next, Worker

\* With a TTL no longer than the threshold, what the monitor reads from the
\* heartbeat key is always too young for an alert: checkLostHeartbeats can never
\* report a worker (30 s in UpdateWorkerHeartbeat, 60 s in LoadAlertConfig).
THEOREM LostIsNeverReported ==
  ASSUME TTL <= LostAfter
  PROVE  Spec => []NeverReportedLost
<1>1. Init => NeverReportedLost
  BY DEF Init, NeverReportedLost
<1>2. Counted /\ KeyIsFresh /\ NeverReportedLost /\ [Next]_vars => NeverReportedLost'
  <2> SUFFICES ASSUME Counted, KeyIsFresh, NeverReportedLost, [Next]_vars
               PROVE  NeverReportedLost'
    OBVIOUS
  <2>1. left > 0 => ~Reached(stamp, LostAfter)
    BY Timings DEF Counted, HealthTypeOK, KeyIsFresh, Reached, Age
  <2>2. CASE CheckLostHeartbeats
    BY <2>1, <2>2 DEF CheckLostHeartbeats, NeverReportedLost
  <2>3. CASE UNCHANGED lost
    BY <2>3 DEF NeverReportedLost
  <2>4. CASE Tick \/ Worker \/ CheckStuckTasks \/ StopMonitor \/ NewMonitor
    BY <2>3, <2>4 DEF Tick, Worker, StartWorker, UpdateWorkerHeartbeat, RemoveActiveTask, Sigterm,
       Stop, Crash, SetActiveTask, CheckStuckTasks, StopMonitor, NewMonitor, seenVars
  <2> QED BY <2>2, <2>3, <2>4 DEF Next, vars, seenVars
<1> QED BY CountedInit, CountedStep, FreshInit, FreshStep, <1>1, <1>2, PTL DEF Spec

-----------------------------------------------------------------------------
LEMMA NextBeat ==
  ASSUME NEW m \in Nat
  PROVE  m * Beat \in Nat /\ (m + 1) * Beat = m * Beat + Beat
BY Timings

LEMMA FedInit == Init => KeyIsFed
BY DEF Init, KeyIsFed

LEMMA FedStep == Counted /\ KeyIsFed /\ [Next]_vars => KeyIsFed'
<1> SUFFICES ASSUME Counted, KeyIsFed, [Next]_vars, worker' = "up", announced'
             PROVE  left' + missed' * Beat + ticked' >= TTL
  BY DEF KeyIsFed
<1> USE Timings DEF Counted, HealthTypeOK
<1>0. missed \in Nat /\ missed * Beat \in Nat /\ (missed + 1) * Beat = missed * Beat + Beat
  BY NextBeat
<1>1. CASE Tick
  <2>1. worker = "up" /\ announced /\ missed' = missed /\ ticked' = ticked + 1 /\ left' >= left - 1
        /\ left' \in Nat
    BY <1>1 DEF Tick
  <2>2. left + missed * Beat + ticked >= TTL
    BY <2>1 DEF KeyIsFed
  <2> DEFINE m == missed * Beat
  <2>3. m \in Nat
    BY <1>0
  <2>4. m = missed' * Beat
    BY <2>1
  <2>5. left + m + ticked >= TTL
    BY <2>2
  <2> HIDE DEF m
  <2>6. /\ left \in Nat /\ left' \in Nat /\ ticked \in Nat
        /\ ticked' = ticked + 1 /\ left' >= left - 1
    BY <2>1
  <2>7. \A l, k \in Nat : k >= l - 1 /\ l + m + ticked >= TTL => k + m + (ticked + 1) >= TTL
    BY <2>3, <2>6
  <2>8. left' + m + (ticked + 1) >= TTL
    BY <2>5, <2>6, <2>7
  <2> QED BY <2>4, <2>6, <2>8
<1>2. CASE UpdateWorkerHeartbeat
  <2>1. CASE left' = TTL /\ missed' = 0
    BY <1>2, <2>1 DEF UpdateWorkerHeartbeat
  <2>2. CASE missed' = missed + 1 /\ UNCHANGED <<left, announced>>
    <3>1. worker = "up" /\ announced /\ ticked = Beat /\ ticked' = 0
      BY <1>2, <2>2 DEF UpdateWorkerHeartbeat
    <3>2. left + missed * Beat + ticked >= TTL
      BY <3>1 DEF KeyIsFed
    <3>3. missed' * Beat = missed * Beat + Beat
      BY <1>0, <2>2
    <3> DEFINE m == missed * Beat
    <3>4. m \in Nat /\ missed' * Beat = m + Beat /\ left + m + ticked >= TTL
      BY <1>0, <3>2, <3>3
    <3> HIDE DEF m
    <3> DEFINE n == missed' * Beat
    <3>5. n = m + Beat
      BY <3>4
    <3> HIDE DEF n
    <3>6. left' + n + ticked' >= TTL
      BY <2>2, <3>1, <3>4, <3>5
    <3> QED BY <3>6 DEF n
  <2> QED BY <1>2, <2>1, <2>2 DEF UpdateWorkerHeartbeat
<1>3. CASE StartWorker \/ Sigterm \/ Stop \/ Crash
  BY <1>3 DEF StartWorker, Sigterm, Stop, Crash
<1>4. ASSUME UNCHANGED <<worker, announced, left, missed, ticked>>
      PROVE  left' + missed' * Beat + ticked' >= TTL
  BY <1>4 DEF KeyIsFed
<1>5. CASE RemoveActiveTask
  BY <1>4, <1>5 DEF RemoveActiveTask
<1>6. ASSUME NEW t \in Tasks, SetActiveTask(t) PROVE left' + missed' * Beat + ticked' >= TTL
  BY <1>4, <1>6 DEF SetActiveTask
<1>7. CASE CheckStuckTasks \/ CheckLostHeartbeats \/ StopMonitor \/ NewMonitor
  BY <1>4, <1>7 DEF CheckStuckTasks, CheckLostHeartbeats, StopMonitor, NewMonitor, workerVars, keyVars
<1>8. CASE UNCHANGED vars
  BY <1>4, <1>8 DEF vars, workerVars, keyVars
<1> QED BY <1>1, <1>2, <1>3, <1>5, <1>6, <1>7, <1>8 DEF Next, Worker

\* Whatever the timing, the registry is honest: a worker whose process has been
\* gone for the TTL is offline, and one that misses fewer heartbeats in a row
\* than fit into the TTL is online (UpdateWorkerHeartbeat, GetWorkerStats).
THEOREM OnlineIsHonest == Spec => []OnlineHonest
<1>1. Counted /\ KeyIsFresh /\ KeyIsFed => OnlineHonest
  <2> SUFFICES ASSUME Counted, KeyIsFresh, KeyIsFed PROVE OnlineHonest
    OBVIOUS
  <2> USE Timings DEF Counted, HealthTypeOK
  <2>1. worker = "down" /\ down >= TTL => ~Online
    BY DEF KeyIsFresh, Online, Age
  <2>2. ASSUME worker = "up", announced, (missed + 1) * Beat < TTL PROVE Online
    <3> DEFINE m == missed * Beat
    <3>1. m \in Nat /\ m + Beat < TTL
      BY <2>2, NextBeat
    <3>2. left + m + ticked >= TTL
      BY <2>2 DEF KeyIsFed
    <3> HIDE DEF m
    <3> QED BY <3>1, <3>2 DEF Online
  <2> QED BY <2>1, <2>2 DEF OnlineHonest
<1> QED BY CountedInit, CountedStep, FreshInit, FreshStep, FedInit, FedStep, <1>1, PTL DEF Spec

-----------------------------------------------------------------------------
LEMMA ToldInit == Init => WarnedIsTold
BY DEF Init, WarnedIsTold

LEMMA ToldStep == Counted /\ WarnedIsTold /\ [Next]_vars => WarnedIsTold'
<1> SUFFICES ASSUME Counted, WarnedIsTold, [Next]_vars, NEW t \in Tasks
             PROVE  warned'[t] = told'[t] \/ warned'[t] = Horizon
  BY DEF WarnedIsTold
<1> USE Timings DEF Counted, HealthTypeOK, WarnedIsTold
<1>1. CASE Tick
  BY <1>1 DEF Tick, AllOlder, Older
<1>2. CASE CheckStuckTasks
  BY <1>2 DEF CheckStuckTasks
<1>3. CASE NewMonitor
  BY <1>3 DEF NewMonitor
<1>4. ASSUME UNCHANGED <<warned, told>> PROVE warned'[t] = told'[t] \/ warned'[t] = Horizon
  BY <1>4
<1>5. CASE Worker \/ CheckLostHeartbeats \/ StopMonitor
  BY <1>4, <1>5 DEF Worker, StartWorker, UpdateWorkerHeartbeat, RemoveActiveTask, Sigterm, Stop,
     Crash, SetActiveTask, CheckLostHeartbeats, StopMonitor, monitorVars, seenVars
<1>6. CASE UNCHANGED vars
  BY <1>4, <1>6 DEF vars, monitorVars, seenVars
<1> QED BY <1>1, <1>2, <1>3, <1>5, <1>6 DEF Next

\* Alerts about one task are a cooldown apart (lastStuckAlert), unless the
\* monitor was restarted in between.
THEOREM CooldownIsKept == Spec => CooldownKept
<1>1. Counted /\ WarnedIsTold /\ [Next]_vars =>
        [\A t \in Tasks :
           told'[t] = 0 /\ told[t] # 0 => told[t] >= Cooldown \/ warned[t] = Horizon]_vars
  <2> SUFFICES ASSUME Counted, WarnedIsTold, Next, NEW t \in Tasks, told'[t] = 0, told[t] # 0
               PROVE  told[t] >= Cooldown \/ warned[t] = Horizon
    OBVIOUS
  <2> USE Timings DEF Counted, HealthTypeOK
  <2>1. CASE Tick
    BY <2>1 DEF Tick, AllOlder, Older, Age
  <2>2. CASE CheckStuckTasks
    BY <2>2 DEF CheckStuckTasks, Reached, WarnedIsTold
  <2>3. CASE UNCHANGED told
    BY <2>3
  <2>4. CASE Worker \/ CheckLostHeartbeats \/ StopMonitor \/ NewMonitor
    BY <2>3, <2>4 DEF Worker, StartWorker, UpdateWorkerHeartbeat, RemoveActiveTask, Sigterm, Stop,
       Crash, SetActiveTask, CheckLostHeartbeats, StopMonitor, NewMonitor, seenVars
  <2> QED BY <2>1, <2>2, <2>4 DEF Next
<1> QED BY CountedInit, CountedStep, ToldInit, ToldStep, <1>1, PTL DEF Spec, CooldownKept

\* A task whose entry is over the threshold at a poll that could be read is
\* reported then, or was within the cooldown before (checkStuckTasks).
THEOREM StuckIsReported == Spec => []StuckReported
<1>1. Init => StuckReported
  BY DEF Init, StuckReported
<1>2. Counted /\ WarnedIsTold /\ StuckReported /\ [Next]_vars => StuckReported'
  <2> SUFFICES ASSUME Counted, WarnedIsTold, StuckReported, [Next]_vars, NEW t \in Tasks,
                      t \in active', started'[t] > StuckAfter + good'
               PROVE  told'[t] <= Cooldown + good'
    BY CountedStep DEF Counted, HealthTypeOK, StuckReported
  <2> USE Timings DEF Counted, HealthTypeOK
  <2>0. t \in active /\ started[t] > StuckAfter + good => told[t] <= Cooldown + good
    BY DEF StuckReported
  <2>1. CASE Tick
    <3>1. /\ t \in active /\ started'[t] = Older(started[t]) /\ told'[t] = Older(told[t])
          /\ good' = Older(good)
      BY <2>1 DEF Tick, AllOlder
    <3>2. started[t] > StuckAfter + good
      BY <3>1 DEF Older, Age
    <3> QED BY <2>0, <3>1, <3>2 DEF Older, Age
  <2>2. CASE CheckStuckTasks
    <3>1. CASE UNCHANGED faults /\ good' = 0
      <4>1. PICK alerted \in SUBSET Tasks :
              /\ t \in Tasks \ alerted =>
                   (Stuck(t) => MayMiss(started[t], StuckAfter) \/ MayMiss(warned[t], Cooldown))
              /\ warned' = [u \in Tasks |-> IF u \in alerted THEN 0 ELSE warned[u]]
              /\ told' = [u \in Tasks |-> IF u \in alerted THEN 0 ELSE told[u]]
        BY <2>2, <3>1 DEF CheckStuckTasks, Fault
      <4>2. CASE t \in alerted
        BY <3>1, <4>1, <4>2
      <4>3. CASE t \notin alerted
        <5>1. Stuck(t) /\ ~MayMiss(started[t], StuckAfter)
          BY <2>2, <3>1 DEF CheckStuckTasks, keyVars, Stuck, Reached, MayMiss, Age
        <5>2. warned[t] <= Cooldown
          BY <4>1, <4>3, <5>1 DEF MayMiss
        <5> QED BY <3>1, <4>1, <4>3, <5>2 DEF WarnedIsTold, Age
      <4> QED BY <4>2, <4>3
    <3>2. CASE UNCHANGED <<told, good>>
      BY <2>0, <2>2, <3>2 DEF CheckStuckTasks, keyVars
    <3> QED BY <2>2, <3>1, <3>2 DEF CheckStuckTasks
  <2>3. ASSUME NEW u \in Tasks, SetActiveTask(u) PROVE told'[t] <= Cooldown + good'
    BY <2>0, <2>3 DEF SetActiveTask, seenVars, Age
  <2>4. ASSUME active' \subseteq active, UNCHANGED <<started, told, good>>
        PROVE  told'[t] <= Cooldown + good'
    BY <2>0, <2>4
  <2>5. CASE StartWorker \/ UpdateWorkerHeartbeat \/ RemoveActiveTask \/ Sigterm \/ Stop \/ Crash
    BY <2>4, <2>5 DEF StartWorker, UpdateWorkerHeartbeat, RemoveActiveTask, Sigterm, Stop, Crash,
       keyVars, seenVars
  <2>6. CASE CheckLostHeartbeats \/ StopMonitor \/ NewMonitor
    BY <2>4, <2>6 DEF CheckLostHeartbeats, StopMonitor, NewMonitor, keyVars, seenVars
  <2>7. CASE UNCHANGED vars
    BY <2>4, <2>7 DEF vars, keyVars, seenVars
  <2> QED BY <2>1, <2>2, <2>3, <2>5, <2>6, <2>7 DEF Next, Worker
<1> QED BY CountedInit, CountedStep, ToldInit, ToldStep, <1>1, <1>2, PTL DEF Spec
=============================================================================
