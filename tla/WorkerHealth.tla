---------------------------- MODULE WorkerHealth -----------------------------
(***************************************************************************)
(* How the system knows that a worker lives and that a task is stuck: the  *)
(* heartbeat goroutine of cmd/worker, the key worker:<name>:heartbeat with *)
(* its TTL, the active_tasks hash, and the alert monitor of the web UI     *)
(* (tasklib/monitor.go), which polls them.                                 *)
(*                                                                         *)
(* Time is counted in ticks of ten seconds.  What happened n ticks ago is  *)
(* kept as the age n, up to Horizon; the thing that is Horizon old may be  *)
(* older or may never have been.  A timer that is due fires before time    *)
(* goes on.                                                                *)
(***************************************************************************)
EXTENDS Naturals, FiniteSets

CONSTANTS Tasks, NoTask,
          Beat,        \* the ticker of the heartbeat goroutine
          TTL,         \* of the heartbeat key
          PollEvery,   \* the ticker of the monitor
          CheckEvery,  \* how often it looks for lost heartbeats
          LostAfter,   \* WorkerLostThreshold
          StuckAfter,  \* StuckThreshold
          Cooldown,    \* between two alerts about the same thing
          TaskTimeout, \* TASK_TIMEOUT
          Horizon,     \* ages are counted up to here
          MaxFaults    \* bound on failed commands, crashes and stops

ASSUME HealthAssumption ==
  /\ NoTask \notin Tasks
  /\ {Beat, TTL, PollEvery, CheckEvery, LostAfter, StuckAfter, Cooldown, TaskTimeout}
       \subseteq 1 .. Horizon
  /\ Horizon \in Nat
  /\ MaxFaults \in Nat

VARIABLES
  worker,   \* the process of the worker: running is false in "stopping"
  busy,     \* the task it runs
  ran,      \* for how long it has, 0 without a task
  ticked,   \* age of the last tick of its heartbeat ticker
  announced,\* heartbeatOnlineSent: a heartbeat of this process has reached Redis
  missed,   \* heartbeats in a row that did not reach Redis
  down,     \* for how long there is no process, 0 while there is one
  left,     \* TTL the heartbeat key has left, 0 without the key
  stamp,    \* age of last_heartbeat_at in its payload
  active,   \* the tasks that have an entry in active_tasks
  started,  \* age of started_at in that entry
  monitor,  \* where the alert monitor is
  polled,   \* age of the last tick of its ticker
  checked,  \* age of lastHeartbeatCheck
  warned,   \* age of lastStuckAlert
  told,     \* age of the last alert about a task, whoever sent it
  good,     \* age of the last poll that could read active_tasks
  lost,     \* an alert that the worker is lost was sent
  faults

workerVars  == <<worker, busy, ran, ticked, announced, missed, down>>
keyVars     == <<left, stamp, active, started>>
monitorVars == <<monitor, polled, checked, warned>>
seenVars    == <<told, good, lost>>
vars        == <<workerVars, keyVars, monitorVars, seenVars, faults>>

Age == 0 .. Horizon

HealthTypeOK ==
  /\ worker \in {"down", "up", "stopping"}
  /\ busy \in Tasks \union {NoTask}
  /\ ran \in 0 .. TaskTimeout
  /\ ticked \in 0 .. Beat
  /\ announced \in BOOLEAN
  /\ missed \in 0 .. MaxFaults
  /\ down \in Age
  /\ left \in 0 .. TTL
  /\ stamp \in Age
  /\ active \subseteq Tasks
  /\ started \in [Tasks -> Age]
  /\ monitor \in {"off", "idle", "beats"}
  /\ polled \in 0 .. PollEvery
  /\ checked \in Age
  /\ warned \in [Tasks -> Age]
  /\ told \in [Tasks -> Age]
  /\ good \in Age
  /\ lost \in BOOLEAN
  /\ faults \in 0 .. MaxFaults

Init ==
  /\ worker = "down" /\ busy = NoTask /\ ran = 0 /\ ticked = 0 /\ announced = FALSE
  /\ missed = 0 /\ down = Horizon
  /\ left = 0 /\ stamp = Horizon /\ active = {} /\ started = [t \in Tasks |-> Horizon]
  /\ monitor = "idle" /\ polled = 0 /\ checked = Horizon
  /\ warned = [t \in Tasks |-> Horizon]
  /\ told = [t \in Tasks |-> Horizon] /\ good = Horizon /\ lost = FALSE
  /\ faults = 0

-----------------------------------------------------------------------------
Fault == faults < MaxFaults /\ faults' = faults + 1

Older(age) == IF age < Horizon THEN age + 1 ELSE age
AllOlder(ages) == [t \in Tasks |-> Older(ages[t])]

\* Nothing is due: the heartbeat ticker, the monitor's ticker, the end of a
\* poll, the kill of an agent that has run for TASK_TIMEOUT.
NothingDue ==
  /\ worker = "up" => ticked < Beat
  /\ monitor # "off" => polled < PollEvery
  /\ monitor # "beats"
  /\ busy # NoTask => ran < TaskTimeout

Tick ==
  /\ NothingDue
  /\ ticked' = IF worker = "up" THEN ticked + 1 ELSE 0
  /\ ran' = IF busy # NoTask THEN ran + 1 ELSE 0
  /\ down' = IF worker = "down" THEN Older(down) ELSE 0
  /\ left' = IF left > 0 THEN left - 1 ELSE 0
  /\ stamp' = Older(stamp)
  /\ started' = AllOlder(started)
  /\ polled' = IF monitor = "off" THEN 0 ELSE polled + 1
  /\ checked' = Older(checked)
  /\ warned' = AllOlder(warned)
  /\ told' = AllOlder(told)
  /\ good' = Older(good)
  /\ UNCHANGED <<worker, busy, announced, missed, active, monitor, lost, faults>>

-----------------------------------------------------------------------------
(* The worker. *)

StartWorker ==
  /\ worker = "down"
  /\ worker' = "up" /\ ticked' = 0 /\ announced' = FALSE /\ missed' = 0 /\ down' = 0
  /\ UNCHANGED <<busy, ran, keyVars, monitorVars, seenVars, faults>>

\* Mutant: a heartbeat leaves the TTL of the key alone.
BeatKeepsTTL ==
  /\ worker = "up" /\ ticked = Beat
  /\ ticked' = 0 /\ announced' = TRUE /\ missed' = 0 /\ stamp' = 0
  /\ left' = IF left = 0 THEN TTL ELSE left
  /\ UNCHANGED <<worker, busy, ran, down, active, started, monitorVars, seenVars, faults>>

\* The ticker of the heartbeat goroutine: SETEX of the payload, stamped now, or
\* a failed command, which is only logged.
UpdateWorkerHeartbeat ==
  /\ worker = "up" /\ ticked = Beat
  /\ ticked' = 0
  /\ \/ left' = TTL /\ stamp' = 0 /\ announced' = TRUE /\ missed' = 0 /\ UNCHANGED faults
     \/ Fault /\ missed' = missed + 1 /\ UNCHANGED <<left, stamp, announced>>
  /\ UNCHANGED <<worker, busy, ran, down, active, started, monitorVars, seenVars>>

\* Mutant: the worker registers the task it had before.
RegisterBusy(t) ==
  /\ worker = "up" /\ busy = NoTask
  /\ busy' = t /\ ran' = 0
  /\ active' = active \union {busy}
  /\ started' = [started EXCEPT ![t] = 0]
  /\ UNCHANGED <<worker, ticked, announced, missed, down, left, stamp, monitorVars, seenVars, faults>>

\* The worker takes a task, maybe one that was requeued, and registers it; it
\* runs it as well if the HSET fails.
SetActiveTask(t) ==
  /\ worker = "up" /\ busy = NoTask
  /\ busy' = t /\ ran' = 0
  /\ \/ /\ active' = active \union {t}
        /\ started' = [started EXCEPT ![t] = 0]
        /\ UNCHANGED faults
     \/ Fault /\ UNCHANGED <<active, started>>
  /\ UNCHANGED <<worker, ticked, announced, missed, down, left, stamp, monitorVars, seenVars>>

\* The task ends, at the latest by TASK_TIMEOUT; HDEL, unless that fails.
RemoveActiveTask ==
  /\ busy # NoTask
  /\ busy' = NoTask /\ ran' = 0
  /\ \/ active' = active \ {busy} /\ UNCHANGED faults
     \/ Fault /\ UNCHANGED active
  /\ UNCHANGED <<worker, ticked, announced, missed, down, left, stamp, started, monitorVars, seenVars>>

\* SIGTERM: running is false, so the heartbeat goroutine ends; the task goes on.
Sigterm ==
  /\ Fault
  /\ worker = "up"
  /\ worker' = "stopping" /\ ticked' = 0
  /\ UNCHANGED <<busy, ran, announced, missed, down, keyVars, monitorVars, seenVars>>

Stop ==
  /\ worker = "stopping" /\ busy = NoTask
  /\ worker' = "down"
  /\ UNCHANGED <<busy, ran, ticked, announced, missed, down, keyVars, monitorVars, seenVars, faults>>

\* The worker dies with its task; the keys stay.
Crash ==
  /\ Fault
  /\ worker # "down"
  /\ worker' = "down" /\ busy' = NoTask /\ ran' = 0 /\ ticked' = 0
  /\ UNCHANGED <<announced, missed, down, keyVars, monitorVars, seenVars>>

-----------------------------------------------------------------------------
(* The alert monitor. *)

\* Something at least n ticks old is found to be; polls come a little early or
\* late, so that exactly n may measure as less.
Reached(age, n) == age >= n
MayMiss(age, n) == age <= n

\* An alert about a task is due, and its cooldown is over.
Stuck(t) == t \in active /\ Reached(started[t], StuckAfter)

\* Mutant: a poll reports one task and leaves the others to the next.
AlertOneStuck ==
  /\ monitor = "idle" /\ polled = PollEvery
  /\ polled' = 0 /\ good' = 0 /\ monitor' = "beats"
  /\ LET due == {t \in Tasks : Stuck(t) /\ Reached(warned[t], Cooldown)}
         one == IF due = {} THEN {} ELSE {CHOOSE t \in due : TRUE}
     IN /\ warned' = [t \in Tasks |-> IF t \in one THEN 0 ELSE warned[t]]
        /\ told' = [t \in Tasks |-> IF t \in one THEN 0 ELSE told[t]]
  /\ UNCHANGED <<workerVars, keyVars, checked, lost, faults>>

\* Mutant: the cooldown is not looked at.
AlertAllStuck ==
  /\ monitor = "idle" /\ polled = PollEvery
  /\ polled' = 0 /\ good' = 0 /\ monitor' = "beats"
  /\ warned' = [t \in Tasks |-> IF Stuck(t) THEN 0 ELSE warned[t]]
  /\ told' = [t \in Tasks |-> IF Stuck(t) THEN 0 ELSE told[t]]
  /\ UNCHANGED <<workerVars, keyVars, checked, lost, faults>>

\* checkStuckTasks: the entries that are old enough and whose cooldown is over
\* raise an alert, which is remembered whether or not the webhook takes it.
CheckStuckTasks ==
  /\ monitor = "idle" /\ polled = PollEvery
  /\ polled' = 0
  /\ monitor' = "beats"
  /\ \/ /\ \E alerted \in SUBSET {t \in Tasks : Stuck(t) /\ Reached(warned[t], Cooldown)} :
             /\ \A t \in Tasks \ alerted :
                  Stuck(t) => MayMiss(started[t], StuckAfter) \/ MayMiss(warned[t], Cooldown)
             /\ warned' = [t \in Tasks |-> IF t \in alerted THEN 0 ELSE warned[t]]
             /\ told' = [t \in Tasks |-> IF t \in alerted THEN 0 ELSE told[t]]
        /\ good' = 0
        /\ UNCHANGED faults
     \/ Fault /\ UNCHANGED <<warned, told, good>>
  /\ UNCHANGED <<workerVars, keyVars, checked, lost>>

\* checkLostHeartbeats: at most once in CheckEvery; a key that is there, whose
\* SCAN and GET succeed and whose payload is old enough raises an alert.
\* (Cooldown and names are left out: see NeverReportedLost.)
CheckLostHeartbeats ==
  /\ monitor = "beats"
  /\ monitor' = "idle"
  /\ \/ /\ Reached(checked, CheckEvery)
        /\ checked' = 0
        /\ \/ lost' = (lost \/ (left > 0 /\ Reached(stamp, LostAfter))) /\ UNCHANGED faults
           \/ Fault /\ UNCHANGED lost
     \/ MayMiss(checked, CheckEvery) /\ UNCHANGED <<checked, lost, faults>>
  /\ UNCHANGED <<workerVars, keyVars, polled, warned, told, good>>

\* The web UI restarts: the monitor's maps are in its memory.
StopMonitor ==
  /\ Fault
  /\ monitor # "off"
  /\ monitor' = "off" /\ polled' = 0
  /\ UNCHANGED <<workerVars, keyVars, checked, warned, seenVars>>

NewMonitor ==
  /\ monitor = "off"
  /\ monitor' = "idle" /\ checked' = Horizon /\ warned' = [t \in Tasks |-> Horizon]
  /\ UNCHANGED <<workerVars, keyVars, polled, seenVars, faults>>

Worker ==
  \/ StartWorker \/ UpdateWorkerHeartbeat \/ RemoveActiveTask \/ Sigterm \/ Stop \/ Crash
  \/ \E t \in Tasks : SetActiveTask(t)

Next ==
  \/ Tick \/ Worker
  \/ CheckStuckTasks \/ CheckLostHeartbeats \/ StopMonitor \/ NewMonitor

Spec == Init /\ [][Next]_vars

-----------------------------------------------------------------------------
\* GetWorkerStats and GetWorkerInstances: online is a key with a TTL.
Online == left > 0

\* A worker without a process is offline after the TTL at the latest, and one
\* that sends heartbeats is online as long as it misses fewer in a row than the
\* TTL has room for ("30s TTL, 20s margin").
OnlineHonest ==
  /\ worker = "down" /\ down >= TTL => ~Online
  /\ worker = "up" /\ announced /\ (missed + 1) * Beat < TTL => Online

\* A worker that is gone has been reported once the monitor has looked and found
\* its last heartbeat older than the threshold ("Worker heartbeat lost > 60s").
LostIsReported == worker = "down" /\ announced /\ stamp > LostAfter + checked => lost

\* No look ever finds a lost heartbeat: the key is gone before its payload is old
\* enough.
NeverReportedLost == ~lost

\* A task whose entry is older than the threshold by the time of a poll that
\* could read it has been reported, then or within the cooldown before.
StuckReported ==
  \A t \in active :
    started[t] > StuckAfter + good => told[t] <= Cooldown + good

\* Two alerts about a task are a cooldown apart, whoever runs it and however
\* often it starts, unless the web UI was restarted in between.
CooldownKept ==
  [][\A t \in Tasks :
       told'[t] = 0 /\ told[t] # 0 => told[t] >= Cooldown \/ warned[t] = Horizon]_vars
=============================================================================
