---------------------------- MODULE TaskRecovery ----------------------------
(***************************************************************************)
(* The task queue with RequeueStale, which an operator runs by hand to     *)
(* recover payloads that a dead worker left in its processing list.  It    *)
(* works on a snapshot of the list, one Redis command at a time, while     *)
(* workers and clients go on.                                              *)
(***************************************************************************)
EXTENDS TaskQueue

CONSTANTS MaxScans,   \* bound on the runs of requeue-stale
          Impatient   \* --older-than may be shorter than a task runs

ASSUME RecoveryAssumption == MaxScans \in Nat /\ Impatient \in BOOLEAN

VARIABLES rpc,     \* where RequeueStale is
          items,   \* copies per task still to visit of the LRANGE snapshot
          item,    \* the task it is at
          retries, \* task:<id>:retry_count
          scans    \* runs so far

requeueVars == <<rpc, items, item, retries, scans>>
allVars == <<vars, requeueVars>>

RequeueInit ==
  /\ rpc = "idle"
  /\ items = [t \in Tasks |-> 0]
  /\ item = NoTask
  /\ retries = [t \in Tasks |-> 0]
  /\ scans = 0

-----------------------------------------------------------------------------
At(from, to) == rpc = from /\ rpc' = to

\* LRANGE of one worker's processing list.
Scan(w) ==
  /\ At("idle", "next")
  /\ scans < MaxScans
  /\ scans' = scans + 1
  /\ items' = [t \in Tasks |-> IF WorkerOf[t] = w THEN processing[t] ELSE 0]
  /\ UNCHANGED <<vars, item, retries>>

\* A running task counts as stale when it started long enough ago; a task
\* that a worker still runs is that old only for an impatient operator.
Old(t) == Impatient \/ ~Held(t)

\* Mutant: the entry is removed before it is pushed back.
DecisionRemoves(t) ==
  CASE status[t] \in {"none", "pending"} -> "remove"
    [] status[t] = "running" -> IF Old(t) THEN "remove" ELSE "next"
    [] Terminal(status[t]) -> "gc"

\* GET status and last_started_at decide about one entry.
Decision(t) ==
  CASE status[t] \in {"none", "pending"} -> "push"
    [] status[t] = "running" -> IF Old(t) THEN "push" ELSE "next"
    [] Terminal(status[t]) -> "gc"

Visit(t) ==
  /\ items[t] > 0
  /\ At("next", Decision(t))
  /\ items' = [items EXCEPT ![t] = @ - 1]
  /\ item' = t
  /\ UNCHANGED <<vars, retries, scans>>

EndScan ==
  /\ \A t \in Tasks : items[t] = 0
  /\ At("next", "idle")
  /\ item' = NoTask
  /\ UNCHANGED <<vars, items, retries, scans>>

\* LREM of a finished task's entry.
CollectGarbage ==
  /\ At("gc", "next")
  /\ RemoveFromProcessing(item)
  /\ UNCHANGED <<lockVars, taskVars, groupVars, queue, messages, faults, clientVars, workerVars,
                 items, item, retries, scans>>

\* LPUSH of the payload back onto the queue.
PushBack ==
  /\ At("push", "remove")
  /\ PushQueue(item)
  /\ UNCHANGED <<lockVars, taskVars, groupVars, processing, messages, faults, clientVars,
                 workerVars, items, item, retries, scans>>

\* LREM from the processing list, every copy.
Remove ==
  /\ At("remove", "reset")
  /\ RemoveFromProcessing(item)
  /\ UNCHANGED <<lockVars, taskVars, groupVars, queue, messages, faults, clientVars, workerVars,
                 items, item, retries, scans>>

\* Mutant: requeueing clears the cancel flag.
ResetClearsCancel ==
  /\ At("reset", "count")
  /\ status' = [status EXCEPT ![item] = "pending"]
  /\ cancel' = cancel \ {item}
  /\ UNCHANGED <<lockVars, result, active, groupVars, listVars, messages, faults,
                 clientVars, workerVars, items, item, retries, scans>>

\* SET status pending, whatever it is by now.
Reset ==
  /\ At("reset", "count")
  /\ status' = [status EXCEPT ![item] = "pending"]
  /\ UNCHANGED <<lockVars, result, cancel, active, groupVars, listVars, messages, faults,
                 clientVars, workerVars, items, item, retries, scans>>

\* INCR retry_count.
CountRetry ==
  /\ At("count", "next")
  /\ retries' = [retries EXCEPT ![item] = @ + 1]
  /\ UNCHANGED <<vars, items, item, scans>>

\* A command fails and RequeueStale goes on: its effect is missing.
RequeueDropped ==
  /\ Fault("redisError")
  /\ \/ At("gc", "next") \/ At("push", "remove") \/ At("remove", "reset")
     \/ At("reset", "count") \/ At("count", "next")
  /\ UNCHANGED <<lockVars, taskVars, groupVars, listVars, messages, clientVars, workerVars,
                 items, item, retries, scans>>

\* A failed GET reads as an empty string: an unknown status means "requeue", an
\* unknown start of a running task means "leave it".
VisitBlind(t) ==
  /\ Fault("redisError")
  /\ items[t] > 0
  /\ At("next", "push") \/ (status[t] = "running" /\ At("next", "next"))
  /\ items' = [items EXCEPT ![t] = @ - 1]
  /\ item' = t
  /\ UNCHANGED <<lockVars, taskVars, groupVars, listVars, messages, clientVars, workerVars,
                 retries, scans>>

\* The command is interrupted between two steps; MaxScans bounds it.
OperatorDies ==
  /\ "operatorDeath" \in Env
  /\ rpc # "idle"
  /\ rpc' = "idle"
  /\ items' = [t \in Tasks |-> 0]
  /\ item' = NoTask
  /\ UNCHANGED <<vars, retries, scans>>

RequeueStale ==
  \/ \E w \in Workers : Scan(w)
  \/ \E t \in Tasks : Visit(t) \/ VisitBlind(t)
  \/ EndScan \/ CollectGarbage \/ PushBack \/ Remove \/ Reset \/ CountRetry
  \/ RequeueDropped \/ OperatorDies

RecoveryInit == Init /\ RequeueInit
RecoveryNext == \/ Next /\ UNCHANGED requeueVars
                \/ RequeueStale

RecoverySpec == RecoveryInit /\ [][RecoveryNext]_allVars

-----------------------------------------------------------------------------
\* A pushed payload without an outcome is in the queue, in the processing list
\* or in the hands of a live worker ("no data loss").  RequeueStale pushes before
\* it removes, so it may be interrupted anywhere, and repeated, and run on tasks
\* a worker still holds; one crash, lost reply or failed command loses nothing.
NothingLost ==
  \A t \in Tasks : Pushed(t) /\ result[t] = "none" => InFlight(t) \/ Held(t)

\* Requeueing keeps a cancel flag: a task cancelled while no worker holds it is
\* never started again, however often it is requeued.
CancelSurvives ==
  \A t \in Tasks : \A n \in 0 .. MaxScans + 1 :
    []((t \in cancel /\ ~Held(t) /\ starts[t] = n) => [](starts[t] = n))
=============================================================================
