----------------------------- MODULE WorkerLoop -----------------------------
(***************************************************************************)
(* cmd/worker/main.go: one process per worker name.  It moves a payload to *)
(* its processing list, runs the agent and stores the outcome, one task at *)
(* a time; nothing recovers the processing list when it restarts.          *)
(***************************************************************************)
EXTENDS TaskKeys

VARIABLES wpc,    \* where processOneTask is
          hand,   \* the task whose payload the process holds
          starts  \* how often the agent was started for a task

workerVars == <<wpc, hand, starts>>

WorkerPcs == {"idle", "stopped", "taken", "registered", "running", "flagged", "agent",
              "stored", "cancelled", "replied", "unlisted"}

WorkerTypeOK ==
  /\ wpc \in [Workers -> WorkerPcs]
  /\ hand \in [Workers -> Tasks \union {NoTask}]
  /\ starts \in [Tasks -> Nat]

WorkerInit ==
  /\ wpc = [w \in Workers |-> "idle"]
  /\ hand = [w \in Workers |-> NoTask]
  /\ starts = [t \in Tasks |-> 0]

-----------------------------------------------------------------------------
Step(w, from, to) == wpc[w] = from /\ wpc' = [wpc EXCEPT ![w] = to]

\* BLMOVE returns a payload.
Take(w) ==
  /\ MoveToProcessing(w)
  /\ Step(w, "idle", "taken")
  /\ hand' = [hand EXCEPT ![w] = Head(queue[w])]
  /\ UNCHANGED <<lockVars, taskVars, groupVars, messages, faults, starts>>

\* Redis runs BLMOVE but the connection breaks before the reply: the loop
\* reconnects and never sees the payload.
TakeReplyLost(w) ==
  /\ Fault("lostReply")
  /\ wpc[w] = "idle"
  /\ MoveToProcessing(w)
  /\ UNCHANGED <<lockVars, taskVars, groupVars, messages, workerVars>>

\* SetActiveTask.
Register(w) ==
  /\ Step(w, "taken", "registered")
  /\ active' = active \union {hand[w]}
  /\ UNCHANGED <<lockVars, status, result, cancel, groupVars, listVars, messages, faults, hand, starts>>

\* The pipeline that sets status=running, whatever the status was.
SetRunning(w) ==
  /\ Step(w, "registered", "running")
  /\ status' = [status EXCEPT ![hand[w]] = "running"]
  /\ UNCHANGED <<lockVars, result, cancel, active, groupVars, listVars, messages, faults, hand, starts>>

\* Mutant: the cancel flag is not looked at.
CheckNothing(w) ==
  /\ Step(w, "running", "agent")
  /\ starts' = [starts EXCEPT ![hand[w]] = @ + 1]
  /\ UNCHANGED <<redisVars, hand>>

\* GET of the cancel flag; without it the agent starts.
CheckCancel(w) ==
  /\ Step(w, "running", IF hand[w] \in cancel THEN "flagged" ELSE "agent")
  /\ starts' = IF hand[w] \in cancel THEN starts ELSE [starts EXCEPT ![hand[w]] = @ + 1]
  /\ UNCHANGED <<redisVars, hand>>

\* The pipeline of the cancelled branch.
StoreCancelled(w) ==
  /\ Step(w, "flagged", "cancelled")
  /\ status' = [status EXCEPT ![hand[w]] = "cancelled"]
  /\ result' = [result EXCEPT ![hand[w]] = "cancelled"]
  /\ UNCHANGED <<lockVars, cancel, active, groupVars, listVars, messages, faults, hand, starts>>

\* The agent ends, fails or times out, and the result pipeline runs.
StoreResult(w) ==
  /\ Step(w, "agent", "stored")
  /\ \E outcome \in {"done", "failed"} :
       /\ status' = [status EXCEPT ![hand[w]] = outcome]
       /\ result' = [result EXCEPT ![hand[w]] = outcome]
  /\ UNCHANGED <<lockVars, cancel, active, groupVars, listVars, messages, faults, hand, starts>>

\* RPUSH of the reply to the thread's history.
Reply(w) ==
  /\ \E kind \in {"result", "cancelled"} :
       /\ Step(w, IF kind = "result" THEN "stored" ELSE "cancelled", "replied")
       /\ messages' = messages \union {<<hand[w], kind>>}
  /\ UNCHANGED <<lockVars, taskVars, groupVars, listVars, faults, hand, starts>>

\* LREM from the processing list.
Unlist(w) ==
  /\ Step(w, "replied", "unlisted")
  /\ RemoveFromProcessing(hand[w])
  /\ UNCHANGED <<lockVars, taskVars, groupVars, queue, messages, faults, hand, starts>>

\* RemoveActiveTask; back to the loop.
Deregister(w) ==
  /\ Step(w, "unlisted", "idle")
  /\ active' = active \ {hand[w]}
  /\ hand' = [hand EXCEPT ![w] = NoTask]
  /\ UNCHANGED <<lockVars, status, result, cancel, groupVars, listVars, messages, faults, starts>>

ProcessOneTask(w) ==
  \/ Register(w) \/ SetRunning(w) \/ CheckCancel(w) \/ StoreCancelled(w)
  \/ StoreResult(w) \/ Reply(w) \/ Unlist(w) \/ Deregister(w)

\* The worker ignores the error of every command: the step is taken and its
\* effect is missing.  A failed GET of the flag reads as "not cancelled".
CommandDropped(w) ==
  /\ Fault("workerError")
  /\ \/ Step(w, "taken", "registered")
     \/ Step(w, "registered", "running")
     \/ Step(w, "running", "agent")
     \/ Step(w, "flagged", "cancelled")
     \/ Step(w, "agent", "stored")
     \/ \E from \in {"stored", "cancelled"} : Step(w, from, "replied")
     \/ Step(w, "replied", "unlisted")
     \/ Step(w, "unlisted", "idle")
  /\ starts' = IF wpc[w] = "running" THEN [starts EXCEPT ![hand[w]] = @ + 1] ELSE starts
  /\ hand' = IF wpc[w] = "unlisted" THEN [hand EXCEPT ![w] = NoTask] ELSE hand
  /\ UNCHANGED <<lockVars, taskVars, groupVars, listVars, messages>>

\* Mutant: the container is not restarted.
RestartNever(w) == wpc[w] = "stopped" /\ wpc[w] = "idle" /\ UNCHANGED <<redisVars, workerVars>>

\* SIGTERM is looked at between two tasks; the container may come back.
Stop(w) ==
  /\ Fault("stop")
  /\ Step(w, "idle", "stopped")
  /\ UNCHANGED <<lockVars, taskVars, groupVars, listVars, messages, hand, starts>>

Restart(w) ==
  /\ Step(w, "stopped", "idle")
  /\ UNCHANGED <<redisVars, hand, starts>>

\* Mutant: the restarted worker puts what it had taken back onto its queue.
CrashRequeues(w) ==
  /\ Fault("crash")
  /\ wpc[w] \notin {"idle", "stopped"}
  /\ wpc' = [wpc EXCEPT ![w] = "idle"]
  /\ hand' = [hand EXCEPT ![w] = NoTask]
  /\ PushQueue(hand[w])
  /\ UNCHANGED <<lockVars, taskVars, groupVars, processing, messages, starts>>

\* SIGKILL or a crash: the process loses what it held, and the container is
\* restarted ("restart: unless-stopped").
WorkerCrash(w) ==
  /\ Fault("crash")
  /\ wpc[w] \notin {"idle", "stopped"}
  /\ wpc' = [wpc EXCEPT ![w] = "idle"]
  /\ hand' = [hand EXCEPT ![w] = NoTask]
  /\ UNCHANGED <<lockVars, taskVars, groupVars, listVars, messages, starts>>

WorkerNext ==
  \E w \in Workers : \/ Take(w) \/ TakeReplyLost(w) \/ ProcessOneTask(w) \/ CommandDropped(w)
                     \/ Stop(w) \/ Restart(w) \/ WorkerCrash(w)
=============================================================================
