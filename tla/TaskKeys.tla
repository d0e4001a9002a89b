------------------------------ MODULE TaskKeys ------------------------------
(***************************************************************************)
(* The Redis keys that tasklib and the worker share, and the commands on   *)
(* them that carry the task protocol.  Redis runs one command at a time,   *)
(* so one action of a component is one command (or one pipeline, or one    *)
(* script); a client keeps what it read in its own variables.              *)
(*                                                                         *)
(* A task is one call of Enqueue or EnqueueGroup: every call draws a new   *)
(* UUID.  Its thread, worker and kind never change.                        *)
(***************************************************************************)
EXTENDS Naturals, Sequences, FiniteSets

CONSTANTS Tasks, Threads, Workers,
          ThreadOf,   \* the thread a task is enqueued on
          WorkerOf,   \* the worker name it is enqueued for
          Grouped,    \* the tasks enqueued with a group label
          NoTask,     \* an absent key or an empty hand
          Env,        \* what the environment may do in this instance
          MaxFaults   \* bound on crashes, stops and failed commands

EnvEvents == {"crash", "lostReply", "redisError", "workerError", "clientDeath",
              "operatorDeath", "waitTimeout", "contextDone", "lockExpiry", "manualUnlock", "parallelCalls",
              "cancel", "stop"}

ASSUME KeysAssumption ==
  /\ ThreadOf \in [Tasks -> Threads]
  /\ WorkerOf \in [Tasks -> Workers]
  /\ Grouped \subseteq Tasks
  /\ NoTask \notin Tasks
  /\ Env \subseteq EnvEvents
  /\ MaxFaults \in Nat

VARIABLES
  lock,         \* thread:<id>:lock, the task that holds it
  status,       \* task:<id>:status, "none" while the key is missing
  result,       \* task:<id>:result, the outcome the worker stored last
  cancel,       \* the tasks whose task:<id>:cancel is set
  labelled,     \* the tasks whose task:<id>:group is set
  members,      \* thread:<id>:group:<label>:tasks, of all groups together
  queue,        \* tasks:queue:<worker>; Head is the right end, BLMOVE's side
  processing,   \* copies of a payload in tasks:processing:<its worker>
  active,       \* the fields of active_tasks
  messages,     \* thread:<id>:messages, as the set of <<task, kind>> in it
  threadStatus, \* field status of thread:<id>:current_state
  faults        \* crashes, stops and failed commands so far

lockVars    == <<lock, threadStatus>>
taskVars    == <<status, result, cancel, active>>
groupVars   == <<labelled, members>>
listVars    == <<queue, processing>>
redisVars   == <<lockVars, taskVars, groupVars, listVars, messages, faults>>

Outcomes     == {"done", "failed", "cancelled"}
TaskStatus   == {"none", "pending", "running"} \union Outcomes
ThreadStatus == {"initiated", "pending", "running", "complete", "error", "cancelled"}
MessageKinds == {"instruction", "result", "cancelled"}

KeysTypeOK ==
  /\ lock \in [Threads -> Tasks \union {NoTask}]
  /\ status \in [Tasks -> TaskStatus]
  /\ result \in [Tasks -> Outcomes \union {"none"}]
  /\ cancel \subseteq Tasks
  /\ labelled \subseteq Tasks
  /\ members \subseteq Tasks
  /\ queue \in [Workers -> Seq(Tasks)]
  /\ processing \in [Tasks -> Nat]
  /\ active \subseteq Tasks
  /\ messages \subseteq Tasks \X MessageKinds
  /\ threadStatus \in [Threads -> ThreadStatus]
  /\ faults \in Nat

KeysInit ==
  /\ lock = [th \in Threads |-> NoTask]
  /\ status = [t \in Tasks |-> "none"]
  /\ result = [t \in Tasks |-> "none"]
  /\ cancel = {}
  /\ labelled = {}
  /\ members = {}
  /\ queue = [w \in Workers |-> << >>]
  /\ processing = [t \in Tasks |-> 0]
  /\ active = {}
  /\ messages = {}
  /\ threadStatus = [th \in Threads |-> "initiated"]
  /\ faults = 0

-----------------------------------------------------------------------------
Terminal(s) == s \in Outcomes

\* Mutant: a task that has not started does not count as active.
IsTaskStarted(h) == h # NoTask /\ status[h] = "running"

\* client.go isTaskActive: a missing holder, a missing status and a terminal
\* status all read as "stale".
IsTaskActive(h) == h # NoTask /\ status[h] # "none" /\ ~Terminal(status[h])

\* SET NX of the lock key by t; got says whether it was acquired.
SetLockNX(t, got) ==
  /\ got = (lock[ThreadOf[t]] = NoTask)
  /\ lock' = IF got THEN [lock EXCEPT ![ThreadOf[t]] = t] ELSE lock

\* DEL of the lock key, whoever holds it.
DelLock(th) == lock' = [lock EXCEPT ![th] = NoTask]

\* LPUSH onto the task's queue.
PushQueue(t) == queue' = [queue EXCEPT ![WorkerOf[t]] = Append(@, t)]

\* Mutant: the payload is popped, no list keeps it.
PopOnly(w) ==
  /\ queue[w] # << >>
  /\ queue' = [queue EXCEPT ![w] = Tail(@)]
  /\ UNCHANGED processing

\* BLMOVE queue RIGHT -> processing LEFT, for worker w.
MoveToProcessing(w) ==
  /\ queue[w] # << >>
  /\ queue' = [queue EXCEPT ![w] = Tail(@)]
  /\ processing' = [processing EXCEPT ![Head(queue[w])] = @ + 1]

\* LREM processing 0 payload: every copy goes.
RemoveFromProcessing(t) == processing' = [processing EXCEPT ![t] = 0]

InQueue(t) == \E i \in DOMAIN queue[WorkerOf[t]] : queue[WorkerOf[t]][i] = t

\* One more crash, stop or failed command, of a kind this instance allows.
Fault(kind) ==
  /\ kind \in Env
  /\ faults < MaxFaults
  /\ faults' = faults + 1

\* thread:<id>:lock reaches its TTL (LockTTL, or 10 s for a group's gate).
LockExpire(th) ==
  /\ "lockExpiry" \in Env
  /\ lock[th] # NoTask
  /\ DelLock(th)
  /\ UNCHANGED <<threadStatus, taskVars, groupVars, listVars, messages, faults>>
=============================================================================
