----------------------------- MODULE TaskClient -----------------------------
(***************************************************************************)
(* The clients of the task queue: Enqueue, EnqueueGroup, WaitTask,         *)
(* CancelTask and UnlockThread of tasklib, as the task CLI calls them.     *)
(* pc[t] is where the call that creates t, and later the wait on t, is.    *)
(***************************************************************************)
EXTENDS TaskKeys

VARIABLES pc,      \* where the calls about t are
          holder,  \* the lock holder Enqueue read
          seen     \* the status WaitTask read last

clientVars == <<pc, holder, seen>>

\* Enqueue and EnqueueGroup are under way at these points.
Enqueuing == {"holder", "check", "clear", "reacquire", "release", "append",
              "sadd", "label", "push", "init", "rollback"}
\* The call was refused, returned an error, or died with its process.
Stopped   == {"refused", "error", "dead"}
Waiting   == {"poll", "settle", "unlock"}
PcValues  == {"idle", "enqueued", "left", "waited"} \union Enqueuing \union Stopped \union Waiting

ClientTypeOK ==
  /\ pc \in [Tasks -> PcValues]
  /\ holder \in [Tasks -> Tasks \union {NoTask}]
  /\ seen \in [Tasks -> TaskStatus]

ClientInit ==
  /\ pc = [t \in Tasks |-> "idle"]
  /\ holder = [t \in Tasks |-> NoTask]
  /\ seen = [t \in Tasks |-> "none"]

-----------------------------------------------------------------------------
Goto(t, from, to) == pc[t] = from /\ pc' = [pc EXCEPT ![t] = to]

\* An orchestrator runs one task command at a time on a thread, and does not
\* come back to wait for a task once it has gone on ("parallelCalls" lifts
\* this: several clients, or commands in the background).  Group tasks fan out.
CallerFree(t) ==
  \/ "parallelCalls" \in Env
  \/ \A u \in Tasks \ {t} : ThreadOf[u] = ThreadOf[t] =>
       \/ pc[u] \in {"idle", "left", "waited"} \union Stopped
       \/ {t, u} \subseteq Grouped /\ pc[u] = "enqueued"

\* The orchestrator goes on without waiting for t.
Leave(t) ==
  /\ "parallelCalls" \notin Env
  /\ Goto(t, "enqueued", "left")
  /\ UNCHANGED <<redisVars, holder, seen>>

\* Mutant: a sequential task's instruction is not written to the history.
LockedNoHistory(t) == IF t \in Grouped THEN "release" ELSE "push"

\* Where the lock leads: a group task releases its gate at once.
Locked(t) == IF t \in Grouped THEN "release" ELSE "append"

\* Where the call goes when the command at a point fails.  Enqueue deletes the
\* lock again and EnqueueGroup leaves the group; a failed GET or status lookup
\* reads as "no active holder", a failed DEL of the gate is ignored.
OnError(t, at) ==
  CASE at \in {"label", "push", "init"} -> "rollback"
    [] at = "append" -> IF t \in Grouped THEN "error" ELSE "rollback"
    [] at = "holder" -> "check"
    [] at = "check" -> "clear"
    [] at = "release" -> "append"
    [] at \in {"idle", "clear", "reacquire", "sadd", "rollback"} -> "error"

\* Redis runs the command at a point; its reply may still be lost.
Ran(t, at, next) ==
  \/ Goto(t, at, next) /\ UNCHANGED faults
  \/ Goto(t, at, OnError(t, at)) /\ Fault("redisError")

\* The command never reaches Redis.
CommandFails(t) ==
  /\ \E at \in {"idle"} \union Enqueuing : Goto(t, at, OnError(t, at))
  /\ Fault("redisError")
  /\ pc[t] = "idle" => CallerFree(t)
  /\ holder' = IF pc[t] = "holder" THEN [holder EXCEPT ![t] = NoTask] ELSE holder
  /\ UNCHANGED <<lockVars, taskVars, groupVars, listVars, messages, seen>>

TryLock(t, from, otherwise) ==
  \E got \in BOOLEAN :
    /\ SetLockNX(t, got)
    /\ Ran(t, from, IF got THEN Locked(t) ELSE otherwise)

\* Mutant: EnqueueGroup without its gate.
AcquireNoGate(t) ==
  /\ CallerFree(t)
  /\ IF t \in Grouped THEN Goto(t, "idle", "append") /\ UNCHANGED <<lock, faults>>
                      ELSE TryLock(t, "idle", "holder")
  /\ UNCHANGED <<threadStatus, taskVars, groupVars, listVars, messages, holder, seen>>

\* The lock script (a gate SET NX for a group task) of a new call.
Acquire(t) ==
  /\ CallerFree(t)
  /\ TryLock(t, "idle", "holder")
  /\ UNCHANGED <<threadStatus, taskVars, groupVars, listVars, messages, holder, seen>>

\* GET of the lock that could not be acquired.
ReadHolder(t) ==
  /\ Goto(t, "holder", "check")
  /\ holder' = [holder EXCEPT ![t] = lock[ThreadOf[t]]]
  /\ UNCHANGED <<redisVars, seen>>

\* isTaskActive on that holder: an active one refuses the call.
CheckHolder(t) ==
  /\ Goto(t, "check", IF IsTaskActive(holder[t]) THEN "refused" ELSE "clear")
  /\ UNCHANGED <<redisVars, holder, seen>>

\* DEL of a lock found stale; nothing says it is still that holder's.
ClearStale(t) ==
  /\ Ran(t, "clear", "reacquire")
  /\ DelLock(ThreadOf[t])
  /\ UNCHANGED <<threadStatus, taskVars, groupVars, listVars, messages, holder, seen>>

Reacquire(t) ==
  /\ TryLock(t, "reacquire", "refused")
  /\ UNCHANGED <<threadStatus, taskVars, groupVars, listVars, messages, holder, seen>>

\* EnqueueGroup lets go of its gate.
ReleaseGate(t) ==
  /\ Goto(t, "release", "append")
  /\ DelLock(ThreadOf[t])
  /\ UNCHANGED <<threadStatus, taskVars, groupVars, listVars, messages, faults, holder, seen>>

\* Mutant: a group task is pushed before it joins its group.
AppendThenPush(t) ==
  /\ Ran(t, "append", "push")
  /\ messages' = messages \union {<<t, "instruction">>}
  /\ UNCHANGED <<lockVars, taskVars, groupVars, listVars, holder, seen>>

\* RPUSH of the instruction to the thread's history.
AppendInstruction(t) ==
  /\ Ran(t, "append", IF t \in Grouped THEN "sadd" ELSE "push")
  /\ messages' = messages \union {<<t, "instruction">>}
  /\ UNCHANGED <<lockVars, taskVars, groupVars, listVars, holder, seen>>

JoinGroup(t) ==
  /\ Ran(t, "sadd", "label")
  /\ members' = members \union {t}
  /\ UNCHANGED <<lockVars, taskVars, labelled, listVars, messages, holder, seen>>

SetGroup(t) ==
  /\ Ran(t, "label", "push")
  /\ labelled' = labelled \union {t}
  /\ UNCHANGED <<lockVars, taskVars, members, listVars, messages, holder, seen>>

\* LPUSH of the payload: from here on the worker may take it.
Push(t) ==
  /\ Ran(t, "push", "init")
  /\ PushQueue(t)
  /\ UNCHANGED <<lockVars, taskVars, groupVars, processing, messages, holder, seen>>

\* The pipeline that sets status=pending, after the push.
InitKeys(t) ==
  /\ Ran(t, "init", "enqueued")
  /\ status' = [status EXCEPT ![t] = "pending"]
  /\ UNCHANGED <<lockVars, result, cancel, active, groupVars, listVars, messages, holder, seen>>

\* Best effort: DEL of the lock, or SREM from the group.
Rollback(t) ==
  /\ Goto(t, "rollback", "error")
  /\ IF t \in Grouped THEN members' = members \ {t} /\ UNCHANGED lock
                      ELSE DelLock(ThreadOf[t]) /\ UNCHANGED members
  /\ UNCHANGED <<threadStatus, taskVars, labelled, listVars, messages, faults, holder, seen>>

Enqueue(t) ==
  \/ Acquire(t) \/ ReadHolder(t) \/ CheckHolder(t) \/ ClearStale(t)
  \/ Reacquire(t) \/ ReleaseGate(t) \/ AppendInstruction(t) \/ JoinGroup(t)
  \/ SetGroup(t) \/ Push(t) \/ InitKeys(t) \/ Rollback(t)

-----------------------------------------------------------------------------
\* WaitTask finds the status key and starts to poll.
StartWait(t) ==
  /\ status[t] # "none"
  /\ Goto(t, "enqueued", "poll")
  /\ UNCHANGED <<redisVars, holder, seen>>

\* Mutant: the first poll ends the loop.
PollOnce(t) ==
  /\ Goto(t, "poll", "settle")
  /\ seen' = [seen EXCEPT ![t] = status[t]]
  /\ UNCHANGED <<redisVars, holder>>

\* A poll that reads a terminal status ends the loop.
PollTerminal(t) ==
  /\ Terminal(status[t])
  /\ Goto(t, "poll", "settle")
  /\ seen' = [seen EXCEPT ![t] = status[t]]
  /\ UNCHANGED <<redisVars, holder>>

\* Mutant: the deadline is not looked at while the task is pending.
PollTimeoutStarted(t) ==
  /\ "waitTimeout" \in Env
  /\ status[t] = "running"
  /\ Goto(t, "poll", "settle")
  /\ seen' = [seen EXCEPT ![t] = status[t]]
  /\ UNCHANGED <<redisVars, holder>>

\* So does the deadline, with the status as it is.
PollTimeout(t) ==
  /\ "waitTimeout" \in Env
  /\ ~Terminal(status[t])
  /\ Goto(t, "poll", "settle")
  /\ seen' = [seen EXCEPT ![t] = status[t]]
  /\ UNCHANGED <<redisVars, holder>>

\* Mutant: every task status passes through.
ThreadStatusAsIs(s) == s

\* threadStatusFromTask: what is not terminal passes through.
ThreadStatusFromTask(s) ==
  CASE s = "done"   -> "complete"
    [] s = "failed" -> "error"
    [] OTHER        -> s

\* Mutant: the lock is kept when the task failed.
SettleKeepsLock(t) ==
  /\ Goto(t, "settle", IF t \in labelled \/ seen[t] = "failed" THEN "waited" ELSE "unlock")
  /\ threadStatus' = IF t \in labelled THEN threadStatus
                     ELSE [threadStatus EXCEPT ![ThreadOf[t]] = ThreadStatusFromTask(seen[t])]
  /\ UNCHANGED <<lock, taskVars, groupVars, listVars, messages, faults, holder, seen>>

\* updateThreadStatus, skipped for a task with a group label; a failed GET of
\* the label reads as none.
Settle(t) ==
  /\ pc[t] = "settle"
  /\ \/ t \in labelled /\ Goto(t, "settle", "waited") /\ UNCHANGED <<threadStatus, faults>>
     \/ /\ t \in labelled => "redisError" \in Env
        /\ Goto(t, "settle", "unlock")
        /\ threadStatus' = [threadStatus EXCEPT ![ThreadOf[t]] = ThreadStatusFromTask(seen[t])]
        /\ IF t \in labelled THEN Fault("redisError") ELSE UNCHANGED faults
  /\ UNCHANGED <<lock, taskVars, groupVars, listVars, messages, holder, seen>>

\* UnlockThread at the end of WaitTask.
WaitUnlock(t) ==
  /\ Goto(t, "unlock", "waited")
  /\ DelLock(ThreadOf[t])
  /\ UNCHANGED <<threadStatus, taskVars, groupVars, listVars, messages, faults, holder, seen>>

\* A Redis error in a wait: a failed GET ends it, the thread update and the DEL
\* of the lock are lost, or the CLI could not look up the thread to unlock.
WaitFails(t) ==
  /\ Fault("redisError")
  /\ \/ Goto(t, "poll", "error")
     \/ Goto(t, "settle", "unlock")
     \/ Goto(t, "settle", "waited")
     \/ Goto(t, "unlock", "waited")
  /\ UNCHANGED <<lockVars, taskVars, groupVars, listVars, messages, holder, seen>>

\* The wait's context is done: the commands of that branch carry the same
\* context, and the Redis client runs none of them.
WaitCancelled(t) ==
  /\ "contextDone" \in Env
  /\ Goto(t, "poll", "error")
  /\ UNCHANGED <<redisVars, holder, seen>>

WaitTask(t) == StartWait(t) \/ PollTerminal(t) \/ Settle(t) \/ WaitUnlock(t)

\* CancelTask: an existing task gets the cancel flag, its status is untouched.
CancelTask(t) ==
  /\ "cancel" \in Env
  /\ status[t] # "none"
  /\ cancel' = cancel \union {t}
  /\ UNCHANGED <<lockVars, status, result, active, groupVars, listVars, messages, faults, clientVars>>

\* task unlock --thread.
UnlockThread(th) ==
  /\ "manualUnlock" \in Env
  /\ DelLock(th)
  /\ UNCHANGED <<threadStatus, taskVars, groupVars, listVars, messages, faults, clientVars>>

\* The client process is killed between two commands.
ClientDies(t) ==
  /\ \E at \in Enqueuing \union Waiting : Goto(t, at, "dead")
  /\ Fault("clientDeath")
  /\ UNCHANGED <<lockVars, taskVars, groupVars, listVars, messages, holder, seen>>

ClientNext ==
  \/ \E t \in Tasks : \/ Enqueue(t) \/ CommandFails(t) \/ WaitTask(t) \/ PollTimeout(t)
                      \/ WaitFails(t) \/ WaitCancelled(t) \/ Leave(t)
                      \/ CancelTask(t) \/ ClientDies(t)
  \/ \E th \in Threads : UnlockThread(th) \/ (LockExpire(th) /\ UNCHANGED clientVars)
=============================================================================
