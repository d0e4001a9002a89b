--------------------------- MODULE RequestHandler ---------------------------
(***************************************************************************)
(* The request handler at work: Submit, the goroutine that runs the agent  *)
(* and writes its answer, Cancel, Shutdown and the restart of the server.  *)
(***************************************************************************)
EXTENDS RequestSubmit

-----------------------------------------------------------------------------
(* The goroutine of a request (runSubprocess). *)

\* cmd.Start: with a context that is already done it fails, as it does when
\* the workspace, the pipe or the program is missing.
StartAgent(r) ==
  /\ \/ ctx[r] = "live" /\ Goto(r, "start", "started") /\ UNCHANGED verdict
     \/ Goto(r, "start", "complete") /\ verdict' = [verdict EXCEPT ![r] = "error"]
  /\ UNCHANGED <<keyVars, sem, cancels, ctx, calls, server, envVars>>

\* A cancellation seen right after the start ends the goroutine.
CheckContext(r) ==
  /\ Goto(r, "started", IF ctx[r] = "live" THEN "agent" ELSE "cleanup")
  /\ UNCHANGED <<keyVars, processVars, envVars>>

\* A line of the agent's output goes to the history while it works; one per
\* request stands for all.
Progress(r) ==
  /\ pc[r] = "agent"
  /\ \A i \in DOMAIN history[ThreadOf[r]] : history[ThreadOf[r]][i] # <<r, "plan">>
  /\ Write(r, "plan")
  /\ UNCHANGED <<running, complete, status, processVars, envVars, pc>>

\* Mutant: a cancelled agent is not stopped.
AgentEndsAlone(r) ==
  /\ ctx[r] = "live"
  /\ Goto(r, "agent", "complete")
  /\ \E v \in {"response", "error"} \union (IF StreamJSON THEN {"dedup"} ELSE {}) :
       verdict' = [verdict EXCEPT ![r] = v]
  /\ UNCHANGED <<keyVars, sem, cancels, ctx, calls, server, envVars>>

\* The output ends, or in stream-json a result line arrives.  Text mode reports
\* a cancelled or timed out context as an error whatever the agent printed; a
\* result line counts even then, and may repeat what was said ("dedup").
AgentEnds(r) ==
  /\ Goto(r, "agent", "complete")
  /\ \E v \in {"response", "error", "dedup"} :
       /\ v = "dedup" => StreamJSON
       /\ v = "response" => StreamJSON \/ ctx[r] = "live"
       /\ verdict' = [verdict EXCEPT ![r] = v]
  /\ UNCHANGED <<keyVars, sem, cancels, ctx, calls, server, envVars>>

\* The goroutine panics, anywhere before its clean-up.  The deferred clean-up
\* runs first, and then the recovering function writes an error message.  An
\* agent that was working is left behind and works on outside this model.
Panic(r) ==
  /\ Fault("panic")
  /\ pc[r] \in {"start", "started", "agent"} \union WritePcs /\ verdict[r] # "panic"
  /\ pc' = [pc EXCEPT ![r] = "cleanup"]
  /\ verdict' = [verdict EXCEPT ![r] = "panic"]
  /\ UNCHANGED <<keyVars, sem, cancels, ctx, calls, server, gone, task>>

\* Where a written answer leads: to the clean-up, which a panic has behind it.
Written(r) == IF verdict[r] = "panic" THEN "done" ELSE "cleanup"

SetThreadComplete(r) ==
  /\ Goto(r, "complete", IF verdict[r] = "dedup" THEN "look" ELSE "say")
  /\ complete' = complete \union {ThreadOf[r]}
  /\ UNCHANGED <<running, status, history, processVars, envVars>>

AppendAnswer(r) ==
  /\ Goto(r, "say", "look")
  /\ Write(r, IF verdict[r] = "response" THEN "response" ELSE "error")
  /\ UNCHANGED <<running, complete, status, processVars, envVars>>

\* Mutant: the lock of the thread is not looked at.
LookAtNothing(r) ==
  /\ Goto(r, "look", "settle")
  /\ UNCHANGED <<keyVars, processVars, envVars>>

\* IsThreadLocked: a task that holds the thread's lock owns the status.
LookAtLock(r) ==
  /\ Goto(r, "look", IF task[ThreadOf[r]] = "none" THEN "settle" ELSE Written(r))
  /\ UNCHANGED <<keyVars, processVars, envVars>>

\* Mutant: only a good answer settles the status.
SettleGoodOnly(r) ==
  /\ Goto(r, "settle", Written(r))
  /\ IF verdict[r] \in {"response", "dedup"} THEN SetStatus(ThreadOf[r], "complete")
                                             ELSE UNCHANGED status
  /\ UNCHANGED <<running, complete, history, processVars, envVars>>

\* Mutant: the outcome of a task is written, not a thread's status.
SettleAsTask(r) ==
  /\ Goto(r, "settle", Written(r))
  /\ SetStatus(ThreadOf[r], IF verdict[r] \in {"response", "dedup"} THEN "done" ELSE "failed")
  /\ UNCHANGED <<running, complete, history, processVars, envVars>>

Settle(r) ==
  /\ Goto(r, "settle", Written(r))
  /\ SetStatus(ThreadOf[r], IF verdict[r] \in {"response", "dedup"} THEN "complete" ELSE "error")
  /\ UNCHANGED <<running, complete, history, processVars, envVars>>

\* <-h.sem comes before the lock is deleted.
Cleanup(r) ==
  /\ Goto(r, "cleanup", "unlock")
  /\ sem' = sem - 1
  /\ UNCHANGED <<keyVars, cancels, ctx, verdict, calls, server, envVars>>

\* Mutant: only an answered request deletes the lock.
UnlockAnswered(r) ==
  /\ Goto(r, "unlock", "forget")
  /\ running' = IF verdict[r] = "none" THEN running
                ELSE [running EXCEPT ![ThreadOf[r]] = NoRequest]
  /\ UNCHANGED <<complete, status, history, processVars, envVars>>

\* DEL of thread:<id>:running, whoever holds it.
Unlock(r) ==
  /\ Goto(r, "unlock", "forget")
  /\ running' = [running EXCEPT ![ThreadOf[r]] = NoRequest]
  /\ UNCHANGED <<complete, status, history, processVars, envVars>>

\* delete(h.cancels, threadID), whoever is registered.
Forget(r) ==
  /\ Goto(r, "forget", IF verdict[r] = "panic" THEN "complete" ELSE "done")
  /\ cancels' = [cancels EXCEPT ![ThreadOf[r]] = NoRequest]
  /\ UNCHANGED <<keyVars, sem, ctx, verdict, calls, server, envVars>>

\* A failed command of the goroutine is ignored; an unknown lock is left alone.
CommandDropped(r) ==
  /\ Fault("redisError")
  /\ \/ Goto(r, "complete", IF verdict[r] = "dedup" THEN "look" ELSE "say")
     \/ Goto(r, "say", "look")
     \/ \E at \in {"look", "settle"} : Goto(r, at, Written(r))
     \/ Goto(r, "unlock", "forget")
  /\ UNCHANGED <<keyVars, processVars, gone, task>>

RunSubprocess(r) ==
  \/ StartAgent(r) \/ CheckContext(r) \/ AgentEnds(r)
  \/ SetThreadComplete(r) \/ AppendAnswer(r) \/ LookAtLock(r) \/ Settle(r)
  \/ Cleanup(r) \/ Unlock(r) \/ Forget(r)

-----------------------------------------------------------------------------
(* Cancel, the deadline, Shutdown and the server. *)

\* h.Cancel takes the registered function out of the map and calls it.  One
\* Cancel call of a thread is under way at a time.
Cancel(th) ==
  /\ "cancel" \in Env
  /\ server \in {"up", "waiting"}
  /\ cancels[th] # NoRequest /\ th \notin calls
  /\ ctx' = [ctx EXCEPT ![cancels[th]] = IF @ = "live" THEN "cancelled" ELSE @]
  /\ cancels' = [cancels EXCEPT ![th] = NoRequest]
  /\ calls' = calls \union {th}
  /\ UNCHANGED <<keyVars, sem, verdict, server, envVars, pc>>

\* CancelRequest then writes the status; an error is only logged.
CancelRequest(th) ==
  /\ th \in calls
  /\ calls' = calls \ {th}
  /\ \/ SetStatus(th, "cancelled") /\ UNCHANGED faults
     \/ Fault("redisError") /\ UNCHANGED status
  /\ UNCHANGED <<running, complete, history, sem, cancels, ctx, verdict, server, gone, task, pc>>

\* REQUEST_TIMEOUT is hours: it ends while the agent works.
Deadline(r) ==
  /\ "deadline" \in Env
  /\ pc[r] = "agent" /\ ctx[r] = "live"
  /\ ctx' = [ctx EXCEPT ![r] = "deadline"]
  /\ UNCHANGED <<keyVars, sem, cancels, verdict, calls, server, envVars, pc>>

\* SIGTERM: Shutdown calls every cancel function that is registered now; the
\* HTTP server goes on accepting requests until Shutdown has returned.
Shutdown ==
  /\ Fault("stop")
  /\ server = "up"
  /\ server' = "waiting"
  /\ ctx' = [r \in Requests |-> IF cancels[ThreadOf[r]] = r /\ ctx[r] = "live"
                                THEN "cancelled" ELSE ctx[r]]
  /\ cancels' = [th \in Threads |-> NoRequest]
  /\ UNCHANGED <<keyVars, sem, verdict, calls, gone, task, pc>>

\* h.wg.Wait returns, or the grace period is over.
Drained ==
  /\ server = "waiting"
  /\ \/ (\A r \in Requests : pc[r] \notin GoPcs) /\ server' = "drained"
     \/ server' = "expired"
  /\ UNCHANGED <<keyVars, sem, cancels, ctx, verdict, calls, envVars, pc>>

\* The process is gone, its requests with it, and the container comes back.
Restart ==
  /\ pc' = [r \in Requests |-> IF pc[r] \in SubmitPcs \union GoPcs THEN "killed" ELSE pc[r]]
  /\ sem' = 0
  /\ cancels' = [th \in Threads |-> NoRequest]
  /\ calls' = {}
  /\ server' = "up"
  /\ UNCHANGED <<keyVars, ctx, verdict, gone, task>>

\* srv.Shutdown closes the listener, ListenAndServe returns and main ends.
Exit == server \in {"drained", "expired"} /\ Restart /\ UNCHANGED faults

Crash == Fault("crash") /\ Restart

-----------------------------------------------------------------------------
(* The HTTP client, the TTL of the lock and the tasks on a thread. *)

Disconnect(r) ==
  /\ "disconnect" \in Env
  /\ pc[r] \in SubmitPcs
  /\ gone' = gone \union {r}
  /\ UNCHANGED <<keyVars, processVars, task, faults, pc>>

\* The lock reaches its TTL, which is longer than any request runs unless
\* LOCK_TTL says otherwise.
RunningExpires(th) ==
  /\ running[th] # NoRequest
  /\ \/ "shortTTL" \in Env
     \/ "runningExpiry" \in Env /\ pc[running[th]] \in Ended
  /\ running' = [running EXCEPT ![th] = NoRequest]
  /\ UNCHANGED <<complete, status, history, processVars, envVars, pc>>

\* The agent enqueues a sequential task on its thread; by hand anybody may.
TaskLocks(th) ==
  /\ \/ "tasks" \in Env /\ \E r \in Requests : ThreadOf[r] = th /\ pc[r] = "agent"
     \/ "handTasks" \in Env /\ status[th] # "absent"
  /\ task[th] = "none"
  /\ task' = [task EXCEPT ![th] = "held"]
  /\ UNCHANGED <<keyVars, processVars, gone, faults, pc>>

\* WaitTask writes the thread's status, and then deletes the lock.
TaskSettles(th) ==
  /\ task[th] = "held"
  /\ task' = [task EXCEPT ![th] = "settled"]
  /\ \E s \in {"complete", "error"} : SetStatus(th, s)
  /\ UNCHANGED <<running, complete, history, processVars, gone, faults, pc>>

TaskUnlocks(th) ==
  /\ task[th] = "settled"
  /\ task' = [task EXCEPT ![th] = "none"]
  /\ UNCHANGED <<keyVars, processVars, gone, faults, pc>>

Next ==
  \/ \E r \in Requests : \/ TakeSlot(r) \/ Submit(r) \/ CommandFails(r) \/ RunSubprocess(r)
                         \/ Progress(r) \/ Panic(r) \/ CommandDropped(r)
                         \/ Deadline(r) \/ Disconnect(r)
  \/ \E th \in Threads : \/ Cancel(th) \/ CancelRequest(th) \/ RunningExpires(th)
                         \/ TaskLocks(th) \/ TaskSettles(th) \/ TaskUnlocks(th)
  \/ Shutdown \/ Drained \/ Exit \/ Crash

Spec == Init /\ [][Next]_vars

\* A call that has begun goes on, an agent ends (at the latest when its context
\* times out and exec kills it), and Redis keeps its TTLs.
FairSpec ==
  /\ Spec
  /\ \A r \in Requests : WF_vars(Submit(r) \/ CommandFails(r) \/ RunSubprocess(r))
  /\ \A th \in Threads : WF_vars(RunningExpires(th))
  /\ WF_vars(Drained) /\ WF_vars(Exit)

-----------------------------------------------------------------------------
\* The request is between its lock and the end of its clean-up; what a panic
\* writes comes after that.
InTurn(r) ==
  \/ pc[r] \in {"append", "session", "clear", "lookup", "setRunning", "register", "release",
                "start", "started", "agent", "cleanup", "unlock"}
  \/ pc[r] \in WritePcs /\ verdict[r] # "panic"

HasSlot(r) ==
  \/ pc[r] \in SubmitPcs \union {"start", "started", "agent", "cleanup"}
  \/ pc[r] \in WritePcs /\ verdict[r] # "panic"

Turn(th) ==
  IF \E r \in Requests : ThreadOf[r] = th /\ InTurn(r)
    THEN CHOOSE r \in Requests : ThreadOf[r] = th /\ InTurn(r)
    ELSE NoRequest

Turns == INSTANCE TurnTaking WITH turn <- [th \in Threads |-> Turn(th)]

\* The handler implements turn taking: whatever fails, stops or is cancelled,
\* a request opens its turn with the user's message and its plans and answer
\* follow with nothing of another request between (Submit's lock before the
\* message, the goroutine's answer before its clean-up).
TakesTurns == Turns!Spec

\* A slot of h.sem is in use for each request that has taken one and not given
\* it back: no error path of Submit and no end of a goroutine leaks one.
SlotsExact == sem = Cardinality({r \in Requests : HasSlot(r)})

\* At most one request of a thread is between lock and clean-up, so at most one
\* agent works on a thread ("only one claude -p invocation per thread").
OneAtATime ==
  \A r, u \in Requests : ThreadOf[r] = ThreadOf[u] /\ InTurn(r) /\ InTurn(u) => r = u

\* Whoever writes to a thread's history holds the thread's request lock.
WritesUnderLock ==
  [][\A th \in Threads :
       history'[th] # history[th] => running[th] = history'[th][Len(history'[th])][1]]_vars

\* While an agent works its thread is not marked complete: the mark of the
\* previous answer was cleared (ClearThreadComplete).
NotCompleteYet ==
  \A r \in Requests : pc[r] \in {"start", "started", "agent"} => ThreadOf[r] \notin complete

\* A thread does not stay "running" when no request, task or Cancel call is at
\* work on it.
StatusSettles ==
  \A th \in Threads :
    status[th] = "running" => Turn(th) # NoRequest \/ task[th] # "none" \/ th \in calls

\* A thread is busy (409) only while the request that locked it is processed.
BusyMeansRunning ==
  \A th \in Threads : running[th] # NoRequest => InTurn(running[th])

\* The handler leaves the status alone while a task that the agent enqueued
\* holds the thread's lock: WaitTask is going to write it.
StatusOwner ==
  [][\A r \in Requests :
       /\ pc[r] \in {"setRunning", "settle"} /\ pc'[r] # pc[r]
       /\ task[ThreadOf[r]] # "none"
       => status'[ThreadOf[r]] = status[ThreadOf[r]]]_vars

\* Every slot that was taken is given back.
SlotReturned == \A r \in Requests : HasSlot(r) ~> ~HasSlot(r)

\* The request lock of a call that got it is released.
LockFreed == \A r \in Requests : running[ThreadOf[r]] = r ~> running[ThreadOf[r]] # r
=============================================================================
