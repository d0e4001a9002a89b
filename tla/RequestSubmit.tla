--------------------------- MODULE RequestSubmit ----------------------------
(***************************************************************************)
(* The state of the web UI's request handler (cmd/webui/internal/request)  *)
(* and Submit, which starts one agent for a user's request on a thread.    *)
(* Half of the state is in the process (slots, cancel functions,           *)
(* goroutines), half in Redis (the thread and its history); only Redis     *)
(* survives a restart.                                                     *)
(*                                                                         *)
(* One action is one Redis command and the in-process steps that follow it *)
(* up to the next one.  A request is one call of Submit: each draws a UUID.*)
(***************************************************************************)
EXTENDS Naturals, Sequences, FiniteSets

CONSTANTS Requests, Threads,
          ThreadOf,      \* the thread a request is submitted to
          MaxConcurrent, \* MAX_CONCURRENT_REQUESTS
          StreamJSON,    \* CLAUDE_OUTPUT_FORMAT is stream-json
          NoRequest,     \* an absent key or map entry
          Env,           \* what the environment may do in this instance
          MaxFaults      \* bound on failed commands, panics, stops and crashes

HandlerEvents == {"cancel", "deadline", "tasks", "handTasks", "redisError", "disconnect",
                  "panic", "stop", "crash", "runningExpiry", "shortTTL"}

ASSUME HandlerAssumption ==
  /\ ThreadOf \in [Requests -> Threads]
  /\ MaxConcurrent \in Nat \ {0}
  /\ StreamJSON \in BOOLEAN
  /\ NoRequest \notin Requests
  /\ Env \subseteq HandlerEvents
  /\ MaxFaults \in Nat

VARIABLES
  running,  \* thread:<id>:running, the request that holds it
  complete, \* the threads whose thread:<id>:complete is set
  status,   \* field status of thread:<id>:current_state, "absent" without the key
  history,  \* thread:<id>:messages, as a sequence of <<request, type>>
  sem,      \* slots of h.sem in use
  cancels,  \* h.cancels, the request whose cancel function is registered
  pc,       \* where Submit, and then the goroutine, of a request is
  ctx,      \* the context of the request's process
  verdict,  \* what the goroutine will write
  gone,     \* the requests whose HTTP client has disconnected
  calls,    \* the threads on which a Cancel call has yet to write the status
  server,   \* the web UI process
  task,     \* the sequential task on a thread: none, holding its lock, or settled
  faults

keyVars     == <<running, complete, status, history>>
processVars == <<sem, cancels, ctx, verdict, calls, server>>
envVars     == <<gone, task, faults>>
vars        == <<keyVars, processVars, envVars, pc>>

SubmitPcs == {"exists", "create", "acquire", "append", "session", "clear", "lookup",
              "setRunning", "register", "release"}
WritePcs  == {"complete", "say", "look", "settle"}
GoPcs     == {"start", "started", "agent", "cleanup", "unlock", "forget"} \union WritePcs
Ended     == {"refused", "failed", "done", "killed"}
Verdicts  == {"none", "response", "error", "dedup", "panic"}
Statuses  == {"absent", "initiated", "running", "complete", "error", "cancelled"}

HandlerTypeOK ==
  /\ running \in [Threads -> Requests \union {NoRequest}]
  /\ complete \subseteq Threads
  /\ status \in [Threads -> Statuses]
  /\ history \in [Threads -> Seq(Requests \X {"request", "plan", "response", "error"})]
  /\ sem \in 0 .. MaxConcurrent
  /\ cancels \in [Threads -> Requests \union {NoRequest}]
  /\ pc \in [Requests -> {"idle"} \union SubmitPcs \union GoPcs \union Ended]
  /\ ctx \in [Requests -> {"live", "cancelled", "deadline"}]
  /\ verdict \in [Requests -> Verdicts]
  /\ gone \subseteq Requests
  /\ calls \subseteq Threads
  /\ server \in {"up", "waiting", "drained", "expired"}
  /\ task \in [Threads -> {"none", "held", "settled"}]
  /\ faults \in 0 .. MaxFaults

Init ==
  /\ running = [th \in Threads |-> NoRequest]
  /\ complete = {}
  /\ status = [th \in Threads |-> "absent"]
  /\ history = [th \in Threads |-> << >>]
  /\ sem = 0
  /\ cancels = [th \in Threads |-> NoRequest]
  /\ pc = [r \in Requests |-> "idle"]
  /\ ctx = [r \in Requests |-> "live"]
  /\ verdict = [r \in Requests |-> "none"]
  /\ gone = {}
  /\ calls = {}
  /\ server = "up"
  /\ task = [th \in Threads |-> "none"]
  /\ faults = 0

-----------------------------------------------------------------------------
Goto(r, from, to) == pc[r] = from /\ pc' = [pc EXCEPT ![r] = to]

Fault(kind) ==
  /\ kind \in Env
  /\ faults < MaxFaults
  /\ faults' = faults + 1

Write(r, kind) == history' = [history EXCEPT ![ThreadOf[r]] = Append(@, <<r, kind>>)]

SetStatus(th, s) == status' = [status EXCEPT ![th] = s]

\* Where Submit goes when the command at a point fails: up to the lock it
\* gives back its slot and returns an error, then it releases the lock first;
\* later errors are only logged, and an unknown lock reads as "not locked".
OnError(at) ==
  CASE at \in {"exists", "create", "acquire", "release"} -> "failed"
    [] at \in {"append", "session"} -> "release"
    [] at = "clear" -> "lookup"
    [] at = "lookup" -> "setRunning"
    [] at = "setRunning" -> "register"

\* <-h.sem, when the call ends here.
GiveBack(to) == sem' = IF to \in {"refused", "failed"} THEN sem - 1 ELSE sem

\* Redis runs the command at a point; its error may still come back.
Ran(r, at, next) ==
  \E to \in {next, OnError(at)} :
    /\ r \notin gone
    /\ Goto(r, at, to)
    /\ GiveBack(to)
    /\ IF to = next THEN UNCHANGED faults ELSE Fault("redisError")

\* The command never runs.  Once the HTTP client is gone none does: they all
\* carry the context of its connection.
CommandFails(r) ==
  /\ \E at \in SubmitPcs \ {"register"} :
       Goto(r, at, OnError(at)) /\ GiveBack(OnError(at))
  /\ IF r \in gone THEN UNCHANGED faults ELSE Fault("redisError")
  /\ UNCHANGED <<keyVars, cancels, ctx, verdict, calls, server, gone, task>>

-----------------------------------------------------------------------------
\* Submit takes a slot, or is refused at once.
TakeSlot(r) ==
  /\ server \in {"up", "waiting"}
  /\ IF sem < MaxConcurrent
       THEN Goto(r, "idle", "exists") /\ sem' = sem + 1
       ELSE Goto(r, "idle", "refused") /\ UNCHANGED sem
  /\ UNCHANGED <<keyVars, cancels, ctx, verdict, calls, server, envVars>>

ThreadExists(r) ==
  /\ Ran(r, "exists", IF status[ThreadOf[r]] = "absent" THEN "create" ELSE "acquire")
  /\ UNCHANGED <<keyVars, cancels, ctx, verdict, calls, server, gone, task>>

\* Mutant: a call that creates the thread does not lock it.
CreateUnlocked(r) ==
  /\ Ran(r, "create", "append")
  /\ SetStatus(ThreadOf[r], "initiated")
  /\ UNCHANGED <<running, complete, history, cancels, ctx, verdict, calls, server, gone, task>>

\* CreateThread: HSET, whether or not the thread has come to exist meanwhile.
CreateThread(r) ==
  /\ Ran(r, "create", "acquire")
  /\ SetStatus(ThreadOf[r], "initiated")
  /\ UNCHANGED <<running, complete, history, cancels, ctx, verdict, calls, server, gone, task>>

\* Mutant: the refused call keeps its slot.
AcquireKeepsSlot(r) ==
  /\ pc[r] = "acquire" /\ r \notin gone
  /\ IF running[ThreadOf[r]] = NoRequest
       THEN Goto(r, "acquire", "append") /\ running' = [running EXCEPT ![ThreadOf[r]] = r]
       ELSE Goto(r, "acquire", "refused") /\ UNCHANGED running
  /\ UNCHANGED <<complete, status, history, sem, cancels, ctx, verdict, calls, server, envVars>>

\* Mutant: a lock that is taken does not refuse the call.
AcquireAnyway(r) ==
  /\ Ran(r, "acquire", "append")
  /\ running' = [running EXCEPT ![ThreadOf[r]] = IF @ = NoRequest THEN r ELSE @]
  /\ UNCHANGED <<complete, status, history, cancels, ctx, verdict, calls, server, gone, task>>

\* SET NX of thread:<id>:running.
AcquireRequestLock(r) ==
  /\ IF running[ThreadOf[r]] = NoRequest
       THEN Ran(r, "acquire", "append") /\ running' = [running EXCEPT ![ThreadOf[r]] = r]
       ELSE Ran(r, "acquire", "refused") /\ UNCHANGED running
  /\ UNCHANGED <<complete, status, history, cancels, ctx, verdict, calls, server, gone, task>>

\* RPUSH of the user's message.
AppendRequest(r) ==
  /\ Ran(r, "append", "session")
  /\ Write(r, "request")
  /\ UNCHANGED <<running, complete, status, cancels, ctx, verdict, calls, server, gone, task>>

\* GET, and SET for a new one, of the session id.
ChooseSession(r) ==
  /\ Ran(r, "session", "clear")
  /\ UNCHANGED <<keyVars, cancels, ctx, verdict, calls, server, gone, task>>

\* A call that fails with the lock in hand deletes it; the error is dropped.
ReleaseRequestLock(r) ==
  /\ Ran(r, "release", "failed")
  /\ running' = [running EXCEPT ![ThreadOf[r]] = NoRequest]
  /\ UNCHANGED <<complete, status, history, cancels, ctx, verdict, calls, server, gone, task>>

\* Mutant: the mark of the previous answer stays.
ClearNothing(r) ==
  /\ Ran(r, "clear", "lookup")
  /\ UNCHANGED <<keyVars, cancels, ctx, verdict, calls, server, gone, task>>

ClearThreadComplete(r) ==
  /\ Ran(r, "clear", "lookup")
  /\ complete' = complete \ {ThreadOf[r]}
  /\ UNCHANGED <<running, status, history, cancels, ctx, verdict, calls, server, gone, task>>

IsThreadLocked(r) ==
  /\ Ran(r, "lookup", IF task[ThreadOf[r]] = "none" THEN "setRunning" ELSE "register")
  /\ UNCHANGED <<keyVars, cancels, ctx, verdict, calls, server, gone, task>>

SetRunning(r) ==
  /\ Ran(r, "setRunning", "register")
  /\ SetStatus(ThreadOf[r], "running")
  /\ UNCHANGED <<running, complete, history, cancels, ctx, verdict, calls, server, gone, task>>

\* The cancel function is registered and the goroutine starts.
Register(r) ==
  /\ Goto(r, "register", "start")
  /\ cancels' = [cancels EXCEPT ![ThreadOf[r]] = r]
  /\ UNCHANGED <<keyVars, sem, ctx, verdict, calls, server, envVars>>

Submit(r) ==
  \/ ThreadExists(r) \/ CreateThread(r) \/ AcquireRequestLock(r) \/ AppendRequest(r)
  \/ ChooseSession(r) \/ ReleaseRequestLock(r) \/ ClearThreadComplete(r)
  \/ IsThreadLocked(r) \/ SetRunning(r) \/ Register(r)
=============================================================================
