--------------------------- MODULE ThreadDeletion ----------------------------
(***************************************************************************)
(* DELETE /api/threads/{id} of the web UI (internal/api/threads.go): a     *)
(* thread and everything below it goes, unless something is under way.     *)
(* The handler holds the request lock of the root only; requests and tasks *)
(* of the threads below, new threads and workers that finish go on while   *)
(* it checks and deletes, one Redis command at a time.                     *)
(*                                                                         *)
(* Requests and tasks appear as far as a deletion can meet them; modules   *)
(* RequestHandler and TaskQueue have them in full.                         *)
(***************************************************************************)
EXTENDS ThreadTree

CONSTANTS Threads, Tasks,
          TaskThread, \* the thread a task is enqueued on
          Parents,    \* parent_thread_id of the threads there are at first
          Callers,    \* the threads DELETE is called on, or on their workspace, once each
          NoThread, NoTask,
          Env,        \* what the environment may do in this instance
          MaxEvents   \* bound on crashes, failed commands and calls of create

DeletionEvents == {"redisError", "blindRead", "crash", "workerCrash", "create"}

ASSUME DeletionAssumption ==
  /\ IsFiniteSet(Threads)
  /\ Threads \intersect Tasks = {}
  /\ TaskThread \in [Tasks -> Threads]
  /\ Parents \in [Threads -> Threads \union {NoThread}]
  /\ Callers \subseteq Threads
  /\ NoThread \notin Threads /\ NoTask \notin Tasks
  /\ Env \subseteq DeletionEvents
  /\ MaxEvents \in Nat

VARIABLES
  exists,    \* the threads whose hash thread:<id>:current_state exists
  parent,    \* its field parent_thread_id
  running,   \* thread:<id>:running
  lock,      \* thread:<id>:lock, the task that holds it
  status,    \* task:<id>:status
  active,    \* the fields of active_tasks, which say "running"
  req,       \* where a request on a thread is
  tpc,       \* where the calls about a task, and then its worker, are
  creating,  \* calls of create between their checks and HSET
  dpc,       \* where the deletion of a thread is
  subtree,   \* descendants it discovered
  todo,      \* threads the loop it is in has not come to
  at,        \* the thread the loop is at
  holder,    \* the lock holder it read
  failed,    \* the deletions with a DEL that failed
  blind,     \* the deletions that dropped the error of a read
  earlier,   \* what was under way when it took the lock: tasks, and requests by thread
  events

threadVars == <<exists, parent>>
keyVars    == <<threadVars, running, lock, status, active>>
actorVars  == <<req, tpc, creating>>
deleteVars == <<dpc, subtree, todo, at, holder, failed, blind, earlier>>
vars       == <<keyVars, actorVars, deleteVars, events>>

Active(t) == status[t] \in {"pending", "running"}

\* The points at which the handler has the lock and has deleted nothing.
Checking == {"discover", "locked", "holder", "status", "unlock", "running", "tasks"}
Deleting == {"del", "clean"}

\* The points of the handler that removes a workspace only.
Workspace == {"ask", "remove"}

DeletionTypeOK ==
  /\ exists \subseteq Threads
  /\ parent \in [Threads -> Threads \union {NoThread}]
  /\ running \in [Threads -> {"free", "request", "deleting"}]
  /\ lock \in [Threads -> Tasks \union {NoTask}]
  /\ status \in [Tasks -> {"none", "pending", "running", "done"}]
  /\ req \in [Threads -> {"idle", "submit", "turn"}]
  /\ tpc \in [Tasks -> {"idle", "locked", "enqueued", "agent", "ended", "touched", "over"}]
  /\ creating \subseteq Threads \X Threads
  /\ dpc \in [Threads -> {"idle", "acquire", "release", "over"} \union Checking \union Deleting \union Workspace]
  /\ subtree \in [Threads -> SUBSET Threads]
  /\ todo \in [Threads -> SUBSET Threads]
  /\ at \in [Threads -> Threads \union {NoThread}]
  /\ holder \in [Threads -> Tasks \union {NoTask}]
  /\ \A r \in Threads :
       /\ dpc[r] \in {"holder", "status", "unlock", "running"} => at[r] \in Threads
       /\ dpc[r] \in {"status", "unlock"} => holder[r] \in Tasks
  /\ active \subseteq Tasks
  /\ failed \subseteq Threads
  /\ blind \subseteq Threads
  /\ earlier \in [Threads -> SUBSET (Tasks \union Threads)]
  /\ events \in 0 .. MaxEvents

Init ==
  /\ exists = Threads
  /\ parent = Parents
  /\ running = [th \in Threads |-> "free"]
  /\ lock = [th \in Threads |-> NoTask]
  /\ status = [t \in Tasks |-> "none"]
  /\ req = [th \in Threads |-> "idle"]
  /\ tpc = [t \in Tasks |-> "idle"]
  /\ creating = {}
  /\ dpc = [th \in Threads |-> "idle"]
  /\ subtree = [th \in Threads |-> {}]
  /\ todo = [th \in Threads |-> {}]
  /\ at = [th \in Threads |-> NoThread]
  /\ holder = [th \in Threads |-> NoTask]
  /\ active = {}
  /\ failed = {}
  /\ blind = {}
  /\ earlier = [th \in Threads |-> {}]
  /\ events = 0

-----------------------------------------------------------------------------
Event(kind) ==
  /\ kind \in Env
  /\ events < MaxEvents
  /\ events' = events + 1

\* HSET of the hash, which creates it; parents only by creation.
Hset(th) ==
  /\ exists' = exists \union {th}
  /\ parent' = IF th \in exists THEN parent ELSE [parent EXCEPT ![th] = NoThread]

\* create of a thread below another: it is not there, its parent is.  (Without a
\* parent a thread comes to exist by Submit.)
CheckCreate(th, p) ==
  /\ Event("create")
  /\ th \notin exists
  /\ p \in exists \ {th}
  /\ creating' = creating \union {<<th, p>>}
  /\ UNCHANGED <<keyVars, req, tpc, deleteVars>>

\* CreateThread: HSET, whatever has happened since.
CreateThread(th, p) ==
  /\ <<th, p>> \in creating
  /\ creating' = creating \ {<<th, p>>}
  /\ exists' = exists \union {th}
  /\ parent' = [parent EXCEPT ![th] = p]
  /\ UNCHANGED <<running, lock, status, active, req, tpc, deleteVars, events>>

-----------------------------------------------------------------------------
\* Submit makes sure that the thread exists, ...
Submit(th) ==
  /\ req[th] = "idle"
  /\ req' = [req EXCEPT ![th] = "submit"]
  /\ Hset(th)
  /\ UNCHANGED <<running, lock, status, active, tpc, creating, deleteVars, events>>

\* ... and takes its lock or is refused.
AcquireRequestLock(th) ==
  /\ req[th] = "submit"
  /\ IF running[th] = "free"
       THEN /\ running' = [running EXCEPT ![th] = "request"]
            /\ req' = [req EXCEPT ![th] = "turn"]
       ELSE /\ req' = [req EXCEPT ![th] = "idle"]
            /\ UNCHANGED running
  /\ UNCHANGED <<exists, parent, lock, status, active, tpc, creating, deleteVars, events>>

\* The turn ends; DEL of the lock, whoever holds it.
EndTurn(th) ==
  /\ req[th] = "turn"
  /\ req' = [req EXCEPT ![th] = "idle"]
  /\ running' = [running EXCEPT ![th] = "free"]
  /\ earlier' = [r \in Threads |-> earlier[r] \ {th}]
  /\ UNCHANGED <<threadVars, lock, status, active, tpc, creating, dpc, subtree, todo, at,
                 holder, failed, blind, events>>

-----------------------------------------------------------------------------
TaskStep(t, from, to) == tpc[t] = from /\ tpc' = [tpc EXCEPT ![t] = to]

SetStatus(t, s) == status' = [status EXCEPT ![t] = s]

\* Enqueue: the lock script; a lock that is held refuses the call.
LockThread(t) ==
  /\ lock[TaskThread[t]] = NoTask
  /\ TaskStep(t, "idle", "locked")
  /\ lock' = [lock EXCEPT ![TaskThread[t]] = t]
  /\ UNCHANGED <<threadVars, running, status, active, req, creating, deleteVars, events>>

\* Enqueue: the push and the pipeline that sets the status.
Push(t) ==
  /\ TaskStep(t, "locked", "enqueued")
  /\ SetStatus(t, "pending")
  /\ UNCHANGED <<threadVars, running, lock, active, req, creating, deleteVars, events>>

\* The worker runs the task, which it registers in active_tasks, ...
RunTask(t) ==
  /\ TaskStep(t, "enqueued", "agent")
  /\ SetStatus(t, "running")
  /\ active' = active \union {t}
  /\ UNCHANGED <<threadVars, running, lock, req, creating, deleteVars, events>>

\* ... stores the outcome ...
StoreResult(t) ==
  /\ TaskStep(t, "agent", "ended")
  /\ SetStatus(t, "done")
  /\ UNCHANGED <<threadVars, running, lock, active, req, creating, deleteVars, events>>

\* ... writes the thread's metadata: HSET, deleted or not ...
TouchThread(t) ==
  /\ TaskStep(t, "ended", "touched")
  /\ Hset(TaskThread[t])
  /\ UNCHANGED <<running, lock, status, active, req, creating, deleteVars, events>>

\* ... and takes it out of active_tasks.
RemoveActiveTask(t) ==
  /\ TaskStep(t, "touched", "over")
  /\ active' = active \ {t}
  /\ UNCHANGED <<threadVars, running, lock, status, req, creating, deleteVars, events>>

\* The worker dies with a task: its status and its entry stay as they are.
WorkerCrash(t) ==
  /\ Event("workerCrash")
  /\ \E from \in {"agent", "ended", "touched"} : TaskStep(t, from, "over")
  /\ UNCHANGED <<keyVars, req, creating, deleteVars>>

\* WaitTask has seen the outcome.
UnlockThread(t) ==
  /\ status[t] = "done" /\ lock[TaskThread[t]] = t
  /\ lock' = [lock EXCEPT ![TaskThread[t]] = NoTask]
  /\ UNCHANGED <<threadVars, running, status, active, actorVars, deleteVars, events>>

-----------------------------------------------------------------------------
Goto(r, from, to) == dpc[r] = from /\ dpc' = [dpc EXCEPT ![r] = to]

Everything(r) == subtree[r] \union {r}

\* A loop over the threads ends with the root.
Among(r, th) == th \in todo[r] /\ (th = r => todo[r] = {r})

\* The loop goes on behind a thread, or to the next point with all of them.
Behind(r, th, loop, next) ==
  IF th = r THEN Goto(r, dpc[r], next) /\ todo' = [todo EXCEPT ![r] = Everything(r)]
            ELSE Goto(r, dpc[r], loop) /\ todo' = [todo EXCEPT ![r] = @ \ {th}]

\* The handlers of these threads are over, and so are their variables; which
\* threads they took is remembered.
Return(rs) ==
  /\ dpc' = [r \in Threads |-> IF r \in rs THEN "over" ELSE dpc[r]]
  /\ todo' = [r \in Threads |-> IF r \in rs THEN {} ELSE todo[r]]
  /\ at' = [r \in Threads |-> IF r \in rs THEN NoThread ELSE at[r]]
  /\ holder' = [r \in Threads |-> IF r \in rs THEN NoTask ELSE holder[r]]
  /\ failed' = failed \ rs
  /\ blind' = blind \ rs
  /\ earlier' = [r \in Threads |-> IF r \in rs THEN {} ELSE earlier[r]]
  /\ UNCHANGED subtree

\* deleteThread: the thread exists.
StartDelete(r) ==
  /\ r \in Callers \intersect exists
  /\ Goto(r, "idle", "acquire")
  /\ UNCHANGED <<keyVars, actorVars, subtree, todo, at, holder, failed, blind, earlier, events>>

UnderWay == {t \in Tasks : Active(t)} \union {th \in Threads : req[th] = "turn"}

\* Mutant: the lock of the root is taken to be free.
AcquireLate(r) ==
  /\ Goto(r, "acquire", "discover")
  /\ earlier' = [earlier EXCEPT ![r] = UnderWay]
  /\ UNCHANGED <<keyVars, actorVars, subtree, todo, at, holder, failed, blind, events>>

\* AcquireRequestLock with the value "deleting".
Acquire(r) ==
  /\ \/ /\ running[r] = "free"
        /\ Goto(r, "acquire", "discover")
        /\ running' = [running EXCEPT ![r] = "deleting"]
        /\ earlier' = [earlier EXCEPT ![r] = UnderWay]
        /\ UNCHANGED <<subtree, todo, at, holder, failed, blind>>
     \/ dpc[r] = "acquire" /\ running[r] # "free" /\ Return({r}) /\ UNCHANGED running
  /\ UNCHANGED <<threadVars, lock, status, active, actorVars, events>>

\* DiscoverDescendants: its SCAN and the reads of the threads are one step here.
Discover(r) ==
  /\ Goto(r, "discover", "locked")
  /\ subtree' = [subtree EXCEPT ![r] = Descendants(exists, parent, r)]
  /\ todo' = [todo EXCEPT ![r] = subtree'[r] \union {r}]
  /\ UNCHANGED <<keyVars, actorVars, at, holder, failed, blind, earlier, events>>

\* IsThreadLocked of the next thread.  A thread below without a lock is looked
\* at for a request, the root is done with.
IsThreadLocked(r, th) ==
  /\ dpc[r] = "locked" /\ Among(r, th)
  /\ \/ /\ lock[th] # NoTask \/ th # r
        /\ Goto(r, "locked", IF lock[th] # NoTask THEN "holder" ELSE "running")
        /\ at' = [at EXCEPT ![r] = th]
        /\ UNCHANGED todo
     \/ /\ lock[th] = NoTask /\ th = r
        /\ Behind(r, th, "locked", "tasks")
        /\ UNCHANGED at
  /\ UNCHANGED <<keyVars, actorVars, subtree, holder, failed, blind, earlier, events>>

\* Mutant: a lock that has gone meanwhile has the holder "".
GetHolderOrNone(r) ==
  /\ Goto(r, "holder", "status")
  /\ holder' = [holder EXCEPT ![r] = lock[at[r]]]
  /\ UNCHANGED <<keyVars, actorVars, subtree, todo, at, failed, blind, earlier, events>>

\* GetLockHolder; a lock that has gone meanwhile is an error.
GetLockHolder(r) ==
  /\ Goto(r, "holder", IF lock[at[r]] = NoTask THEN "release" ELSE "status")
  /\ holder' = [holder EXCEPT ![r] = lock[at[r]]]
  /\ UNCHANGED <<keyVars, actorVars, subtree, todo, at, failed, blind, earlier, events>>

\* GetTask of the holder: one under way refuses the deletion, a missing status
\* counts as stale like a terminal one.  GetTask has no errors: what it cannot
\* read is missing.
HolderStatus(r) ==
  /\ \/ /\ Goto(r, "status", IF Active(holder[r]) THEN "release" ELSE "unlock")
        /\ UNCHANGED <<blind, events>>
     \/ /\ Event("blindRead")
        /\ Goto(r, "status", "unlock")
        /\ blind' = blind \union {r}
  /\ UNCHANGED <<keyVars, actorVars, subtree, todo, at, holder, failed, earlier>>

\* UnlockThread of the stale lock; "continue" goes to the next thread at once.
ClearStale(r) ==
  /\ dpc[r] = "unlock"
  /\ Behind(r, at[r], "locked", "tasks")
  /\ lock' = [lock EXCEPT ![at[r]] = NoTask]
  /\ at' = [at EXCEPT ![r] = NoThread] /\ holder' = [holder EXCEPT ![r] = NoTask]
  /\ UNCHANGED <<threadVars, running, status, active, actorVars, subtree, failed, blind, earlier, events>>

\* IsRequestRunning of a thread below the root.
IsRequestRunning(r) ==
  /\ dpc[r] = "running"
  /\ IF running[at[r]] = "free" THEN Behind(r, at[r], "locked", "tasks")
                               ELSE Goto(r, "running", "release") /\ UNCHANGED todo
  /\ at' = [at EXCEPT ![r] = NoThread]
  /\ UNCHANGED <<keyVars, actorVars, subtree, holder, failed, blind, earlier, events>>

\* The status ListTasks gives a task: active_tasks comes first.
Listed(t) == IF t \in active THEN "running" ELSE status[t]

\* Mutant: like deleteWorkspace, only running tasks are looked for.
ListRunning(r, th) ==
  /\ dpc[r] = "tasks" /\ Among(r, th)
  /\ IF \E t \in Tasks : TaskThread[t] = th /\ Listed(t) = "running"
       THEN Goto(r, "tasks", "release") /\ UNCHANGED todo
       ELSE Behind(r, th, "tasks", "del")
  /\ UNCHANGED <<keyVars, actorVars, subtree, at, holder, failed, blind, earlier, events>>

\* ListTasks of the next thread: a task under way refuses the deletion.  The
\* fields of a task are read one by one, and an error of those reads is
\* dropped: such a task is of no thread.  All its reads are one step here, and the
\* list has no limit.
CheckTasks(r, th) ==
  /\ dpc[r] = "tasks" /\ Among(r, th)
  /\ \/ /\ IF \E t \in Tasks : TaskThread[t] = th /\ Listed(t) \in {"pending", "running"}
             THEN Goto(r, "tasks", "release") /\ UNCHANGED todo
             ELSE Behind(r, th, "tasks", "del")
        /\ UNCHANGED <<blind, events>>
     \/ /\ Event("blindRead")
        /\ \A t \in active : TaskThread[t] # th
        /\ Behind(r, th, "tasks", "del")
        /\ blind' = blind \union {r}
  /\ UNCHANGED <<keyVars, actorVars, subtree, at, holder, failed, earlier>>

\* deleteSingleThreadKeys of the next thread, its locks included.  A failed DEL
\* is counted and the loop goes on; with one the files stay.
DeleteKeys(r, th) ==
  /\ dpc[r] = "del" /\ Among(r, th)
  /\ \/ /\ exists' = exists \ {th}
        /\ parent' = [parent EXCEPT ![th] = NoThread]
        /\ running' = [running EXCEPT ![th] = "free"]
        /\ lock' = [lock EXCEPT ![th] = NoTask]
        /\ UNCHANGED <<failed, events>>
     \/ /\ Event("redisError")
        /\ failed' = failed \union {r}
        /\ UNCHANGED <<exists, parent, running, lock>>
  /\ Behind(r, th, "del", IF r \in failed' THEN "release" ELSE "clean")
  /\ UNCHANGED <<status, active, actorVars, subtree, at, holder, blind, earlier>>

\* removeWorkspace and removeSessionFile of every thread: no key changes.
CleanUp(r) ==
  /\ Goto(r, "clean", "release")
  /\ UNCHANGED <<keyVars, actorVars, subtree, todo, at, holder, failed, blind, earlier, events>>

\* The deferred ReleaseRequestLock: DEL, whoever holds the lock.
Release(r) ==
  /\ dpc[r] = "release" /\ Return({r})
  /\ running' = [running EXCEPT ![r] = "free"]
  /\ UNCHANGED <<threadVars, lock, status, active, actorVars, events>>

DeleteThread(r) ==
  \/ Acquire(r) \/ Discover(r) \/ GetLockHolder(r) \/ HolderStatus(r) \/ ClearStale(r)
  \/ IsRequestRunning(r) \/ CleanUp(r) \/ Release(r)
  \/ \E th \in Threads : IsThreadLocked(r, th) \/ CheckTasks(r, th) \/ DeleteKeys(r, th)

\* deleteWorkspace: no task runs on the thread (a pending one is not asked for), ...
StartWorkspace(r) ==
  /\ r \in Callers
  /\ Goto(r, "idle", "ask")
  /\ ~\E t \in Tasks : TaskThread[t] = r /\ Listed(t) = "running"
  /\ UNCHANGED <<keyVars, actorVars, subtree, todo, at, holder, failed, blind, earlier, events>>

\* ... then the request lock, ...
AcquireWorkspace(r) ==
  /\ \/ /\ running[r] = "free"
        /\ Goto(r, "ask", "remove")
        /\ running' = [running EXCEPT ![r] = "deleting"]
        /\ UNCHANGED <<subtree, todo, at, holder, failed, blind, earlier>>
     \/ dpc[r] = "ask" /\ running[r] # "free" /\ Return({r}) /\ UNCHANGED running
  /\ UNCHANGED <<threadVars, lock, status, active, actorVars, events>>

\* ... and the files go.
RemoveWorkspace(r) ==
  /\ Goto(r, "remove", "release")
  /\ UNCHANGED <<keyVars, actorVars, subtree, todo, at, holder, failed, blind, earlier, events>>

DeleteWorkspace(r) == AcquireWorkspace(r) \/ RemoveWorkspace(r)

\* A command fails, or the client has gone and with it the context of the
\* reads: the handler answers and gives its lock back, unless that DEL fails.
CommandFails(r) ==
  /\ Event("redisError")
  /\ \/ /\ \E from \in Checking \ {"status"} : Goto(r, from, "release")
        /\ UNCHANGED <<subtree, todo, at, holder, failed, blind, earlier>>
     \/ dpc[r] \in {"acquire", "ask", "release"} /\ Return({r})
  /\ UNCHANGED <<keyVars, actorVars>>

\* The web UI's process dies: requests and deletions are gone, the keys stay.
Crash ==
  /\ Event("crash")
  /\ Return({r \in Threads : dpc[r] # "idle"})
  /\ req' = [th \in Threads |-> "idle"]
  /\ creating' = {}
  /\ UNCHANGED <<keyVars, tpc>>

\* Mutant: the lock of a deletion has no TTL.
ExpireRequest(th) ==
  /\ running[th] = "request" /\ req[th] # "turn"
  /\ running' = [running EXCEPT ![th] = "free"]
  /\ UNCHANGED <<threadVars, lock, status, active, actorVars, deleteVars, events>>

\* The TTL that SET NX gave a request lock ends; it is longer than the owner of
\* the lock lives.
Expire(th) ==
  /\ running[th] = "request" => req[th] # "turn"
  /\ running[th] = "deleting" => dpc[th] \in {"idle", "over"}
  /\ running[th] # "free"
  /\ running' = [running EXCEPT ![th] = "free"]
  /\ UNCHANGED <<threadVars, lock, status, active, actorVars, deleteVars, events>>

Next ==
  \/ \E th \in Threads :
       \/ StartDelete(th) \/ DeleteThread(th) \/ CommandFails(th) \/ Expire(th)
       \/ StartWorkspace(th) \/ DeleteWorkspace(th)
       \/ Submit(th) \/ AcquireRequestLock(th) \/ EndTurn(th)
       \/ \E p \in Threads : CheckCreate(th, p) \/ CreateThread(th, p)
  \/ \E t \in Tasks : \/ LockThread(t) \/ Push(t) \/ RunTask(t) \/ StoreResult(t)
                      \/ TouchThread(t) \/ RemoveActiveTask(t) \/ WorkerCrash(t)
                      \/ UnlockThread(t)
  \/ Crash

Spec == Init /\ [][Next]_vars

\* A handler that began goes on, and keys expire.
Fairness ==
  \A th \in Threads : WF_vars(DeleteThread(th) \/ DeleteWorkspace(th)) /\ WF_vars(Expire(th))

FairSpec == Spec /\ Fairness

-----------------------------------------------------------------------------
\* A task that was pending or running when the deletion of a thread above it
\* took its lock is over before any key is deleted: neither the check of the
\* locks nor that of the tasks can be passed around it, whatever happens to
\* the locks meanwhile ("Validate no active tasks in any subtree thread").  A
\* deletion that dropped the error of a read is excepted.
ActiveTaskKept ==
  \A r \in Threads \ blind : dpc[r] \in Deleting =>
    \A t \in earlier[r] \intersect Tasks : TaskThread[t] \in Everything(r) => ~Active(t)

\* From the moment a deletion has the request lock of its thread until it
\* deletes that thread's keys no request takes its turn there ("Acquire request
\* lock BEFORE subtree discovery"), nor while the files of a workspace go,
\* unless a deletion from further above has taken the lock away with the other
\* keys.
RootExclusive ==
  \A r \in Threads : dpc[r] \in Checking \union {"del", "remove"} /\ req[r] = "turn" =>
    \E s \in Threads \ {r} : r \in subtree[s] /\ dpc[s] \in {"del", "clean", "release", "over"}

\* A request that runs on a thread below since before the deletion began is
\* seen, and the thread is not deleted ("a child could have a running web UI
\* request with zero active tasks").
ChildRequestSeen ==
  \A r \in Threads : dpc[r] \in Deleting => earlier[r] \intersect subtree[r] = {}

\* Among the threads there are a deletion takes exactly those that have its root
\* above them, cycles of parents included (DiscoverDescendants), and the list of
\* threads shows every thread but those whose ancestors form a cycle
\* (filterRootThreads: "orphans are also treated as roots so they remain
\* visible"), whatever creations and deletions have made of the tree.
TreeRight == TreeFact(exists, parent)

\* The request lock a deletion took comes back, by the handler or by its TTL
\* after a crash or a failed release.
DeletionLockReturned ==
  \A r \in Threads : running[r] = "deleting" ~> running[r] # "deleting"
=============================================================================
