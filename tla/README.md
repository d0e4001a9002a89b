# TLA+ models of ai-agents: task queue, request handler, threads and health

ai-agents runs coding agents for a user. A web UI takes requests; each request
starts one *master* agent on a thread; that agent hands work to *worker* agents
through a task queue in Redis, using the `task` command. All shared state is in
Redis, nothing is a transaction longer than one command, pipeline or script, and
every process may be killed at any time. These modules model the two protocols
that everything else hangs on, the task queue and the request handler; what works
on the same keys around them, waiting for a group, deleting a thread and showing
its history; and what watches, heartbeats, alerts, the rate limiter and the
token counters. TLC checks them on small instances; TLAPS proves the
safety properties of the protocols for instances of any size (section 4).

## 1. Inventory

| Component (source) | State | Operations | What makes it correct | Here |
|---|---|---|---|---|
| Queue clients (`tasklib/tasks.go`, `client.go`, `threads.go`, `cmd/task`) | `thread:<id>:lock`, `task:<id>:*`, `tasks:queue:<w>`, the thread's messages, group sets | Enqueue, EnqueueGroup, WaitTask, CancelTask, UnlockThread | a pushed task is not lost; sequential tasks of a thread do not overlap; locks come back; history before push | modelled |
| GroupWait (`tasks.go`) | reads only | poll all members, aggregate | ends by its deadline; its verdict is that of the stored outcomes and final | modelled |
| Worker loop (`cmd/worker/main.go`) | `tasks:processing:<w>`, status, result, `active_tasks` | BLMOVE, run, store, LREM | at most one start; outcome stored before the payload is dropped; cancel honoured; restart | modelled |
| Requeue-stale (`tasks.go`, `cmd/task`) | `retry_count`, both lists | snapshot, decide, push, remove, reset | loses nothing; keeps cancel flags | modelled |
| Request handler (`webui/internal/request`, `api/requests.go`) | `thread:<id>:running`, `:complete`, status, messages; in the process: slots, cancel functions, goroutines | Submit, goroutine, Cancel | one agent per thread; slots and locks come back; turns do not mix; cancel reaches the agent | modelled |
| Server lifecycle (`webui/main.go`) | the process | Shutdown, exit, restart | locks and slots survive it sanely | partly |
| Thread API (`api/threads.go`) | all keys of a thread and of those below it | delete, create, history; keep, reset session, delete workspace | a deletion excludes requests and tasks, takes the whole tree and nothing else; the page shows the answer | delete, delete workspace, create, history |
| Thread store (`threads.go`) | hash, messages, locks, `active_tasks` | history windows, discovery, keys of a deletion | windows miss and repeat nothing | partly |
| Task queries (`tasks.go`) | none | ListTasks, GetTask | a page has each task once, those under way first | ListTasks sorted by status |
| Heartbeats (`workers.go`, `cmd/worker`) | `worker:<w>:heartbeat`, 30 s | refresh every 10 s, read | online means alive, offline means gone | modelled |
| Alert monitor (`monitor.go`) | two maps of last alerts | poll every 30 s | a stuck task is told in time, once per cooldown; a lost worker is told | modelled |
| Rate limiter (`api/middleware.go`) | window per address behind a mutex | allow, cleanup | never more than the limit per interval, never fewer | window and sweep, as operators |
| Token accounting (`tokens.go`, `request/stream.go`) | `stats:*` counters, task fields | extract (tasks: tasklib, turns of the master: web UI), persist | the books balance | parsers and counters, as operators |
| Events, CLI output, pages, metrics, images, guard script | capped lists, none | — | — | not modelled: best-effort, formatting, read-only |

**How they interact.** `POST /api/requests` calls Submit, which locks the thread
(`:running`), writes the user's message and starts a goroutine that runs the
master agent. That agent calls `task enqueue` and `task wait`; Enqueue locks the
thread for one sequential task (`:lock`), appends the instruction to the history
and pushes a payload. A worker moves the payload to its processing list, runs
its agent, stores the outcome, appends the reply and removes the payload.
WaitTask polls the status, writes the thread's status and deletes the lock. The
request handler and WaitTask both write the thread's status; the handler leaves
it alone while `:lock` exists. `requeue-stale` and `unlock` are run by hand.
`DELETE /api/threads/{id}` takes the request lock of one thread with the value
`deleting`, discovers the threads below, checks locks, requests and tasks of each
and deletes their keys, while Submit, Enqueue, workers and other deletions go on.
The page of a thread polls the history endpoint. The monitor runs inside the web
UI and reads `active_tasks` and the heartbeat keys the workers write.

**What is hard.** Locks are deleted by key and not by value; holder and status
are read in separate commands; errors of cleanup commands are ignored; BLMOVE
may take effect and its reply be lost; a worker's restart does not look at its
processing list; the handler's state is half in the process and half in Redis;
the goroutine gives back its slot, its lock and its cancel function one after
the other; Submit runs on the HTTP client's context. `PROJECT.json` lists each
hazard at its line with the properties that watch it.

## 2. Modules

```
TaskKeys ── TaskClient ─┐                     RequestSubmit ── RequestHandler
        └── WorkerLoop ─┴─ TaskQueue              implements │      │
                         │      │ implements      TurnTaking ┘   HistoryPage (with ThreadHistory)
                TaskRecovery  TaskPromise
                GroupWait
                                              ThreadTree ── ThreadDeletion ─┐
                                              ThreadHistory, TaskList ──────┴─ ThreadReads
                                              WorkerHealth
                                              RateLimiter, TokenUsage (operators only)

Proofs:    TaskQueueProofs ─┬─ SerialProofs        (TaskQueue)
                            ├─ RecoveryProofs      (TaskRecovery)
                            └─ GroupWaitProofs     (GroupWait)
           RequestProofs                           (RequestHandler)
           OperatorProofs ─── ThreadDeletionProofs (ThreadReads)
           (also ThreadTree, ThreadHistory, TaskList, RateLimiter, TokenUsage)
           WorkerHealthProofs                      (WorkerHealth)
Instances: MCTaskQueue, MCTaskRecovery, MCGroupWait, MCRequestHandler, MCHistoryPage,
           MCThreadDeletion (of ThreadReads), MCWorkerHealth (with RateLimiter, TokenUsage)
```

* **TaskKeys** – the Redis keys as variables, the commands on them as operators
  (`SetLockNX`, `DelLock`, `PushQueue`, `MoveToProcessing`,
  `RemoveFromProcessing`), `IsTaskActive`, and the budget of faults.
* **TaskClient** – one action per command of Enqueue (`Acquire` … `InitKeys`,
  `Rollback`), EnqueueGroup (`ReleaseGate`, `JoinGroup`, `SetGroup`), WaitTask
  (`StartWait`, `PollTerminal`, `PollTimeout`, `Settle`, `WaitUnlock`,
  `WaitFails`, `WaitCancelled`), CancelTask and `task unlock`. `pc[t]` is the
  point of the call about task t. `Ran` is a command that Redis runs and whose
  reply may be an error; `CommandFails` one that never runs; `OnError` says where
  the code goes then.
* **WorkerLoop** – `processOneTask` command by command; `CommandDropped` is a
  command whose error is ignored, `TakeReplyLost` a BLMOVE whose reply is lost.
* **TaskQueue** – clients and workers together, and the properties. **TaskPromise** is what the queue promises about one task, with no
  lists and no processes: sent, claimed, finished once. `Phase` maps the keys to
  it: the result if there is one, else "queued" or "claimed" by list membership.
* **TaskRecovery** – TaskQueue and `requeue-stale`, which works on a snapshot of
  the processing list while everything else goes on.
* **RequestSubmit** – the handler's state and Submit; **RequestHandler** – the
  goroutine, Cancel, the deadline, shutdown, restart, disconnects, the TTL of the
  request lock, and the sequential task on a thread as three values (none, lock
  held, status written). **TurnTaking** is what users see: one request at a time
  has a thread's turn, opens it with the question, and what follows until its
  end is its own.

* **GroupWait** – the queue and an orchestrator that waits for a group: SMEMBERS
  (`Start`), one round of the loop (`Poll`), its error branch
  (`GroupCommandFails`), the deadline. `CallerWaits` is the discipline of a caller
  that fans out, waits, and only then goes on. It has the fairness of the queue,
  and its run the liveness of both.
* **ThreadDeletion** – `deleteThread` command by command. `dpc[r]` is the point of
  the deletion of r, `todo[r]` the threads its present loop has not come to; the
  loops run in any order (Go maps) and end with the root. Requests and tasks are
  reduced to the steps a deletion can meet. `earlier[r]` remembers what was under
  way when the lock was taken, `blind` which deletions dropped the error of a read.
  `StartWorkspace`, `AcquireWorkspace`, `RemoveWorkspace` are `deleteWorkspace`,
  which shares `dpc` and the lock: a caller does one or the other.
* **ThreadTree**, **ThreadHistory**, **TaskList** – discovery and the tree of the
  page, the windows of the history, the list of tasks with its order and pages, as
  operators, each beside a definition of what it should give. `TreeFact` says it of
  any threads and parents; `TreeRight` of those a deletion can meet. The loops of
  the code are recursive functions over their rounds. **ThreadReads** adds them to
  ThreadDeletion: `Histories`, `Stores`, `Sizes` and `Trees` are what is read,
  `ReadsRight` what must come of it.
* **HistoryPage** – the request handler and a browser that polls the history.
* **WorkerHealth** – the heartbeat goroutine, the key and its TTL, `active_tasks`
  and both checks of the monitor, in ticks of ten seconds. What happened n ticks
  ago is kept as an age, so that the module needs no clock.
* **RateLimiter**, **TokenUsage** – the sliding window with its sweep (`After` is
  one event, a call of `allow` or a sweep), and what becomes of the tokens of a run
  (`Used` of its output, `Counters` after a sequence of runs), as operators beside
  what they should give (`RateFact`, `LedgerFact`). The parsers are the code's:
  `ClaudeReads` keeps the last report, `CodexReads` and `OpenCodeReads` add the
  turns of a task; `StreamReads`, the web UI's own for a turn of the master, adds
  every report. Both services share no state with any other; their facts are
  proved for any input, and MCWorkerHealth evaluates them on bounded ones
  (`LimiterChecked`, `LedgerChecked`) when its runs start.

One action is one Redis command (or one pipeline or script) with the in-process
code that follows it up to the next one. Section 5 names the actions that stand
for several commands.

## 3. Runs

| Run | Question | Instance |
|---|---|---|
| `queue_faults` | Is a payload kept, handed out once, ended once, cancelled when asked, whatever fails? Does the queue implement TaskPromise? | a sequential and a group task on one thread, one worker, calls in any order, every kind of fault but a dropped worker command, one fault |
| `queue_serial` | Does the lock serialize, cover and come back, and does the gate hold, under an orchestrator that runs one command at a time? | two sequential tasks and a group task, two workers, one fault (crash, lost reply, dropped command), done contexts |
| `requeue` | Does `requeue-stale` lose payloads or cancel flags? | one task, two runs of the command, interrupted anywhere, impatient, one crash, lost reply or failed command |
| `request_faults` | Do slots, lock and turns survive failures? | two requests on a thread, two faults, disconnects, expiry of a dead request's lock |
| `request_turns` | Do status, complete mark and 409 tell the truth? | three interchangeable requests on a thread, two slots, stream-json, cancels, tasks of the agents |
| `request_live` | Does every slot and lock come back? | two requests, cancel, deadline, one failed command, panic or stop |
| `group_wait` | Is the verdict of a group that of its outcomes, and final? Does the wait end? Does every queued task end, is every waited lock given up? | two group tasks and a sequential one on one worker, of which two are enqueued, one cancel, one fault (a stop, a failed command, a client that dies), waits that time out, done contexts |
| `deletion` | Does a deletion keep off what is under way, and does its lock come back? Do discovery, history windows and the task list give what they should? | a thread and one below it, each deleted or its workspace removed, a request on each, a task below, one crash, failed command, blind read or creation |
| `health` | Is online honest, are stuck tasks told in time and not too often? | one worker, two tasks, two faults; the periods of the code in ticks of 10 s |
| `delete_child`, `page_answer`, `lost_worker` | one documented claim each, which the code does not keep | a chain of two threads and a task; one request and one page; the instance of `health` with one fault |

The calls of an instance are finite, so a system with all its calls made and the
queue empty has legitimately stopped: every cfg but those of `health` and `lost_worker`,
whose timers go on for ever, says `CHECK_DEADLOCK FALSE`.

**Bounds.** `MaxFaults` bounds the crashes, stops and failed commands together,
`MaxScans` the runs of `requeue-stale`, `MaxCalls` and `MaxCancels` the enqueues
and the cancel flags in `group_wait` (two calls are the smallest group, or a group
and the sequential task after it); elsewhere the number of tasks or requests
bounds the calls. All conflicts in this code are between two parties on one thread
(two calls, a call and a worker, two requests), so two tasks or two requests
meet each of them; the third in `queue_serial` and `request_turns` covers the
successor that finds what two others left. One plan message per request stands
for all. One thread is enough because no key and no in-process entry but the
slots is shared between threads, and the slots are counted over all requests.
`deletion` has the smallest tree with an inner and a root deletion; larger trees
only repeat the loop body, and discovery is checked separately on every forest,
cycle and orphan over four threads (`MCTrees`) and proved for any. The operators are checked on all
inputs up to a size: histories of seven messages with batches of one to three
(the code's batch is larger; a batch is crossed all the same), three tasks in
every combination of statuses and both stores, five requests with every spacing
and sweep around a window of two or three, two runs with outputs of up to two
reports. In `health`
the heartbeat's and the monitor's periods are the code's (10 s beat, 30 s TTL, 30 s
poll, 60 s between the looks for lost heartbeats and until one counts as lost);
the long ones are shrunk to a few polls (cooldown 60 s for 5 min, stuck after 40 s
for 30 min, agents killed after 50 s). The theorems hold for any.

**Symmetry** is used only in `request_turns`, which checks no liveness; requests
of one thread differ in nothing.

**Fairness.** `group_wait`: a worker process goes on with its task, takes the
next payload and is restarted after a stop (`restart: unless-stopped` in
`docker-compose.yml`); the orchestrator, which runs one command at a time, goes on
with a command it has begun, and polls until its deadline (the loop of WaitTask
looks at the clock in every round); so does the loop of GroupWait. That a call is
ever begun is not assumed. `deletion`: a handler that began goes on and Redis honours
TTLs. `request_live`: a call that began and a goroutine go
on, an agent's output ends (at the latest when its context is done and `exec`
kills it), Redis honours TTLs, and Shutdown and the exit after it go on.
Environment events (cancel, stop, deadline, disconnect, faults) have none.

**Environment.** `Env` says what may happen in an instance, so that each run
states its assumptions: `parallelCalls` lifts the discipline that the master
agent follows (one task command at a time on a thread, except the fan-out of a
group); `lockExpiry` lets a lock expire at any time; `runningExpiry` only when
its request is over, which is what a TTL longer than `REQUEST_TIMEOUT` means;
`shortTTL` at any time.

### Disagreements the violation runs show

* `delete_child` – after clearing a stale task lock of a thread, `continue` skips
  the question whether a request runs there (`api/threads.go:437`, against the
  comment at 445): the child is deleted under its request.
* `page_answer` – the history endpoint reads the messages and then the lock; a
  request that ends in between is neither shown nor polled for
  (`api/threads.go:250`, against `docs/design-web-ui.md:763`).
* `lost_worker` – the alert "Worker heartbeat lost > 60s"
  (`docs/final-design-observability.md:427`) is never raised: the monitor reads the
  heartbeat keys (`monitor.go:108`), and the key of a dead worker is gone after
  30 s (`workers.go:208`). With a TTL of 200 s in the cfg the property holds, so it is
  the two times that disagree; the test at `monitor_test.go:160` writes a stale
  payload by hand.

### Divergences without a run

Seen while modelling; each is a behaviour of the modules, but no run of its own
is kept for it.

Queue and recovery:

* Enqueue pushes the payload before it writes `status=pending`
  (`tasks.go:139-163`): a fast worker's `done` is overwritten and the wait times
  out. In the same gap the lock's holder has no status and reads as stale, so a
  second Enqueue takes the lock and two tasks of a thread are in flight.
* The LREM of `requeue-stale` after its push removes the copy a worker has just
  taken; if that worker then crashes the payload is gone (`tasks.go:887`). A
  single fault never loses one: that is `NothingLost` in the run `requeue`.
* `WaitTask` and `task unlock` delete the thread lock by key; a wait that ends
  late deletes the lock of the thread's next task (`tasks.go:686`).
* EnqueueGroup lets go of its gate before the group's tasks exist, so a
  sequential task can be enqueued while the group fans out
  (`tasks.go:237`, against `docs/design-parallel-task-execution.md:323`).
* After an LPUSH that took effect but returned an error the task leaves its
  group and runs all the same (`tasks.go:285`, against the comment at 264).
* A wait whose context is done releases nothing: its commands carry that context
  (`tasks.go:705`, against the comment at 638).
* The worker ignores an error of the result pipeline and removes the payload
  (`main.go:485`, against `docs/design-redis-queue.md:624`).
* `requeue-stale` may requeue a task that finishes between its GET and its SET
  (`tasks.go:866`, against `docs/design-redis-queue.md:176`).
* GroupWait takes a missing status for an end and can report `complete` for a
  member that was added and never pushed (`tasks.go:762`); its error branch looks
  neither at the deadline nor at the ticker (`tasks.go:748`), so with Redis down it
  spins.

Request handler:

* A cancel right after the agent's start leaves no message, though the design
  says an error message is written (`subprocess.go:73`); the clean-up of one
  request deletes the cancel function of the next (`subprocess.go:35`), which then
  cannot be cancelled.
* After a cancel the goroutine's `error` may overwrite `cancelled`
  (`handler.go:310`, against `docs/design-web-ui.md:364`).
* Two first requests of a thread both create it (`handler.go:85-90`); the second
  resets a status that the first had set to `running`.
* A task enqueued by hand between `IsThreadLocked` and the status write loses
  its ownership of the status (`handler.go:174`).
* A client that disconnects in the middle of Submit leaves the request lock to
  its TTL: the release uses the same dead context (`handler.go:118`).
* Shutdown may report that all requests completed while a Submit in progress is
  about to start one (`handler.go:217`).
* A panic's error message is written after the clean-up, without the lock
  (`subprocess.go:19-24`), and nothing stops or waits for an agent that was working.
* A Cancel whose client has gone cancels the agent but cannot write `cancelled`:
  the write has the HTTP request's context and its error is only logged
  (`api/requests.go:92`).
* With `LOCK_TTL` below `REQUEST_TIMEOUT` two agents work on a thread, against
  the comment at `client.go:174-177`; the compose file sets it safely.

Threads:

* GetTask returns no error for what it cannot read, so a failed read of the lock
  holder looks like a missing task and the lock of a running one is cleared
  (`api/threads.go:418`); ListTasks drops the same errors, and a deletion that
  reads blindly takes a thread with tasks under way. `ActiveTaskKept` excepts
  these deletions and shows that nothing else gets through.
* Enqueue's gap between its lock and its status counts as stale, against the
  comment at `api/threads.go:402`.
* A worker that crashed leaves its entry in `active_tasks` as running for ever;
  its thread cannot be deleted unless the task is requeued and runs. The cleanup of such entries of
  `docs/design-web-ui.md:260` is not in the code.
* The worker's last HSET recreates the hash of a deleted thread (`main.go:541`).
* The root's keys include `:running`, and the workspace is removed after them: a
  new request can begin in between, lose its workspace and then, by the deferred
  release, its lock.
* A deletion that fails half-way in the order of a Go map leaves threads whose
  parent is gone; deleting the root again does not find them.
* Creating a thread checks its parent and writes later; with ids used again,
  parents can form a cycle, which the page of threads does not show
  (`TreeRight` says that exactly these are missing).
* `SetThreadTTL` (keep) sets 7 days on `:running` too; resetting a session takes
  no request lock, and its SET may leave the session key of a deleted thread. Deleting only the
  workspace looks at running tasks before it takes the lock and ignores pending
  ones, so a task may run in a workspace that goes; `StartWorkspace` does the same.
* ListTasks sorts a status that is not in its table like a failed one, and failed
  ones before running ones; 1000 of them hide a task under way from the deletion.
* The first page of a history loads the last 50 messages and then polls from
  offset 50, so a longer history repeats; an empty first page has no poller; a
  failed IsRequestRunning ends the polling.

Health and counters:

* A worker is online by its heartbeat alone, although `docs/design-web-ui.md:258`
  counts active tasks; one that stops is offline while its last task runs.
* The cooldown of a stuck alert starts before the webhook is called, so a failed
  call costs the alert for five minutes; an entry left by a crashed worker is told
  every five minutes for ever.
* A task that runs twice is counted twice in the totals while its own fields mix
  both runs, as zeros are not written (`tokens.go:164`).
* The same output of Claude counts differently for a task and for a turn of the
  master: tasklib keeps the last report (`tokens.go:332`), the web UI adds every one
  (`stream.go:62-66`, `81-86`). Turns are counted in stream-json mode only.

## 4. What is proved

| Theorem | Statement | Assumes |
|---|---|---|
| **Queue** (`KeysAssumption`) | | |
| `TaskQueueProofs!TypeCorrect` | `Spec => []TypeOK` | |
| `TaskQueueProofs!StartedAtMostOnce` | `Spec => []AtMostOnce` | |
| `TaskQueueProofs!PayloadIsKept` | `Spec => []PayloadKept` | no `workerError` |
| `TaskQueueProofs!QueueKeepsPromise` | `Spec => KeepsPromise` | no `workerError` |
| `SerialProofs!InstructionComesFirst` | `Spec => []InstructionFirst` | |
| `SerialProofs!GroupIsBeforeQueue` | `Spec => []GroupBeforeQueue` | no `redisError` |
| `SerialProofs!LockCoversFlight` | `Spec => []LockCovers` | `Orderly` |
| `SerialProofs!OneInFlight` | `Spec => []ThreadSerial` | `Orderly` |
| `SerialProofs!LockComesBack` | `Spec => []LockReturned` | `Orderly` |
| `SerialProofs!GroupIsGated` | `Spec => GroupGated` | `Orderly` |
| `SerialProofs!CancelIsHonoured` | `Spec => CancelHonoured` | no `workerError` |
| `RecoveryProofs!NothingIsLost` | `RecoverySpec => []NothingLost` | no `workerError`, `MaxFaults <= 1` |
| `RecoveryProofs!CancelIsKept` | `RecoverySpec => CancelSurvives` | no `workerError` |
| `GroupWaitProofs!VerdictIsFinal` | `GroupWaitSpec => []VerdictFinal` | no `parallelCalls` |
| **Handler** (`HandlerAssumption`) | | |
| `RequestProofs!HandlerTyped` | `Spec => []HandlerTypeOK` | |
| `RequestProofs!SlotsAreExact` | `Spec => []SlotsExact` | |
| `RequestProofs!OneAgentPerThread` | `Spec => []OneAtATime` | no `shortTTL` |
| `RequestProofs!HistoryUnderLock` | `Spec => WritesUnderLock` | no `shortTTL`, `panic` |
| `RequestProofs!HandlerTakesTurns` | `Spec => TakesTurns` | no `shortTTL`, `panic` |
| `RequestProofs!AgentIsUnmarked` | `Spec => []NotCompleteYet` | no `shortTTL`, `panic`, `redisError`, `disconnect` |
| `RequestProofs!BusyIsRunning` | `Spec => []BusyMeansRunning` | no `redisError`, `disconnect`, `crash`, `stop` |
| `RequestProofs!StatusIsSettled` | `Spec => []StatusSettles` | `Undisturbed` |
| `RequestProofs!StatusIsOwned` | `Spec => StatusOwner` | `Undisturbed` |
| **Threads** (`DeletionAssumption`) | | |
| `ThreadDeletionProofs!DeletionTyped` | `Spec => []DeletionTypeOK` | |
| `ThreadDeletionProofs!RootIsExclusive` | `Spec => []RootExclusive` | |
| `ThreadDeletionProofs!ActiveTaskIsKept` | `Spec => []ActiveTaskKept` | |
| `ThreadDeletionProofs!TreeStaysRight` | `Spec => []TreeRight` | |
| `ThreadDeletionProofs!ReadsStayRight` | `Spec => []ReadsRight` | `ReadsAssumption` |
| `OperatorProofs!TreeIsRight` | `TreeFact(ths, par)` | `ths` finite |
| `OperatorProofs!PagesAreComplete` | `AllPages(list, limit) = list` | `list` a sequence, `limit` an integer |
| `OperatorProofs!WorkerSeesItsLast` | `GetThreadHistoryTailForWorker(...) = LastForWorker(...)` | `list` a sequence, batches not empty |
| `OperatorProofs!PagesShowAll` | `PagesFact(registered, keys, thread, limit, asc)` | finite stores, `limit` at least 1 |
| `OperatorProofs!FirstPageShowsBusy` | `FirstPageFact(registered, keys, thread, limit)` | the same |
| **Health** (`HealthAssumption`) | | |
| `WorkerHealthProofs!HealthTyped` | `Spec => []HealthTypeOK` | |
| `WorkerHealthProofs!OnlineIsHonest` | `Spec => []OnlineHonest` | |
| `WorkerHealthProofs!LostIsNeverReported` | `Spec => []NeverReportedLost` | `TTL <= LostAfter` |
| `WorkerHealthProofs!StuckIsReported` | `Spec => []StuckReported` | |
| `WorkerHealthProofs!CooldownIsKept` | `Spec => CooldownKept` | |
| `OperatorProofs!LimiterIsRight` | `RateFact(events, limit, interval)` | times do not go back |
| `OperatorProofs!BooksBalance` | `LedgerFact(runs, agents, tasks, threads)` | `runs` of these agents, tasks and threads, the lists name nobody twice |

They hold for any sets of tasks, threads, workers and requests, any timing, any
histories, stores and traffic, any number of faults and every environment the
last column leaves. What it takes away is what breaks the claim in the code, and
the divergences of section 3 say how: a worker that ignores the error of its
result pipeline (`workerError`), locks that are deleted by key or expire under
their owner (`lockExpiry`, `manualUnlock`, `shortTTL`), calls made side by side.
`Orderly` is the orchestrator's discipline with Redis up: of the environment it
leaves the workers' crashes, stops, lost replies and failed commands, and done
contexts. `Undisturbed` leaves cancels, deadlines, tasks of the agents and the
expiry of a lock whose request is over.

* **At most once.** A start is safe because a payload is in at most one place:
  it occurs at most once in its queue, is then in no worker's hands and was never
  started. The invariant counts the occurrences per task (no task twice in a
  queue, a queued task not started and not pushed again, a held task in one hand
  and started only from `agent` on). The lock plays no part: the theorem holds
  with locks expiring at any time, because each call draws a fresh id.
* **The promise.** On top of it: after the push and until the result the payload
  is in the queue or the processing list, each worker holds only what its list
  has, and the removal happens only after the result. Each action then maps to
  one step of TaskPromise or to a stutter: `Push` to Send, `Take` and
  `TakeReplyLost` to Claim, `StoreResult` and `StoreCancelled` to Finish. A
  dropped worker command breaks it, since LREM would follow a result that was
  never stored; that is the assumption, and the divergence above.
* **The lock of the tasks.** `SerialInv` has to follow a call from end to end:
  two calls of a thread overlap only in a fan-out (`Solo`); from its lock to the end
  of its wait a call owns the lock (`OwnsLock`), and a lock names a call that is
  not over (`LockNamed`); no call is at a point that only a failure leads to
  (`NotAt`); an enqueued task has a status, and a terminal one only with its outcome
  (`StatusTells`), so that neither WaitTask nor the check of a stale lock lets go too
  early; who has looked at the lock and passed finds no task of the thread in
  flight (`Gate`). `LockCovers` is inductive together with these; the other three
  theorems follow.
* **A cancel flag** is never taken back, and the one step that starts an agent
  comes after the GET of the flag; so from a state with the flag and no worker at
  the task the count of starts stays what it is. For `requeue-stale` the same
  holds from any count, which is why the flag must survive a requeue.
* **Recovery.** Nothing can be said of a snapshot but that its entries once were
  listed. What is inductive is who has a payload: before the first fault each
  listed one without an outcome is being worked on (`NoStray`) and what is worked
  on is in a list (`HeldListed`); the command removes an entry only with the
  payload back in the queue or, after the fault, in the hands of a worker, which
  cannot crash any more (`BackInQueue`). The bound is essential: with two
  faults TLC finds a crash of the worker and a failed push of the command, whose
  LREM takes the last copy.
* **A group's verdict** is final because what it was read from is: an outcome is
  stored once (`OutcomeOnce`), no call of the group is under way when GroupWait has
  begun (`CallerIdle`), so the members it read are all whose enqueue succeeded
  (`MembersRead`), and what its last poll read of them stays true (`VerdictKept`).
* **One agent per thread.** `TurnInv` is the types and `LockMine`: a request that
  is in its turn holds its thread's lock. That is inductive because a lock in
  use does not expire, and whoever deletes it by key is in its turn itself. Two
  requests in turn on a thread would both hold it. Since only requests in their
  turn write to the history, the second theorem follows, unless a panic writes
  after the clean-up. For the refinement of TurnTaking the history must also know
  who asked last (`AskInv`), and the turn be named by the request in it.
* **Slots.** The count is the cardinality of the set of those that have one; a step
  takes one, gives one, loses all (a restart) or keeps them.
* **Status.** A status "running" has somebody who will still write it: a request
  that is at work, a task that holds the thread, or a Cancel between its lookup
  and its write (`RunningOwned`); a request that leaves it alone has seen such a
  task, and a Cancel is told only of requests that are registered.
* **Deletion.** The lock: a turn holds `:running` as a request (`TurnHolds`), a
  deletion before its last DEL, or the removal of a workspace, holds it as
  `deleting` (`DeletionHolds`), each
  unless another deletion has the thread in its tree and is past its checks. Both
  are inductive because every step that frees a lock it does not own is a DEL of
  such a deletion, or comes when its own turn is over. The tasks: an outcome is
  final (`TaskStage`), so a task the loop has passed stays over
  (`CheckedAreOver`), and one under way is in the list of its thread, whether
  `active_tasks` or its status says so.
* **The tree.** Both walks of ThreadTree go level by level. `LeastNatural`, that a
  set of numbers has a least one, stands in for induction: the first level at
  which something fails follows one at which it holds. So the levels exist and are
  unique, none leaves a closed set, and a level is closed or larger than the last
  one, hence the last of as many levels as there are threads is closed. The
  descendants are then the least set closed under children, the ancestors the
  least closed under parents, and a thread has no root above it exactly if its way
  up goes round (the ancestor with the fewest ancestors is its own).
* **Loops.** A loop over the rounds 1 .. N is a recursive function; `LoopRuns` builds
  the function of any loop round by round, by the same device, and `LoopUnique`
  says that what is defined by the recursion is that function. After that an
  invariant of the loop is proved from round to round (`UpTo`).
* **Histories.** After k pages a reader has the first k * limit messages, or all,
  since each page is adjacent to what it has (`PageIs`). The walk of a worker has
  after each batch what the filter gives of the messages from there on
  (`Walked`), since the filter of a list is that of its parts put together
  (`FilteredSplit`); it ends early only with enough of them.
* **The list of tasks.** The order by status and id is strict and total (`AheadOrdered`),
  so how many rows are ahead of a row is its place, every place is taken once
  (`Ranked`), and the sorted list is in order (`SortedIs`). Pages are adjacent parts
  of it (`CutIs`, `IsPages`). A row that is not on the first page has `limit` rows
  before it, and the statuses before "running" are those of the exception.
* **The limiter.** The window has every admitted request that is still within the
  interval (`Current`): what a call or a sweep drops is older, and times do not go
  back. So a call counts exactly the requests of the interval before it, and
  between two calls that number can only fall.
* **The tokens.** What a parser reads of an output is a usage, whichever parser it
  is (`UsedIsUsage`), and usage adds up like numbers (`PlusIs`). A sum over a list that
  names nobody twice grows by what one counter grows (`TotalGrows`), so every run
  adds the same to the total and to each of the sums; of a task only if its
  fields were 0 before, which is the assumption that no task runs twice.
* **Health.** Two sums carry it: the age of what the key says, or of the end of the
  process, plus the TTL left is at most the TTL (`KeyIsFresh`); the TTL left, the
  heartbeats missed in a row and the time since the last tick make up at least the
  TTL (`KeyIsFed`). For the alerts, the monitor's memory is what happened, or was
  lost with the process (`WarnedIsTold`).

Only model-checked: all liveness (`EveryTaskEnds`, `LockGivenUp`, `SlotReturned`,
`LockFreed`, `GroupWaitEnds`, `DeletionLockReturned`), since fairness and ENABLED
are out of the prover's reach. Every other property of a passing run is stated by
a theorem. `ReadsRight` quantifies over constants (`Histories`, `Stores` and so on):
a run gives them all inputs up to a size, the theorem takes any. HistoryPage,
which shows a divergence, has no theorem. `LostIsNeverReported` is the other side
of the run `lost_worker`: it says which relation of the constants kills the alert.

## 5. Abstractions

* Pipelines are one step: go-redis sends them at once and no reader of these
  keys can tell.
* Two actions of ThreadDeletion stand for several reads. `Discover` is the SCAN
  and the HGETALLs of ListThreads: a thread that is created below while they run is
  seen or not as if it had come before or after all of them, the trade-off
  `api/threads.go:382` accepts. `CheckTasks` is ListTasks of one thread (HGETALL,
  SCAN, GETs): what workers and clients do between these reads is not modelled. It
  looks at the whole list;
  that the code looks at the first 1000 is the subject of `FirstPageFact` alone.
* ListTasks is sorted by status, the default, which the deletion uses; its other columns and
  its filter by worker are left out.
* A reader of a history who fetches it in batches or by LLEN first sees one list:
  the bounds count from the front, and the list only grows at its end, so what is
  appended meanwhile is in no batch and moves none.
* One Cancel call of a thread is under way at a time; a panic may strike anywhere
  before the clean-up, and the agent it leaves behind is not followed further.
* The state Redis starts in and the orchestrator's choice of commands are not
  code of this repository: an empty database (`KeysInit`) and the discipline of a
  caller (`CallerFree`, `Leave`) are stated from how the code is used.
* The 24 h TTL of task keys and the 7 day TTL of thread keys do not expire in a
  model: waits end after 2100 s and requests after 9000 s.
* A processing list is a number of copies per task, because LREM with count 0
  removes every copy and nothing depends on the order.
* `last_started_at` is abstracted to "a running task is old enough", which holds
  for a task that no process runs, and for any task if the operator is
  `Impatient`.
* Payloads are well-formed; malformed entries are dropped by worker and
  `requeue-stale` alike.
* Histories: for the queue the set of who said what, for the handler a sequence.
  The worker's HSET of the thread's metadata and the thread's existence are in
  ThreadDeletion, which has no histories.
* A deletion meets one request and one call per task on each thread; workspaces
  and session files are no keys, so their removal changes no variable.
* Time in WorkerHealth is counted in ticks of 10 s; a measured age may fall on
  either side of a threshold it reaches exactly (`MayMiss`). Ages stop at
  `Horizon`, which is longer than every period.
* The webhook of an alert is not waited for and is left out. The cooldown of the
  alert about lost workers is too, as the alert is never raised.
* The rate limiter's map is one window per address; a call is one step because of
  the mutex. TokenUsage keeps two of the five
  counts, which the code treats alike, and leaves out Copilot, whose counts stand in
  its stderr.
* The deadline of a request is hours away and ends only a working agent.
* In stream-json mode one result line is modelled; the agent's later lines are
  further plans. Token counts and events are left out.

## 6. Not modelled, and plan

Not modelled: events (capped lists nobody decides on), the output of the CLI,
page templates but for the poller, metrics, diagnostics and administration
(read-only), images, start scripts and the command filter (no shared state), the
stateless middleware, the Copilot output format. Of the thread API, keep (expiry
times only) and reset-session (a file and the session key) are described above only.

Next:

1. Keep and reset-session as actions, together with the session and the expiry
   times they change.
2. An abstract specification of a deletion that its commands implement, as
   TurnTaking is one of the handler.
