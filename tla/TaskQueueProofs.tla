--------------------------- MODULE TaskQueueProofs ---------------------------
(***************************************************************************)
(* Theorems about the task queue, for any tasks, threads, workers and      *)
(* environment: type correctness, at most one start of the agent, the      *)
(* payloads that are kept, and what the queue promises about each task.    *)
(***************************************************************************)
EXTENDS TaskQueue, TLAPS, SequenceTheorems

USE KeysAssumption DEF EnvEvents

-----------------------------------------------------------------------------
(* The two commands that change a queue. *)

\* A queue holds only its worker's tasks, each once.
QueuesDistinct ==
  \A w \in Workers : \A i \in DOMAIN queue[w] :
    /\ WorkerOf[queue[w][i]] = w
    /\ \A j \in DOMAIN queue[w] : queue[w][i] = queue[w][j] => i = j

\* LPUSH adds the pushed task to its own queue and nothing else anywhere.
LEMMA PushQueueAdds ==
  ASSUME queue \in [Workers -> Seq(Tasks)], NEW t \in Tasks, PushQueue(t)
  PROVE  /\ queue' \in [Workers -> Seq(Tasks)]
         /\ \A u \in Tasks : InQueue(u)' <=> InQueue(u) \/ u = t
         /\ QueuesDistinct /\ ~InQueue(t) => QueuesDistinct'
<1> DEFINE q == queue[WorkerOf[t]]
<1>1. q \in Seq(Tasks) /\ DOMAIN q = 1 .. Len(q) /\ Len(q) \in Nat
  BY LenProperties
<1>2. /\ queue' = [queue EXCEPT ![WorkerOf[t]] = Append(q, t)]
      /\ Append(q, t) \in Seq(Tasks)
      /\ DOMAIN Append(q, t) = 1 .. Len(q) + 1
      /\ \A i \in 1 .. Len(q) : Append(q, t)[i] = q[i]
      /\ Append(q, t)[Len(q) + 1] = t
  BY <1>1, AppendProperties, LenProperties DEF PushQueue
<1>3. queue' \in [Workers -> Seq(Tasks)]
  BY <1>2
<1>4. ASSUME NEW u \in Tasks PROVE InQueue(u)' <=> InQueue(u) \/ u = t
  <2>1. CASE WorkerOf[u] # WorkerOf[t]
    <3>1. queue'[WorkerOf[u]] = queue[WorkerOf[u]]
      BY <1>2, <2>1
    <3> QED BY <3>1, <2>1 DEF InQueue
  <2>2. CASE WorkerOf[u] = WorkerOf[t]
    <3>1. queue[WorkerOf[u]] = q /\ queue'[WorkerOf[u]] = Append(q, t)
      BY <1>2, <2>2
    <3>2. InQueue(u) <=> \E i \in 1 .. Len(q) : q[i] = u
      BY <1>1, <3>1 DEF InQueue
    <3>3. InQueue(u)' <=> \E i \in 1 .. Len(q) + 1 : Append(q, t)[i] = u
      BY <1>2, <3>1 DEF InQueue
    <3> HIDE DEF q
    <3>4. ASSUME InQueue(u) \/ u = t PROVE InQueue(u)'
      <4>1. CASE u = t
        BY <1>1, <1>2, <3>3, <4>1
      <4>2. CASE InQueue(u)
        BY <1>1, <1>2, <3>2, <3>3, <4>2
      <4> QED BY <3>4, <4>1, <4>2
    <3>5. ASSUME InQueue(u)' PROVE InQueue(u) \/ u = t
      BY <1>1, <1>2, <3>2, <3>3, <3>5
    <3> QED BY <3>4, <3>5
  <2> QED BY <2>1, <2>2
<1>5. ASSUME QueuesDistinct, ~InQueue(t), NEW w \in Workers, NEW i \in DOMAIN queue'[w]
      PROVE  /\ WorkerOf[queue'[w][i]] = w
             /\ \A j \in DOMAIN queue'[w] : queue'[w][i] = queue'[w][j] => i = j
  <2>1. CASE w # WorkerOf[t]
    <3>1. queue'[w] = queue[w]
      BY <1>2, <2>1
    <3> QED BY <1>5, <3>1 DEF QueuesDistinct
  <2>2. CASE w = WorkerOf[t]
    <3>1. queue[w] = q /\ queue'[w] = Append(q, t) /\ \A k \in 1 .. Len(q) : q[k] # t
      BY <1>1, <1>2, <1>5, <2>2 DEF InQueue
    <3>2. \A k \in 1 .. Len(q) : WorkerOf[q[k]] = w /\ \A l \in 1 .. Len(q) : q[k] = q[l] => k = l
      BY <1>1, <1>5, <3>1 DEF QueuesDistinct
    <3>3. \A k \in 1 .. Len(q) + 1 : k \in 1 .. Len(q) \/ k = Len(q) + 1
      BY <1>1
    <3> HIDE DEF q
    <3> QED BY <1>2, <1>5, <2>2, <3>1, <3>2, <3>3
  <2> QED BY <2>1, <2>2
<1> QED BY <1>3, <1>4, <1>5 DEF QueuesDistinct

\* BLMOVE takes one task off its queue and lists it; no task leaves both.
LEMMA MoveTakes ==
  ASSUME queue \in [Workers -> Seq(Tasks)], processing \in [Tasks -> Nat],
         NEW w \in Workers, MoveToProcessing(w)
  PROVE  /\ queue' \in [Workers -> Seq(Tasks)]
         /\ processing' \in [Tasks -> Nat]
         /\ Head(queue[w]) \in Tasks
         /\ processing' = [processing EXCEPT ![Head(queue[w])] = @ + 1]
         /\ \A u \in Tasks : InQueue(u)' => InQueue(u)
         /\ \A u \in Tasks \ {Head(queue[w])} : InQueue(u) => InQueue(u)'
         /\ QueuesDistinct =>
              /\ WorkerOf[Head(queue[w])] = w
              /\ \A u \in Tasks : u = Head(queue[w]) => InQueue(u) /\ ~InQueue(u)'
              /\ QueuesDistinct'
<1> DEFINE q == queue[w]
           h == Head(q)
<1>1. /\ q \in Seq(Tasks) /\ q # << >> /\ DOMAIN q = 1 .. Len(q)
      /\ Len(q) \in Nat /\ Len(q) > 0 /\ h = q[1]
  BY LenProperties, EmptySeq DEF MoveToProcessing
<1>2. /\ queue' = [queue EXCEPT ![w] = Tail(q)]
      /\ h \in Tasks
      /\ Tail(q) \in Seq(Tasks)
      /\ DOMAIN Tail(q) = 1 .. Len(q) - 1
      /\ \A i \in 1 .. Len(q) - 1 : Tail(q)[i] = q[i + 1]
  BY <1>1, HeadTailProperties, LenProperties DEF MoveToProcessing
<1>3. queue' \in [Workers -> Seq(Tasks)] /\ processing' \in [Tasks -> Nat]
  BY <1>2 DEF MoveToProcessing
<1>4. ASSUME NEW u \in Tasks
      PROVE  /\ InQueue(u)' => InQueue(u)
             /\ u # h /\ InQueue(u) => InQueue(u)'
  <2>1. CASE WorkerOf[u] # w
    <3>1. queue'[WorkerOf[u]] = queue[WorkerOf[u]]
      BY <1>2, <2>1
    <3> QED BY <3>1 DEF InQueue
  <2>2. CASE WorkerOf[u] = w
    <3>1. queue[WorkerOf[u]] = q /\ queue'[WorkerOf[u]] = Tail(q)
      BY <1>2, <2>2
    <3>2. InQueue(u) <=> \E i \in 1 .. Len(q) : q[i] = u
      BY <1>1, <3>1 DEF InQueue
    <3>3. InQueue(u)' <=> \E i \in 1 .. Len(q) - 1 : Tail(q)[i] = u
      BY <1>2, <3>1 DEF InQueue
    <3> HIDE DEF q
    <3>4. ASSUME InQueue(u)' PROVE InQueue(u)
      <4>1. PICK i \in 1 .. Len(q) - 1 : Tail(q)[i] = u
        BY <3>3, <3>4
      <4>2. i + 1 \in 1 .. Len(q) /\ q[i + 1] = u
        BY <1>1, <1>2, <4>1
      <4> QED BY <3>2, <4>2
    <3>5. ASSUME u # h, InQueue(u) PROVE InQueue(u)'
      <4>1. PICK i \in 1 .. Len(q) : q[i] = u
        BY <3>2, <3>5
      <4>2. i # 1
        BY <1>1, <3>5, <4>1
      <4>3. i - 1 \in 1 .. Len(q) - 1 /\ Tail(q)[i - 1] = q[(i - 1) + 1] /\ (i - 1) + 1 = i
        BY <1>1, <1>2, <4>2
      <4> QED BY <3>3, <4>1, <4>3
    <3> QED BY <3>4, <3>5
  <2> QED BY <2>1, <2>2
<1>5. ASSUME QueuesDistinct
      PROVE  /\ WorkerOf[h] = w
             /\ \A u \in Tasks : u = h => InQueue(u) /\ ~InQueue(u)'
             /\ QueuesDistinct'
  <2>1. /\ queue'[w] = Tail(q)
        /\ \A v \in Workers \ {w} : queue'[v] = queue[v]
    BY <1>2
  <2>2. \A i \in 1 .. Len(q) : WorkerOf[q[i]] = w /\ \A j \in 1 .. Len(q) : q[i] = q[j] => i = j
    BY <1>1, <1>5 DEF QueuesDistinct
  <2>3. WorkerOf[h] = w /\ InQueue(h)
    BY <1>1, <2>2 DEF InQueue
  <2>4. \A i \in 1 .. Len(q) - 1 : i + 1 \in 1 .. Len(q) /\ i + 1 # 1 /\ Tail(q)[i] = q[i + 1]
    BY <1>1, <1>2
  <2>5. \A i, j \in 1 .. Len(q) - 1 : i + 1 = j + 1 => i = j
    BY <1>1
  <2>6. 1 \in 1 .. Len(q)
    BY <1>1
  <2> HIDE DEF q, h
  <2>7. \A i \in 1 .. Len(q) - 1 : Tail(q)[i] # h
    BY <1>1, <2>2, <2>4, <2>6
  <2>8. ASSUME NEW u \in Tasks, u = h PROVE ~InQueue(u)'
    <3>1. queue'[WorkerOf[u]] = Tail(q)
      BY <2>1, <2>3, <2>8
    <3> QED BY <1>2, <2>7, <2>8, <3>1 DEF InQueue
  <2>9. \A i \in 1 .. Len(q) - 1 : /\ WorkerOf[Tail(q)[i]] = w
                                   /\ \A j \in 1 .. Len(q) - 1 : Tail(q)[i] = Tail(q)[j] => i = j
    BY <2>2, <2>4, <2>5
  <2>10. ASSUME NEW v \in Workers, NEW i \in DOMAIN queue'[v]
         PROVE  /\ WorkerOf[queue'[v][i]] = v
                /\ \A j \in DOMAIN queue'[v] : queue'[v][i] = queue'[v][j] => i = j
    <3>1. CASE v = w
      BY <1>2, <2>1, <2>9, <2>10, <3>1
    <3>2. CASE v # w
      BY <1>5, <2>1, <2>10, <3>2 DEF QueuesDistinct
    <3> QED BY <3>1, <3>2
  <2> QED BY <2>3, <2>8, <2>10 DEF QueuesDistinct
<1> QED BY <1>2, <1>3, <1>4, <1>5 DEF MoveToProcessing

-----------------------------------------------------------------------------
(* Type correctness. *)

\* A worker that is past its take holds a task: what it writes is a task's key.
HandFull ==
  \A w \in Workers : wpc[w] \notin {"idle", "stopped"} => hand[w] \in Tasks

\* A wait polls a task whose status exists, so what it carries over to the
\* thread is never "none".
WaitKnows ==
  \A t \in Tasks : /\ pc[t] = "poll" => status[t] # "none"
                   /\ pc[t] = "settle" => seen[t] # "none"

TypeInv == TypeOK /\ HandFull /\ WaitKnows

\* OnError leads from a point of Enqueue to another of its points.
LEMMA OnErrorType ==
  ASSUME NEW t \in Tasks, NEW at \in {"idle"} \union Enqueuing
  PROVE  OnError(t, at) \in PcValues
BY DEF OnError, PcValues, Enqueuing, Stopped, Waiting

LEMMA GotoType ==
  ASSUME pc \in [Tasks -> PcValues], NEW t \in Tasks, NEW from, NEW to \in PcValues, Goto(t, from, to)
  PROVE  pc' \in [Tasks -> PcValues]
BY DEF Goto

LEMMA TypeInit == Init => TypeInv
<1> SUFFICES ASSUME Init PROVE TypeInv
  OBVIOUS
<1> USE DEF Init, KeysInit, ClientInit, WorkerInit
<1>1. KeysTypeOK
  BY EmptySeq DEF KeysTypeOK, TaskStatus, ThreadStatus, Outcomes
<1>2. ClientTypeOK
  BY DEF ClientTypeOK, PcValues, TaskStatus
<1>3. WorkerTypeOK /\ HandFull
  BY DEF WorkerTypeOK, WorkerPcs, HandFull
<1>4. WaitKnows
  BY DEF WaitKnows
<1> QED BY <1>1, <1>2, <1>3, <1>4 DEF TypeInv, TypeOK

\* A step of Enqueue keeps the types of the keys and of the client.
LEMMA EnqueueType ==
  ASSUME KeysTypeOK, ClientTypeOK, NEW t \in Tasks, Enqueue(t) \/ CommandFails(t)
  PROVE  KeysTypeOK' /\ ClientTypeOK'
<1> USE DEF KeysTypeOK, ClientTypeOK, lockVars, taskVars, groupVars, listVars, redisVars
<1>a. ASSUME NEW at \in {"idle"} \union Enqueuing, NEW next \in PcValues, Ran(t, at, next)
      PROVE  pc' \in [Tasks -> PcValues] /\ faults' \in Nat
  <2>1. OnError(t, at) \in PcValues
    BY OnErrorType
  <2>2. CASE Goto(t, at, next) /\ UNCHANGED faults
    BY <2>2, GotoType
  <2>3. CASE Goto(t, at, OnError(t, at)) /\ Fault("redisError")
    BY <2>1, <2>3, GotoType DEF Fault
  <2> QED BY <1>a, <2>2, <2>3 DEF Ran
<1>b. Locked(t) \in PcValues
  BY DEF Locked, PcValues, Enqueuing
<1>1. CASE Acquire(t)
  <2>1. PICK got \in BOOLEAN :
          SetLockNX(t, got) /\ Ran(t, "idle", IF got THEN Locked(t) ELSE "holder")
    BY <1>1 DEF Acquire, TryLock
  <2>2. pc' \in [Tasks -> PcValues] /\ faults' \in Nat
    BY <2>1, <1>a, <1>b DEF PcValues, Enqueuing
  <2>3. lock' \in [Threads -> Tasks \union {NoTask}]
    BY <2>1 DEF SetLockNX
  <2> QED BY <1>1, <2>2, <2>3 DEF Acquire
<1>2. CASE ReadHolder(t)
  BY <1>2 DEF ReadHolder, Goto, PcValues, Enqueuing
<1>3. CASE CheckHolder(t)
  BY <1>3 DEF CheckHolder, Goto, PcValues, Enqueuing, Stopped
<1>4. CASE ClearStale(t)
  <2>1. pc' \in [Tasks -> PcValues] /\ faults' \in Nat
    BY <1>4, <1>a DEF ClearStale, PcValues, Enqueuing
  <2> QED BY <1>4, <2>1 DEF ClearStale, DelLock
<1>5. CASE Reacquire(t)
  <2>1. PICK got \in BOOLEAN :
          SetLockNX(t, got) /\ Ran(t, "reacquire", IF got THEN Locked(t) ELSE "refused")
    BY <1>5 DEF Reacquire, TryLock
  <2>2. pc' \in [Tasks -> PcValues] /\ faults' \in Nat
    BY <2>1, <1>a, <1>b DEF PcValues, Enqueuing, Stopped
  <2>3. lock' \in [Threads -> Tasks \union {NoTask}]
    BY <2>1 DEF SetLockNX
  <2> QED BY <1>5, <2>2, <2>3 DEF Reacquire
<1>6. CASE ReleaseGate(t)
  BY <1>6 DEF ReleaseGate, Goto, DelLock, PcValues, Enqueuing
<1>7. CASE AppendInstruction(t)
  <2>1. pc' \in [Tasks -> PcValues] /\ faults' \in Nat
    BY <1>7, <1>a DEF AppendInstruction, PcValues, Enqueuing
  <2> QED BY <1>7, <2>1 DEF AppendInstruction, MessageKinds
<1>8. CASE JoinGroup(t)
  <2>1. pc' \in [Tasks -> PcValues] /\ faults' \in Nat
    BY <1>8, <1>a DEF JoinGroup, PcValues, Enqueuing
  <2> QED BY <1>8, <2>1 DEF JoinGroup
<1>9. CASE SetGroup(t)
  <2>1. pc' \in [Tasks -> PcValues] /\ faults' \in Nat
    BY <1>9, <1>a DEF SetGroup, PcValues, Enqueuing
  <2> QED BY <1>9, <2>1 DEF SetGroup
<1>10. CASE Push(t)
  <2>1. pc' \in [Tasks -> PcValues] /\ faults' \in Nat
    BY <1>10, <1>a DEF Push, PcValues, Enqueuing
  <2>2. queue' \in [Workers -> Seq(Tasks)]
    BY <1>10, PushQueueAdds DEF Push
  <2> QED BY <1>10, <2>1, <2>2 DEF Push
<1>11. CASE InitKeys(t)
  <2>1. pc' \in [Tasks -> PcValues] /\ faults' \in Nat
    BY <1>11, <1>a DEF InitKeys, PcValues, Enqueuing
  <2> QED BY <1>11, <2>1 DEF InitKeys, TaskStatus
<1>12. CASE Rollback(t)
  BY <1>12 DEF Rollback, Goto, DelLock, PcValues, Stopped
<1>13. CASE CommandFails(t)
  <2>1. PICK at \in {"idle"} \union Enqueuing : Goto(t, at, OnError(t, at))
    BY <1>13 DEF CommandFails
  <2>2. OnError(t, at) \in PcValues
    BY OnErrorType DEF Enqueuing
  <2> QED BY <1>13, <2>1, <2>2 DEF CommandFails, Goto, Fault
<1> QED BY <1>1, <1>2, <1>3, <1>4, <1>5, <1>6, <1>7, <1>8, <1>9, <1>10, <1>11, <1>12, <1>13
        DEF Enqueue

\* So does every other step of a client.
LEMMA ClientType ==
  ASSUME KeysTypeOK, ClientTypeOK, WaitKnows, ClientNext
  PROVE  KeysTypeOK' /\ ClientTypeOK'
<1> USE DEF KeysTypeOK, ClientTypeOK, lockVars, taskVars, groupVars, listVars, redisVars, clientVars
<1>1. ASSUME NEW t \in Tasks, Enqueue(t) \/ CommandFails(t) PROVE KeysTypeOK' /\ ClientTypeOK'
  BY <1>1, EnqueueType
<1>2. ASSUME NEW t \in Tasks, StartWait(t) \/ PollTerminal(t) \/ PollTimeout(t) \/ Leave(t)
      PROVE  KeysTypeOK' /\ ClientTypeOK'
  <2>1. pc' \in [Tasks -> PcValues]
    BY <1>2, GotoType DEF StartWait, PollTerminal, PollTimeout, Leave, PcValues, Waiting
  <2>2. seen' \in [Tasks -> TaskStatus]
    BY <1>2 DEF StartWait, PollTerminal, PollTimeout, Leave
  <2> QED BY <1>2, <2>1, <2>2 DEF StartWait, PollTerminal, PollTimeout, Leave
<1>3. ASSUME NEW t \in Tasks, Settle(t) PROVE KeysTypeOK' /\ ClientTypeOK'
  <2>1. ThreadStatusFromTask(seen[t]) \in ThreadStatus
    <3>1. seen[t] \in {"pending", "running", "done", "failed", "cancelled"}
      BY <1>3 DEF WaitKnows, Settle, TaskStatus, Outcomes
    <3>2. ThreadStatusFromTask(seen[t]) \in {"pending", "running", "complete", "error", "cancelled"}
      BY <3>1, Zenon DEF ThreadStatusFromTask
    <3> QED BY <3>2 DEF ThreadStatus
  <2>2. threadStatus' \in [Threads -> ThreadStatus]
    BY <1>3, <2>1 DEF Settle
  <2>3. pc' \in [Tasks -> PcValues]
    BY <1>3, GotoType DEF Settle, PcValues, Waiting
  <2>4. faults' \in Nat
    BY <1>3 DEF Settle, Fault
  <2> QED BY <1>3, <2>2, <2>3, <2>4 DEF Settle
<1>4. ASSUME NEW t \in Tasks, WaitUnlock(t) PROVE KeysTypeOK' /\ ClientTypeOK'
  BY <1>4 DEF WaitUnlock, Goto, DelLock, PcValues
<1>5. ASSUME NEW t \in Tasks, CancelTask(t) PROVE KeysTypeOK' /\ ClientTypeOK'
  BY <1>5 DEF CancelTask
<1>6. ASSUME NEW t \in Tasks, ClientDies(t) PROVE KeysTypeOK' /\ ClientTypeOK'
  BY <1>6 DEF ClientDies, Goto, Fault, PcValues, Stopped
<1>7. ASSUME NEW th \in Threads, UnlockThread(th) \/ (LockExpire(th) /\ UNCHANGED clientVars)
      PROVE  KeysTypeOK' /\ ClientTypeOK'
  BY <1>7 DEF UnlockThread, LockExpire, DelLock
<1>8. ASSUME NEW t \in Tasks, WaitFails(t) \/ WaitCancelled(t) PROVE KeysTypeOK' /\ ClientTypeOK'
  <2>1. pc' \in [Tasks -> PcValues]
    BY <1>8, GotoType DEF WaitFails, WaitCancelled, PcValues, Waiting, Stopped
  <2>2. faults' \in Nat
    BY <1>8 DEF WaitFails, WaitCancelled, Fault
  <2> QED BY <1>8, <2>1, <2>2 DEF WaitFails, WaitCancelled
<1> QED BY <1>1, <1>2, <1>3, <1>4, <1>5, <1>6, <1>7, <1>8 DEF ClientNext, WaitTask

\* A step of a worker keeps the types of the keys and of the worker.
LEMMA WorkerType ==
  ASSUME KeysTypeOK, WorkerTypeOK, HandFull, WorkerNext
  PROVE  KeysTypeOK' /\ WorkerTypeOK' /\ HandFull'
<1> USE DEF KeysTypeOK, WorkerTypeOK, HandFull, lockVars, taskVars, groupVars, listVars,
            redisVars, workerVars
<1>a. ASSUME NEW w \in Workers, NEW from, NEW to \in WorkerPcs \ {"idle", "stopped"},
             Step(w, from, to), hand[w] \in Tasks, hand' = hand
      PROVE  wpc' \in [Workers -> WorkerPcs] /\ HandFull'
  BY <1>a DEF Step
<1>1. ASSUME NEW w \in Workers, Take(w) PROVE KeysTypeOK' /\ WorkerTypeOK' /\ HandFull'
  <2>1. /\ queue' \in [Workers -> Seq(Tasks)] /\ processing' \in [Tasks -> Nat]
        /\ Head(queue[w]) \in Tasks
    BY <1>1, MoveTakes DEF Take
  <2>2. WorkerTypeOK' /\ HandFull'
    BY <1>1, <2>1 DEF Take, Step, WorkerPcs
  <2> QED BY <1>1, <2>1, <2>2 DEF Take
<1>2. ASSUME NEW w \in Workers, TakeReplyLost(w) PROVE KeysTypeOK' /\ WorkerTypeOK' /\ HandFull'
  <2>1. queue' \in [Workers -> Seq(Tasks)] /\ processing' \in [Tasks -> Nat]
    BY <1>2, MoveTakes DEF TakeReplyLost
  <2> QED BY <1>2, <2>1 DEF TakeReplyLost, Fault
<1>3. ASSUME NEW w \in Workers, Register(w) PROVE KeysTypeOK' /\ WorkerTypeOK' /\ HandFull'
  <2>1. hand[w] \in Tasks
    BY <1>3 DEF Register, Step
  <2> QED BY <1>3, <2>1, <1>a DEF Register, WorkerPcs
<1>4. ASSUME NEW w \in Workers, SetRunning(w) PROVE KeysTypeOK' /\ WorkerTypeOK' /\ HandFull'
  <2>1. hand[w] \in Tasks
    BY <1>4 DEF SetRunning, Step
  <2> QED BY <1>4, <2>1, <1>a DEF SetRunning, WorkerPcs, TaskStatus
<1>5. ASSUME NEW w \in Workers, CheckCancel(w) PROVE KeysTypeOK' /\ WorkerTypeOK' /\ HandFull'
  <2>1. hand[w] \in Tasks
    BY <1>5 DEF CheckCancel, Step
  <2>2. wpc' \in [Workers -> WorkerPcs] /\ HandFull'
    BY <1>5, <2>1, <1>a DEF CheckCancel, WorkerPcs
  <2>3. starts' \in [Tasks -> Nat]
    BY <1>5, <2>1 DEF CheckCancel
  <2> QED BY <1>5, <2>2, <2>3 DEF CheckCancel
<1>6. ASSUME NEW w \in Workers, StoreCancelled(w) PROVE KeysTypeOK' /\ WorkerTypeOK' /\ HandFull'
  <2>1. hand[w] \in Tasks
    BY <1>6 DEF StoreCancelled, Step
  <2> QED BY <1>6, <2>1, <1>a DEF StoreCancelled, WorkerPcs, TaskStatus, Outcomes
<1>7. ASSUME NEW w \in Workers, StoreResult(w) PROVE KeysTypeOK' /\ WorkerTypeOK' /\ HandFull'
  <2>1. hand[w] \in Tasks
    BY <1>7 DEF StoreResult, Step
  <2> QED BY <1>7, <2>1, <1>a DEF StoreResult, WorkerPcs, TaskStatus, Outcomes
<1>8. ASSUME NEW w \in Workers, Reply(w) PROVE KeysTypeOK' /\ WorkerTypeOK' /\ HandFull'
  <2>1. hand[w] \in Tasks
    BY <1>8 DEF Reply, Step
  <2>2. wpc' \in [Workers -> WorkerPcs] /\ HandFull'
    BY <1>8, <2>1, <1>a DEF Reply, WorkerPcs
  <2>3. messages' \subseteq Tasks \X MessageKinds
    BY <1>8, <2>1 DEF Reply, MessageKinds
  <2> QED BY <1>8, <2>2, <2>3 DEF Reply
<1>9. ASSUME NEW w \in Workers, Unlist(w) PROVE KeysTypeOK' /\ WorkerTypeOK' /\ HandFull'
  <2>1. hand[w] \in Tasks
    BY <1>9 DEF Unlist, Step
  <2>2. processing' \in [Tasks -> Nat]
    BY <1>9 DEF Unlist, RemoveFromProcessing
  <2> QED BY <1>9, <2>1, <2>2, <1>a DEF Unlist, WorkerPcs
<1>10. ASSUME NEW w \in Workers, Deregister(w) PROVE KeysTypeOK' /\ WorkerTypeOK' /\ HandFull'
  BY <1>10 DEF Deregister, Step, WorkerPcs
<1>11. ASSUME NEW w \in Workers, CommandDropped(w) PROVE KeysTypeOK' /\ WorkerTypeOK' /\ HandFull'
  <2>1. hand[w] \in Tasks /\ faults' \in Nat
    <3>1. wpc[w] \notin {"idle", "stopped"}
      BY <1>11 DEF CommandDropped, Step
    <3>2. faults' \in Nat
      BY <1>11 DEF CommandDropped, Fault
    <3> QED BY <3>1, <3>2
  <2>2. starts' \in [Tasks -> Nat] /\ hand' \in [Workers -> Tasks \union {NoTask}]
    BY <1>11, <2>1 DEF CommandDropped
  <2>3. wpc' \in [Workers -> WorkerPcs] /\ HandFull'
    <3>1. CASE wpc[w] = "unlisted"
      BY <1>11, <3>1 DEF CommandDropped, Step, WorkerPcs
    <3>2. CASE wpc[w] # "unlisted"
      <4>1. hand' = hand
        BY <1>11, <3>2 DEF CommandDropped
      <4>2. PICK from \in WorkerPcs, to \in WorkerPcs \ {"idle", "stopped"} : Step(w, from, to)
        BY <1>11, <3>2 DEF CommandDropped, WorkerPcs, Step
      <4> QED BY <2>1, <4>1, <4>2, <1>a
    <3> QED BY <3>1, <3>2
  <2> QED BY <1>11, <2>1, <2>2, <2>3 DEF CommandDropped
<1>12. ASSUME NEW w \in Workers, Stop(w) \/ Restart(w) PROVE KeysTypeOK' /\ WorkerTypeOK' /\ HandFull'
  <2>1. wpc' \in [Workers -> WorkerPcs] /\ HandFull'
    BY <1>12 DEF Stop, Restart, Step, WorkerPcs
  <2>2. faults' \in Nat
    BY <1>12 DEF Stop, Restart, Fault
  <2> QED BY <1>12, <2>1, <2>2 DEF Stop, Restart
<1>13. ASSUME NEW w \in Workers, WorkerCrash(w) PROVE KeysTypeOK' /\ WorkerTypeOK' /\ HandFull'
  <2>1. wpc' \in [Workers -> WorkerPcs] /\ HandFull'
    BY <1>13 DEF WorkerCrash, WorkerPcs
  <2> QED BY <1>13, <2>1 DEF WorkerCrash, Fault
<1> QED BY <1>1, <1>2, <1>3, <1>4, <1>5, <1>6, <1>7, <1>8, <1>9, <1>10, <1>11, <1>12, <1>13
        DEF WorkerNext, ProcessOneTask

\* The points of Enqueue at which its LPUSH has not been tried.
BeforePush == {"idle", "holder", "check", "clear", "reacquire", "release", "append",
               "sadd", "label", "push"}

\* Enqueue only moves forward: once past its LPUSH it does not come back.
LEMMA EnqueueMoves ==
  ASSUME ClientTypeOK, NEW t \in Tasks, Enqueue(t) \/ CommandFails(t)
  PROVE  /\ seen' = seen
         /\ \E from \in {"idle"} \union Enqueuing, to \in Enqueuing \union Stopped \union {"enqueued"} :
              Goto(t, from, to) /\ (to \in BeforePush => from \in BeforePush)
<1> DEFINE Moves == \E from \in {"idle"} \union Enqueuing,
                      to \in Enqueuing \union Stopped \union {"enqueued"} :
                      Goto(t, from, to) /\ (to \in BeforePush => from \in BeforePush)
<1>1. ASSUME NEW at \in {"idle"} \union Enqueuing, Goto(t, at, OnError(t, at))
      PROVE  Moves
  <2>1. /\ OnError(t, at) \in Enqueuing \union Stopped
        /\ OnError(t, at) \in BeforePush => at \in BeforePush
    BY DEF OnError, Enqueuing, Stopped, BeforePush
  <2> QED BY <1>1, <2>1 DEF Enqueuing
<1>2. ASSUME NEW at \in BeforePush, NEW next \in Enqueuing \union Stopped, Ran(t, at, next)
      PROVE  Moves
  <2>1. at \in {"idle"} \union Enqueuing
    BY DEF BeforePush, Enqueuing
  <2>2. CASE Goto(t, at, next)
    BY <2>1, <2>2
  <2> QED BY <1>1, <1>2, <2>1, <2>2 DEF Ran
<1>3. Locked(t) \in Enqueuing
  BY DEF Locked, Enqueuing
<1>4. CASE Acquire(t) \/ Reacquire(t)
  <2>1. PICK at \in {"idle", "reacquire"}, next \in {Locked(t), "holder", "refused"} : Ran(t, at, next)
    BY <1>4 DEF Acquire, Reacquire, TryLock
  <2>2. at \in BeforePush /\ next \in Enqueuing \union Stopped
    BY <1>3 DEF BeforePush, Enqueuing, Stopped
  <2> QED BY <1>2, <1>4, <2>1, <2>2 DEF Acquire, Reacquire
<1>5. CASE ReadHolder(t) \/ CheckHolder(t) \/ ReleaseGate(t) \/ Rollback(t)
  <2>1. CASE ReadHolder(t) \/ ReleaseGate(t) \/ Rollback(t)
    BY <2>1 DEF ReadHolder, ReleaseGate, Rollback, BeforePush, Enqueuing, Stopped
  <2>2. CASE CheckHolder(t)
    BY <2>2 DEF CheckHolder, BeforePush, Enqueuing, Stopped
  <2> QED BY <1>5, <2>1, <2>2 DEF ReadHolder, CheckHolder, ReleaseGate, Rollback
<1>6. CASE ClearStale(t) \/ AppendInstruction(t) \/ JoinGroup(t) \/ SetGroup(t) \/ Push(t)
  <2>1. PICK at \in {"clear", "append", "sadd", "label", "push"},
              next \in {"reacquire", "sadd", "push", "label", "init"} : Ran(t, at, next)
    BY <1>6 DEF ClearStale, AppendInstruction, JoinGroup, SetGroup, Push
  <2>2. at \in BeforePush /\ next \in Enqueuing
    BY DEF BeforePush, Enqueuing
  <2> QED BY <1>2, <1>6, <2>1, <2>2 DEF ClearStale, AppendInstruction, JoinGroup, SetGroup, Push
<1>7. CASE InitKeys(t)
  <2>1. CASE Goto(t, "init", "enqueued")
    BY <1>7, <2>1 DEF InitKeys, Enqueuing, BeforePush
  <2>2. CASE Goto(t, "init", OnError(t, "init"))
    BY <1>1, <1>7, <2>2 DEF InitKeys, Enqueuing
  <2> QED BY <1>7, <2>1, <2>2 DEF InitKeys, Ran
<1>8. CASE CommandFails(t)
  <2>1. PICK at \in {"idle"} \union Enqueuing : Goto(t, at, OnError(t, at))
    BY <1>8 DEF CommandFails
  <2> QED BY <1>1, <1>8, <2>1 DEF CommandFails
<1> QED BY <1>4, <1>5, <1>6, <1>7, <1>8 DEF Enqueue

\* A status key never disappears, so a wait stays on a task that exists.
LEMMA WaitKnowsStep ==
  ASSUME TypeOK, HandFull, WaitKnows, Next
  PROVE  WaitKnows'
<1> USE DEF TypeOK, KeysTypeOK, ClientTypeOK, WorkerTypeOK, lockVars, taskVars, groupVars,
            listVars, redisVars, clientVars, workerVars
<1>1. CASE ClientNext
  <2>1. ASSUME NEW t \in Tasks, Enqueue(t) \/ CommandFails(t) PROVE WaitKnows'
    <3>1. seen' = seen /\ \A u \in Tasks : pc'[u] \in {"poll", "settle"} => pc'[u] = pc[u]
      <4>1. PICK from \in {"idle"} \union Enqueuing,
                 to \in Enqueuing \union Stopped \union {"enqueued"} : Goto(t, from, to)
        BY <2>1, EnqueueMoves
      <4>2. to \notin {"poll", "settle"}
        BY DEF Enqueuing, Stopped
      <4>3. seen' = seen
        BY <2>1, EnqueueMoves
      <4> QED BY <4>1, <4>2, <4>3 DEF Goto
    <3>2. \A u \in Tasks : status[u] # "none" => status'[u] # "none"
      <4>1. status' = status \/ InitKeys(t)
        BY <2>1 DEF Enqueue, CommandFails, Acquire, ReadHolder, CheckHolder, ClearStale, Reacquire,
                    ReleaseGate, AppendInstruction, JoinGroup, SetGroup, Push, Rollback
      <4> QED BY <4>1 DEF InitKeys
    <3> QED BY <3>1, <3>2 DEF WaitKnows
  <2>2. ASSUME NEW t \in Tasks, WaitTask(t) \/ PollTimeout(t) PROVE WaitKnows'
    <3>1. CASE StartWait(t)
      BY <3>1 DEF StartWait, Goto, WaitKnows
    <3>2. CASE PollTerminal(t) \/ PollTimeout(t)
      BY <3>2 DEF PollTerminal, PollTimeout, Goto, WaitKnows
    <3>3. CASE Settle(t)
      BY <3>3 DEF Settle, Goto, WaitKnows
    <3>4. CASE WaitUnlock(t)
      BY <3>4 DEF WaitUnlock, Goto, WaitKnows
    <3> QED BY <2>2, <3>1, <3>2, <3>3, <3>4 DEF WaitTask
  <2>3. ASSUME NEW t \in Tasks, Leave(t) \/ CancelTask(t) \/ ClientDies(t) PROVE WaitKnows'
    BY <2>3 DEF Leave, CancelTask, ClientDies, Goto, WaitKnows
  <2>4. ASSUME NEW th \in Threads, UnlockThread(th) \/ (LockExpire(th) /\ UNCHANGED clientVars)
        PROVE  WaitKnows'
    BY <2>4 DEF UnlockThread, LockExpire, WaitKnows
  <2>5. ASSUME NEW t \in Tasks, WaitFails(t) \/ WaitCancelled(t) PROVE WaitKnows'
    BY <2>5 DEF WaitFails, WaitCancelled, Goto, WaitKnows
  <2> QED BY <1>1, <2>1, <2>2, <2>3, <2>4, <2>5 DEF ClientNext
<1>2. CASE WorkerNext /\ UNCHANGED clientVars
  <2>1. PICK w \in Workers : \/ Take(w) \/ TakeReplyLost(w) \/ ProcessOneTask(w) \/ CommandDropped(w)
                             \/ Stop(w) \/ Restart(w) \/ WorkerCrash(w)
    BY <1>2 DEF WorkerNext
  <2>2. CASE SetRunning(w) \/ StoreCancelled(w) \/ StoreResult(w)
    BY <1>2, <2>2 DEF SetRunning, StoreCancelled, StoreResult, WaitKnows
  <2>3. CASE UNCHANGED status
    BY <1>2, <2>3 DEF WaitKnows
  <2> QED BY <2>1, <2>2, <2>3
       DEF Take, TakeReplyLost, ProcessOneTask, Register, CheckCancel, Reply, Unlist, Deregister,
           CommandDropped, Stop, Restart, WorkerCrash
<1> QED BY <1>1, <1>2 DEF Next

\* The invariant is kept by every step, a stuttering one included.
LEMMA TypeStep == TypeInv /\ [Next]_vars => TypeInv'
<1> SUFFICES ASSUME TypeInv, [Next]_vars PROVE TypeInv'
  OBVIOUS
<1> USE DEF TypeInv, TypeOK
<1>1. CASE ClientNext /\ UNCHANGED workerVars
  BY <1>1, ClientType, WaitKnowsStep DEF WorkerTypeOK, HandFull, workerVars, Next
<1>2. CASE WorkerNext /\ UNCHANGED clientVars
  BY <1>2, WorkerType, WaitKnowsStep DEF ClientTypeOK, clientVars, Next
<1>3. CASE UNCHANGED vars
  BY <1>3 DEF KeysTypeOK, ClientTypeOK, WorkerTypeOK, HandFull, WaitKnows, vars, redisVars,
              lockVars, taskVars, groupVars, listVars, clientVars, workerVars
<1> QED BY <1>1, <1>2, <1>3 DEF Next

\* Every reachable state is of the declared types: in particular a wait never
\* writes a thread status that threads do not have.
THEOREM TypeCorrect == Spec => []TypeOK
<1>1. TypeInv => TypeOK
  BY DEF TypeInv
<1> QED BY TypeInit, TypeStep, <1>1, PTL DEF Spec

-----------------------------------------------------------------------------
(* The agent is started at most once. *)

\* No worker has seen the payload of t.
Untaken(t) == ~Held(t) /\ starts[t] = 0

\* A payload is in one place: not pushed yet, in its queue, or taken.
OnePlace ==
  \A t \in Tasks : /\ pc[t] \in BeforePush => ~InQueue(t) /\ Untaken(t)
                   /\ InQueue(t) => Untaken(t)

\* A worker holds a task of its own, or nothing.
HandOwn ==
  \A w \in Workers : /\ hand[w] # NoTask => WorkerOf[hand[w]] = w
                     /\ wpc[w] \in {"idle", "stopped"} => hand[w] = NoTask

\* Up to CheckCancel the agent has not been started for the held task.
HandFresh ==
  \A w \in Workers : wpc[w] \in {"taken", "registered", "running"} => starts[hand[w]] = 0

OnceInv == QueuesDistinct /\ OnePlace /\ HandOwn /\ HandFresh /\ AtMostOnce

LEMMA OnceInit == Init => OnceInv
<1> SUFFICES ASSUME Init PROVE OnceInv
  OBVIOUS
<1>1. /\ queue = [w \in Workers |-> << >>]
      /\ wpc = [w \in Workers |-> "idle"]
      /\ hand = [w \in Workers |-> NoTask]
      /\ starts = [t \in Tasks |-> 0]
  BY DEF Init, KeysInit, WorkerInit
<1>2. QueuesDistinct /\ \A t \in Tasks : ~InQueue(t)
  BY <1>1, EmptySeq DEF QueuesDistinct, InQueue
<1>3. \A t \in Tasks : Untaken(t)
  BY <1>1 DEF Untaken, Held
<1>4. HandOwn /\ HandFresh
  BY <1>1 DEF HandOwn, HandFresh
<1>5. AtMostOnce
  BY <1>1 DEF AtMostOnce
<1> QED BY <1>2, <1>3, <1>4, <1>5 DEF OnceInv, OnePlace

\* What clients do to the lists: an LPUSH of Enqueue, or nothing; and no call
\* comes back to a point before its LPUSH.
LEMMA ClientFrame ==
  ASSUME ClientTypeOK, ClientNext
  PROVE  /\ queue' = queue \/ \E t \in Tasks : Push(t)
         /\ processing' = processing /\ result' = result
         /\ \A t \in Tasks : pc'[t] \in BeforePush => pc[t] \in BeforePush
<1> USE DEF taskVars, groupVars, listVars, redisVars
<1>1. ASSUME NEW t \in Tasks, Enqueue(t) \/ CommandFails(t)
      PROVE  /\ queue' = queue \/ Push(t)
             /\ processing' = processing /\ result' = result
  BY <1>1 DEF Enqueue, CommandFails, Acquire, ReadHolder, CheckHolder, ClearStale, Reacquire,
              ReleaseGate, AppendInstruction, JoinGroup, SetGroup, Push, InitKeys, Rollback
<1>2. ASSUME NEW t \in Tasks, Enqueue(t) \/ CommandFails(t), NEW u \in Tasks, pc'[u] \in BeforePush
      PROVE  pc[u] \in BeforePush
  <2>1. PICK from \in {"idle"} \union Enqueuing,
             to \in Enqueuing \union Stopped \union {"enqueued"} :
          Goto(t, from, to) /\ (to \in BeforePush => from \in BeforePush)
    BY <1>2, EnqueueMoves
  <2> QED BY <1>2, <2>1 DEF ClientTypeOK, Goto
<1>3. ASSUME NEW t \in Tasks, StartWait(t) \/ PollTerminal(t) \/ PollTimeout(t) \/ Settle(t)
                             \/ WaitUnlock(t) \/ WaitFails(t) \/ WaitCancelled(t)
                             \/ Leave(t) \/ ClientDies(t)
      PROVE  /\ queue' = queue /\ processing' = processing /\ result' = result
             /\ \E from, to \in PcValues : Goto(t, from, to) /\ to \notin BeforePush
  <2>1. queue' = queue /\ processing' = processing /\ result' = result
    BY <1>3 DEF StartWait, PollTerminal, PollTimeout, Settle, WaitUnlock, WaitFails, WaitCancelled,
                Leave, ClientDies
  <2>2. CASE StartWait(t) \/ PollTerminal(t) \/ PollTimeout(t) \/ WaitUnlock(t) \/ Leave(t)
    <3>1. \/ Goto(t, "enqueued", "poll") \/ Goto(t, "poll", "settle")
          \/ Goto(t, "unlock", "waited") \/ Goto(t, "enqueued", "left")
      BY <2>2 DEF StartWait, PollTerminal, PollTimeout, WaitUnlock, Leave
    <3> QED BY <2>1, <3>1 DEF PcValues, Waiting, BeforePush
  <2>3. CASE Settle(t)
    BY <2>1, <2>3 DEF Settle, PcValues, Waiting, BeforePush
  <2>4. CASE ClientDies(t)
    <3>1. PICK at \in Enqueuing \union Waiting : Goto(t, at, "dead")
      BY <2>4 DEF ClientDies
    <3>2. at \in PcValues /\ "dead" \in PcValues \ BeforePush
      BY DEF PcValues, Stopped, BeforePush
    <3> QED BY <2>1, <3>1, <3>2
  <2>5. CASE WaitFails(t) \/ WaitCancelled(t)
    <3>1. \/ Goto(t, "poll", "error") \/ Goto(t, "settle", "unlock")
          \/ Goto(t, "settle", "waited") \/ Goto(t, "unlock", "waited")
      BY <2>5 DEF WaitFails, WaitCancelled
    <3> QED BY <2>1, <3>1 DEF PcValues, Waiting, Stopped, BeforePush
  <2> QED BY <1>3, <2>1, <2>2, <2>3, <2>4, <2>5
<1>4. ASSUME NEW t \in Tasks, CancelTask(t)
      PROVE  queue' = queue /\ processing' = processing /\ result' = result /\ pc' = pc
  BY <1>4 DEF CancelTask, clientVars
<1>5. ASSUME NEW th \in Threads, UnlockThread(th) \/ (LockExpire(th) /\ UNCHANGED clientVars)
      PROVE  queue' = queue /\ processing' = processing /\ result' = result /\ pc' = pc
  BY <1>5 DEF UnlockThread, LockExpire, clientVars
<1>6. CASE \E t \in Tasks : Enqueue(t) \/ CommandFails(t)
  BY <1>1, <1>2, <1>6
<1>7. CASE \E t \in Tasks : WaitTask(t) \/ PollTimeout(t) \/ WaitFails(t) \/ WaitCancelled(t) \/ Leave(t) \/ ClientDies(t)
  <2>1. PICK t \in Tasks : WaitTask(t) \/ PollTimeout(t) \/ WaitFails(t) \/ WaitCancelled(t) \/ Leave(t) \/ ClientDies(t)
    BY <1>7
  <2>2. queue' = queue /\ processing' = processing /\ result' = result
    BY <1>3, <2>1 DEF WaitTask
  <2>3. PICK from \in PcValues, to \in PcValues : Goto(t, from, to) /\ to \notin BeforePush
    BY <1>3, <2>1 DEF WaitTask
  <2>4. \A u \in Tasks : pc'[u] \in BeforePush => pc[u] \in BeforePush
    BY <2>3 DEF ClientTypeOK, Goto
  <2> QED BY <2>2, <2>4
<1>8. CASE \/ \E t \in Tasks : CancelTask(t)
           \/ \E th \in Threads : UnlockThread(th) \/ (LockExpire(th) /\ UNCHANGED clientVars)
  BY <1>4, <1>5, <1>8
<1> QED BY <1>6, <1>7, <1>8 DEF ClientNext

\* A client's step keeps every payload in one place: it pushes only a task
\* that no queue and no worker has seen.
LEMMA OnceClient ==
  ASSUME TypeInv, OnceInv, ClientNext, UNCHANGED workerVars
  PROVE  OnceInv'
<1> USE DEF TypeInv, TypeOK, OnceInv, workerVars
<1>1. \A t \in Tasks : pc'[t] \in BeforePush => pc[t] \in BeforePush
  BY ClientFrame
<1>2. \A t \in Tasks : Untaken(t)' <=> Untaken(t)
  BY DEF Untaken, Held
<1>3. HandOwn' /\ HandFresh' /\ AtMostOnce'
  BY DEF HandOwn, HandFresh, AtMostOnce
<1>4. CASE queue' = queue
  <2>1. QueuesDistinct' /\ \A t \in Tasks : InQueue(t)' <=> InQueue(t)
    BY <1>4 DEF QueuesDistinct, InQueue
  <2> QED BY <1>1, <1>2, <1>3, <2>1 DEF OnePlace
<1>5. CASE \E t \in Tasks : Push(t)
  <2>1. PICK t \in Tasks : Push(t)
    BY <1>5
  <2>2. pc[t] = "push" /\ pc'[t] \notin BeforePush /\ PushQueue(t)
    BY <2>1 DEF Push, Ran, Goto, OnError, BeforePush, ClientTypeOK
  <2>3. ~InQueue(t) /\ Untaken(t)
    BY <2>2 DEF OnePlace, BeforePush
  <2>4. QueuesDistinct' /\ \A u \in Tasks : InQueue(u)' <=> InQueue(u) \/ u = t
    BY <2>2, <2>3, PushQueueAdds DEF KeysTypeOK
  <2> QED BY <1>1, <1>2, <1>3, <2>2, <2>3, <2>4 DEF OnePlace
<1> QED BY <1>4, <1>5, ClientFrame

\* A worker's step: the taken payload leaves the queue, and the agent is
\* started only for a task it was not started for.
LEMMA OnceWorker ==
  ASSUME TypeInv, OnceInv, WorkerNext, UNCHANGED clientVars
  PROVE  OnceInv'
<1> USE DEF TypeInv, TypeOK, OnceInv, clientVars, listVars, redisVars, workerVars
<1>1. PICK w \in Workers : \/ Take(w) \/ TakeReplyLost(w) \/ ProcessOneTask(w) \/ CommandDropped(w)
                           \/ Stop(w) \/ Restart(w) \/ WorkerCrash(w)
  BY DEF WorkerNext
\* Steps that neither move a payload nor start the agent.
<1>a. ASSUME queue' = queue, starts' = starts,
             \A v \in Workers : hand'[v] \in {hand[v], NoTask},
             HandOwn', HandFresh'
      PROVE  OnceInv'
  <2>1. QueuesDistinct' /\ \A t \in Tasks : InQueue(t)' <=> InQueue(t)
    BY <1>a DEF QueuesDistinct, InQueue
  <2>2. \A t \in Tasks : Untaken(t) => Untaken(t)'
    BY <1>a DEF Untaken, Held
  <2>3. AtMostOnce'
    BY <1>a DEF AtMostOnce
  <2> QED BY <1>a, <2>1, <2>2, <2>3 DEF OnePlace
<1>2. CASE Take(w)
  <2> DEFINE h == Head(queue[w])
  <2>1. /\ h \in Tasks /\ WorkerOf[h] = w /\ QueuesDistinct'
        /\ \A t \in Tasks : t = h => InQueue(t) /\ ~InQueue(t)'
        /\ \A t \in Tasks : InQueue(t)' => InQueue(t)
    BY <1>2, MoveTakes DEF Take, KeysTypeOK
  <2>2. /\ starts' = starts /\ hand' = [hand EXCEPT ![w] = h]
        /\ wpc' = [wpc EXCEPT ![w] = "taken"] /\ pc' = pc
    BY <1>2 DEF Take, Step
  <2> HIDE DEF h
  <2>3. \A t \in Tasks \ {h} : Untaken(t) => Untaken(t)'
    BY <2>2 DEF Untaken, Held, WorkerTypeOK
  <2>4. starts[h] = 0
    BY <2>1 DEF OnePlace, Untaken
  <2>5. HandOwn' /\ HandFresh' /\ AtMostOnce'
    BY <2>1, <2>2, <2>4 DEF HandOwn, HandFresh, AtMostOnce, WorkerTypeOK
  <2>6. OnePlace'
    BY <2>1, <2>2, <2>3 DEF OnePlace
  <2> QED BY <2>1, <2>5, <2>6
<1>3. CASE TakeReplyLost(w)
  <2>1. QueuesDistinct' /\ \A t \in Tasks : InQueue(t)' => InQueue(t)
    BY <1>3, MoveTakes DEF TakeReplyLost, KeysTypeOK
  <2>2. UNCHANGED workerVars
    BY <1>3 DEF TakeReplyLost
  <2>3. \A t \in Tasks : Untaken(t)' <=> Untaken(t)
    BY <2>2 DEF Untaken, Held
  <2>4. HandOwn' /\ HandFresh' /\ AtMostOnce'
    BY <2>2 DEF HandOwn, HandFresh, AtMostOnce
  <2> QED BY <2>1, <2>3, <2>4 DEF OnePlace
<1>4. CASE Register(w) \/ SetRunning(w)
  <2>1. /\ queue' = queue /\ starts' = starts /\ hand' = hand
        /\ wpc[w] \in {"taken", "registered"}
        /\ \E to \in {"registered", "running"} : wpc' = [wpc EXCEPT ![w] = to]
    BY <1>4 DEF Register, SetRunning, Step
  <2>2. HandOwn' /\ HandFresh'
    BY <2>1 DEF HandOwn, HandFresh, WorkerTypeOK
  <2> QED BY <1>a, <2>1, <2>2
\* CheckCancel, or a failed GET of the flag, starts the agent.
<1>5. ASSUME wpc[w] = "running", queue' = queue, hand' = hand,
             wpc' = [wpc EXCEPT ![w] = "agent"], starts' = [starts EXCEPT ![hand[w]] = @ + 1]
      PROVE  OnceInv'
  <2>1. hand[w] \in Tasks /\ starts[hand[w]] = 0
    BY <1>5 DEF HandFull, HandFresh
  <2>2. QueuesDistinct' /\ \A t \in Tasks : InQueue(t)' <=> InQueue(t)
    BY <1>5 DEF QueuesDistinct, InQueue
  <2>3. \A t \in Tasks : Untaken(t) => Untaken(t)'
    BY <1>5 DEF Untaken, Held, WorkerTypeOK
  <2>4. \A v \in Workers \ {w} : hand[v] # hand[w]
    BY <2>1 DEF HandOwn
  <2>5. HandOwn' /\ HandFresh'
    BY <1>5, <2>4 DEF HandOwn, HandFresh, WorkerTypeOK
  <2>6. AtMostOnce'
    BY <1>5, <2>1 DEF AtMostOnce, WorkerTypeOK
  <2> QED BY <2>2, <2>3, <2>5, <2>6 DEF OnePlace
<1>6. CASE CheckCancel(w)
  <2>1. CASE hand[w] \in cancel
    <3>1. /\ queue' = queue /\ starts' = starts /\ hand' = hand
          /\ wpc[w] = "running" /\ wpc' = [wpc EXCEPT ![w] = "flagged"]
      BY <1>6, <2>1 DEF CheckCancel, Step
    <3>2. HandOwn' /\ HandFresh'
      BY <3>1 DEF HandOwn, HandFresh, WorkerTypeOK
    <3> QED BY <1>a, <3>1, <3>2
  <2>2. CASE hand[w] \notin cancel
    BY <1>5, <1>6, <2>2 DEF CheckCancel, Step
  <2> QED BY <2>1, <2>2
<1>7. CASE StoreCancelled(w) \/ StoreResult(w) \/ Reply(w) \/ Unlist(w)
  <2>1. /\ queue' = queue /\ starts' = starts /\ hand' = hand
        /\ wpc[w] \notin {"idle", "stopped"}
        /\ \E to \in {"cancelled", "stored", "replied", "unlisted"} : wpc' = [wpc EXCEPT ![w] = to]
    BY <1>7 DEF StoreCancelled, StoreResult, Reply, Unlist, Step
  <2>2. HandOwn' /\ HandFresh'
    BY <2>1 DEF HandOwn, HandFresh, WorkerTypeOK
  <2> QED BY <1>a, <2>1, <2>2
<1>8. CASE Deregister(w) \/ WorkerCrash(w)
  <2>1. /\ queue' = queue /\ starts' = starts
        /\ hand' = [hand EXCEPT ![w] = NoTask] /\ wpc' = [wpc EXCEPT ![w] = "idle"]
    BY <1>8 DEF Deregister, WorkerCrash, Step
  <2>2. HandOwn' /\ HandFresh' /\ \A v \in Workers : hand'[v] \in {hand[v], NoTask}
    BY <2>1 DEF HandOwn, HandFresh, WorkerTypeOK
  <2> QED BY <1>a, <2>1, <2>2
<1>9. CASE Stop(w) \/ Restart(w)
  <2>1. /\ queue' = queue /\ starts' = starts /\ hand' = hand
        /\ wpc[w] \in {"idle", "stopped"}
        /\ \E to \in {"idle", "stopped"} : wpc' = [wpc EXCEPT ![w] = to]
    BY <1>9 DEF Stop, Restart, Step
  <2>2. HandOwn' /\ HandFresh'
    BY <2>1 DEF HandOwn, HandFresh, WorkerTypeOK
  <2> QED BY <1>a, <2>1, <2>2
<1>10. CASE CommandDropped(w)
  <2>1. queue' = queue
    BY <1>10 DEF CommandDropped
  <2>2. CASE wpc[w] = "running"
    BY <1>5, <1>10, <2>1, <2>2 DEF CommandDropped, Step
  <2>3. CASE wpc[w] = "unlisted"
    <3>1. /\ starts' = starts
          /\ hand' = [hand EXCEPT ![w] = NoTask] /\ wpc' = [wpc EXCEPT ![w] = "idle"]
      BY <1>10, <2>3 DEF CommandDropped, Step
    <3>2. HandOwn' /\ HandFresh' /\ \A v \in Workers : hand'[v] \in {hand[v], NoTask}
      BY <3>1 DEF HandOwn, HandFresh, WorkerTypeOK
    <3> QED BY <1>a, <2>1, <3>1, <3>2
  <2>4. CASE wpc[w] \notin {"running", "unlisted"}
    <3>1. starts' = starts /\ hand' = hand
      BY <1>10, <2>4 DEF CommandDropped
    <3>2. /\ wpc[w] \notin {"idle", "stopped"}
          /\ \E to \in WorkerPcs \ {"idle", "stopped"} :
               /\ wpc' = [wpc EXCEPT ![w] = to]
               /\ to \in {"taken", "registered", "running"} => wpc[w] \in {"taken", "registered"}
      BY <1>10, <2>4 DEF CommandDropped, Step, WorkerPcs
    <3>3. HandOwn' /\ HandFresh'
      BY <3>1, <3>2 DEF HandOwn, HandFresh, WorkerTypeOK
    <3> QED BY <1>a, <2>1, <3>1, <3>3
  <2> QED BY <2>2, <2>3, <2>4
<1> QED BY <1>1, <1>2, <1>3, <1>4, <1>6, <1>7, <1>8, <1>9, <1>10 DEF ProcessOneTask

LEMMA OnceStep == TypeInv /\ OnceInv /\ [Next]_vars => OnceInv'
<1> SUFFICES ASSUME TypeInv, OnceInv, [Next]_vars PROVE OnceInv'
  OBVIOUS
<1>1. CASE UNCHANGED vars
  BY <1>1 DEF OnceInv, QueuesDistinct, OnePlace, HandOwn, HandFresh, AtMostOnce, Untaken, Held,
              InQueue, vars, redisVars, listVars, clientVars, workerVars
<1> QED BY <1>1, OnceClient, OnceWorker DEF Next

\* Whatever crashes, stops, failed commands, expired or broken locks: without
\* requeue-stale the worker starts the agent at most once for a task.
THEOREM StartedAtMostOnce == Spec => []AtMostOnce
<1>1. OnceInv => AtMostOnce
  BY DEF OnceInv
<1> QED BY TypeInit, TypeStep, OnceInit, OnceStep, <1>1, PTL DEF Spec

-----------------------------------------------------------------------------
(* The queue implements TaskPromise, and keeps every pushed payload, as    *)
(* long as the worker's own commands do not fail: the worker ignores their *)
(* errors, and a result it could not store is lost with the payload.       *)

\* What was never pushed has no entry in a list and no outcome; what is in a
\* queue is in no processing list and has no outcome.
Unstarted(t) == processing[t] = 0 /\ result[t] = "none"

ListsAgree ==
  \A t \in Tasks : pc[t] \in BeforePush \/ InQueue(t) => Unstarted(t)

\* The worker stores the outcome first and takes the payload off its
\* processing list afterwards.
StoredBeforeUnlisted ==
  \A w \in Workers :
    /\ wpc[w] \in {"taken", "registered", "running", "flagged", "agent"}
         => result[hand[w]] = "none" /\ processing[hand[w]] > 0
    /\ wpc[w] \in {"stored", "cancelled", "replied", "unlisted"} => result[hand[w]] # "none"

KeptInv == ListsAgree /\ StoredBeforeUnlisted /\ PayloadKept

\* What the worker's step did to the list, the outcomes and the phases.
Claims(h) ==
  /\ InQueue(h) /\ ~InQueue(h)'
  /\ \A t \in Tasks \ {h} : InQueue(t)' <=> InQueue(t)
  /\ processing' = [processing EXCEPT ![h] = @ + 1]
  /\ result' = result
Stores(h) ==
  /\ queue' = queue /\ processing' = processing
  /\ \E o \in Outcomes : result' = [result EXCEPT ![h] = o]
Unlists(h) ==
  /\ queue' = queue /\ result' = result
  /\ processing' = [processing EXCEPT ![h] = 0]

-----------------------------------------------------------------------------
LEMMA KeptInit == Init => KeptInv
<1> SUFFICES ASSUME Init PROVE KeptInv
  OBVIOUS
<1>1. /\ processing = [t \in Tasks |-> 0] /\ result = [t \in Tasks |-> "none"]
      /\ wpc = [w \in Workers |-> "idle"] /\ pc = [t \in Tasks |-> "idle"]
  BY DEF Init, KeysInit, ClientInit, WorkerInit
<1>2. ListsAgree
  BY <1>1 DEF ListsAgree, Unstarted
<1>3. StoredBeforeUnlisted
  BY <1>1 DEF StoredBeforeUnlisted
<1>4. PayloadKept
  BY <1>1 DEF PayloadKept, Pushed, Waiting
<1> QED BY <1>2, <1>3, <1>4 DEF KeptInv

\* A step of a worker whose commands succeed claims a payload, stores an
\* outcome, takes a payload off the processing list, or does none of these.
LEMMA WorkerEffect ==
  ASSUME "workerError" \notin Env, TypeInv, OnceInv, KeptInv, WorkerNext
  PROVE  \/ \E w \in Workers, h \in Tasks :
              /\ Claims(h)
              /\ \/ UNCHANGED workerVars
                 \/ hand' = [hand EXCEPT ![w] = h] /\ wpc' = [wpc EXCEPT ![w] = "taken"]
         \/ \E w \in Workers, h \in Tasks :
              /\ Stores(h) /\ hand[w] = h /\ hand' = hand
              /\ wpc[w] \in {"flagged", "agent"}
              /\ \E to \in {"cancelled", "stored"} : wpc' = [wpc EXCEPT ![w] = to]
         \/ \E w \in Workers, h \in Tasks :
              /\ Unlists(h) /\ hand[w] = h /\ hand' = hand
              /\ wpc[w] = "replied" /\ wpc' = [wpc EXCEPT ![w] = "unlisted"]
         \/ UNCHANGED <<listVars, result>> /\ StoredBeforeUnlisted'
<1> USE DEF TypeInv, TypeOK, OnceInv, KeptInv, WorkerTypeOK, listVars, taskVars, redisVars, workerVars
<1>1. PICK w \in Workers : \/ Take(w) \/ TakeReplyLost(w) \/ ProcessOneTask(w) \/ CommandDropped(w)
                           \/ Stop(w) \/ Restart(w) \/ WorkerCrash(w)
  BY DEF WorkerNext
<1>2. CASE Take(w) \/ TakeReplyLost(w)
  <2> DEFINE h == Head(queue[w])
  <2>1. MoveToProcessing(w) /\ result' = result
    BY <1>2 DEF Take, TakeReplyLost
  <2>2. /\ h \in Tasks /\ processing' = [processing EXCEPT ![h] = @ + 1]
        /\ \A t \in Tasks : t = h => InQueue(t) /\ ~InQueue(t)'
        /\ \A t \in Tasks \ {h} : InQueue(t)' <=> InQueue(t)
    BY <2>1, MoveTakes DEF KeysTypeOK
  <2>3. \/ UNCHANGED workerVars
        \/ hand' = [hand EXCEPT ![w] = h] /\ wpc' = [wpc EXCEPT ![w] = "taken"]
    BY <1>2 DEF Take, TakeReplyLost, Step
  <2>4. \E g \in Tasks : g = h
    BY <2>2
  <2> HIDE DEF h
  <2>5. PICK g \in Tasks : g = h
    BY <2>4
  <2> QED BY <2>1, <2>2, <2>3, <2>5 DEF Claims
<1>3. CASE StoreCancelled(w) \/ StoreResult(w)
  <2>1. hand[w] \in Tasks /\ wpc[w] \in {"flagged", "agent"}
    BY <1>3 DEF StoreCancelled, StoreResult, Step, HandFull
  <2>2. Stores(hand[w]) /\ hand' = hand
    BY <1>3 DEF StoreCancelled, StoreResult, Stores, Outcomes
  <2>3. \E to \in {"cancelled", "stored"} : wpc' = [wpc EXCEPT ![w] = to]
    BY <1>3 DEF StoreCancelled, StoreResult, Step
  <2> QED BY <2>1, <2>2, <2>3
<1>4. CASE Unlist(w)
  <2>1. hand[w] \in Tasks
    BY <1>4 DEF Unlist, Step, HandFull
  <2> QED BY <1>4, <2>1 DEF Unlist, Step, RemoveFromProcessing, Unlists
<1>5. CASE Register(w) \/ SetRunning(w) \/ CheckCancel(w) \/ Reply(w)
  <2>1. UNCHANGED <<listVars, result>> /\ hand' = hand
    BY <1>5 DEF Register, SetRunning, CheckCancel, Reply
  <2>2. \/ /\ wpc[w] \in {"taken", "registered", "running"}
           /\ \E to \in {"registered", "running", "flagged", "agent"} : wpc' = [wpc EXCEPT ![w] = to]
        \/ wpc[w] \in {"stored", "cancelled"} /\ wpc' = [wpc EXCEPT ![w] = "replied"]
    BY <1>5 DEF Register, SetRunning, CheckCancel, Reply, Step
  <2>3. StoredBeforeUnlisted'
    BY <2>1, <2>2 DEF StoredBeforeUnlisted
  <2> QED BY <2>1, <2>3
<1>6. CASE Deregister(w) \/ Stop(w) \/ Restart(w) \/ WorkerCrash(w)
  <2>1. /\ UNCHANGED <<listVars, result>>
        /\ \E to \in {"idle", "stopped"} : wpc' = [wpc EXCEPT ![w] = to]
        /\ \A v \in Workers \ {w} : hand'[v] = hand[v]
    BY <1>6 DEF Deregister, Stop, Restart, WorkerCrash, Step
  <2>2. StoredBeforeUnlisted'
    BY <2>1 DEF StoredBeforeUnlisted
  <2> QED BY <2>1, <2>2
<1>7. ~CommandDropped(w)
  BY DEF CommandDropped, Fault
<1> QED BY <1>1, <1>2, <1>3, <1>4, <1>5, <1>6, <1>7 DEF ProcessOneTask

\* A call counts as pushed only once its LPUSH has run.
LEMMA PushedByPush ==
  ASSUME TypeInv, ClientNext, queue' = queue, NEW u \in Tasks, Pushed(u)'
  PROVE  Pushed(u)
<1> USE DEF TypeInv, TypeOK, ClientTypeOK
<1>1. ASSUME NEW t \in Tasks, NEW from, NEW to, Goto(t, from, to),
             \/ from \in {"init", "enqueued", "poll", "settle", "unlock"}
             \/ to \notin {"init", "enqueued", "left", "waited", "poll", "settle", "unlock"}
      PROVE  Pushed(u)
  <2>1. CASE u = t
    BY <1>1, <2>1 DEF Goto, Pushed, Waiting
  <2>2. CASE u # t
    BY <1>1, <2>2 DEF Goto, Pushed
  <2> QED BY <2>1, <2>2
<1>2. ASSUME NEW t \in Tasks, Enqueue(t) \/ CommandFails(t) PROVE Pushed(u)
  <2>1. ~Push(t)
    <3>1. ASSUME Push(t) PROVE FALSE
      <4>1. queue[WorkerOf[t]] \in Seq(Tasks)
        BY DEF KeysTypeOK
      <4>2. /\ Len(queue[WorkerOf[t]]) \in Nat
            /\ Len(Append(queue[WorkerOf[t]], t)) = Len(queue[WorkerOf[t]]) + 1
        BY <4>1, AppendProperties, LenProperties
      <4>3. queue'[WorkerOf[t]] = Append(queue[WorkerOf[t]], t)
        BY <3>1 DEF Push, PushQueue, KeysTypeOK
      <4> QED BY <4>2, <4>3
    <3> QED BY <3>1
  <2>2. ASSUME NEW at \in {"idle"} \union Enqueuing, Goto(t, at, OnError(t, at)) PROVE Pushed(u)
    <3>1. OnError(t, at) \in {"rollback", "error", "check", "clear", "append"}
      BY DEF OnError, Enqueuing
    <3> QED BY <1>1, <2>2, <3>1
  <2>3. ASSUME NEW at \in {"idle"} \union Enqueuing,
               NEW next \in {"holder", "release", "append", "refused", "reacquire", "sadd", "push", "label"},
               Ran(t, at, next)
        PROVE  Pushed(u)
    BY <1>1, <2>2, <2>3 DEF Ran
  <2>4. CASE Acquire(t) \/ Reacquire(t) \/ ClearStale(t) \/ AppendInstruction(t) \/ JoinGroup(t) \/ SetGroup(t)
    <3>1. PICK at \in {"idle", "reacquire", "clear", "append", "sadd", "label"},
                next \in {"holder", "release", "append", "refused", "reacquire", "sadd", "push", "label"} :
            Ran(t, at, next)
      <4>1. CASE Acquire(t) \/ Reacquire(t)
        BY <4>1 DEF Acquire, Reacquire, TryLock, Locked
      <4>2. CASE ClearStale(t) \/ AppendInstruction(t) \/ JoinGroup(t) \/ SetGroup(t)
        BY <4>2 DEF ClearStale, AppendInstruction, JoinGroup, SetGroup
      <4> QED BY <2>4, <4>1, <4>2
    <3>2. at \in {"idle"} \union Enqueuing
      BY DEF Enqueuing
    <3> QED BY <2>3, <3>1, <3>2
  <2>5. CASE ReadHolder(t) \/ CheckHolder(t) \/ ReleaseGate(t) \/ Rollback(t)
    <3>1. PICK to \in {"check", "refused", "clear", "append", "error"} : \E from : Goto(t, from, to)
      BY <2>5 DEF ReadHolder, CheckHolder, ReleaseGate, Rollback
    <3> QED BY <1>1, <3>1
  <2>6. CASE InitKeys(t)
    <3>1. CASE Goto(t, "init", "enqueued")
      BY <1>1, <3>1
    <3>2. CASE Goto(t, "init", OnError(t, "init"))
      BY <2>2, <3>2 DEF Enqueuing
    <3> QED BY <2>6, <3>1, <3>2 DEF InitKeys, Ran
  <2>7. CASE CommandFails(t)
    BY <2>2, <2>7 DEF CommandFails
  <2> QED BY <1>2, <2>1, <2>4, <2>5, <2>6, <2>7 DEF Enqueue
<1>3. ASSUME NEW t \in Tasks, WaitTask(t) \/ PollTimeout(t) \/ Leave(t) PROVE Pushed(u)
  <2>1. \/ Goto(t, "enqueued", "poll") \/ Goto(t, "poll", "settle") \/ Goto(t, "settle", "waited")
        \/ Goto(t, "settle", "unlock") \/ Goto(t, "unlock", "waited") \/ Goto(t, "enqueued", "left")
    BY <1>3 DEF WaitTask, StartWait, PollTerminal, PollTimeout, Settle, WaitUnlock, Leave
  <2> QED BY <1>1, <2>1
<1>4. ASSUME NEW t \in Tasks, ClientDies(t) PROVE Pushed(u)
  <2>1. \E at : Goto(t, at, "dead")
    BY <1>4 DEF ClientDies
  <2> QED BY <1>1, <2>1
<1>5. ASSUME NEW t \in Tasks, WaitFails(t) \/ WaitCancelled(t) PROVE Pushed(u)
  <2>1. \/ Goto(t, "poll", "error") \/ Goto(t, "settle", "unlock")
        \/ Goto(t, "settle", "waited") \/ Goto(t, "unlock", "waited")
    BY <1>5 DEF WaitFails, WaitCancelled
  <2> QED BY <1>1, <2>1
<1>6. ASSUME pc' = pc PROVE Pushed(u)
  BY <1>6 DEF Pushed
<1> QED BY <1>2, <1>3, <1>4, <1>5, <1>6 DEF ClientNext, CancelTask, UnlockThread, clientVars

\* The invariant that no lookup of a payload ever misses it.
LEMMA KeptStep ==
  ASSUME "workerError" \notin Env, TypeInv, OnceInv, KeptInv, [Next]_vars
  PROVE  KeptInv'
<1> USE DEF TypeInv, TypeOK, OnceInv, KeptInv, KeysTypeOK, WorkerTypeOK
<1>1. CASE ClientNext /\ UNCHANGED workerVars
  <2>1. /\ processing' = processing /\ result' = result
        /\ \A t \in Tasks : pc'[t] \in BeforePush => pc[t] \in BeforePush
    BY <1>1, ClientFrame
  <2>2. StoredBeforeUnlisted'
    BY <1>1, <2>1 DEF StoredBeforeUnlisted, workerVars
  <2>3. CASE queue' = queue
    <3>1. \A t \in Tasks : InQueue(t)' <=> InQueue(t)
      BY <2>3 DEF InQueue
    <3>2. \A t \in Tasks : Pushed(t)' => Pushed(t)
      BY <1>1, <2>3, PushedByPush
    <3> QED BY <2>1, <2>2, <3>1, <3>2 DEF ListsAgree, Unstarted, PayloadKept, InFlight
  <2>4. CASE \E t \in Tasks : Push(t)
    <3>1. PICK t \in Tasks : Push(t)
      BY <2>4
    <3>2. \A u \in Tasks : InQueue(u)' <=> InQueue(u) \/ u = t
      BY <3>1, PushQueueAdds DEF Push
    <3>3. pc[t] \in BeforePush /\ \A u \in Tasks \ {t} : pc'[u] = pc[u]
      BY <3>1 DEF Push, Ran, Goto, BeforePush, ClientTypeOK
    <3>4. \A u \in Tasks \ {t} : Pushed(u)' => Pushed(u)
      BY <3>3 DEF Pushed
    <3> QED BY <2>1, <2>2, <3>2, <3>3, <3>4 DEF ListsAgree, Unstarted, PayloadKept, InFlight
  <2> QED BY <1>1, <2>3, <2>4, ClientFrame
<1>2. CASE WorkerNext /\ UNCHANGED clientVars
  <2>1. pc' = pc /\ \A t \in Tasks : Pushed(t)' <=> Pushed(t)
    BY <1>2 DEF Pushed, clientVars
  <2>2. ASSUME NEW w \in Workers, NEW h \in Tasks, Claims(h),
               \/ UNCHANGED workerVars
               \/ hand' = [hand EXCEPT ![w] = h] /\ wpc' = [wpc EXCEPT ![w] = "taken"]
        PROVE  KeptInv'
    <3>1. result[h] = "none" /\ pc[h] \notin BeforePush /\ Untaken(h)
      BY <2>2 DEF Claims, ListsAgree, Unstarted, OnePlace
    <3>2. ListsAgree' /\ PayloadKept'
      BY <2>1, <2>2, <3>1 DEF Claims, ListsAgree, Unstarted, PayloadKept, InFlight
    <3>3. \A t \in Tasks : processing[t] > 0 => processing'[t] > 0
      BY <2>2 DEF Claims
    <3>4. StoredBeforeUnlisted'
      BY <2>2, <3>1, <3>3 DEF Claims, StoredBeforeUnlisted, workerVars, HandFull
    <3> QED BY <3>2, <3>4
  <2>3. ASSUME NEW w \in Workers, NEW h \in Tasks, Stores(h), hand[w] = h, hand' = hand,
               wpc[w] \in {"flagged", "agent"},
               \E to \in {"cancelled", "stored"} : wpc' = [wpc EXCEPT ![w] = to]
        PROVE  KeptInv'
    <3>1. ~Untaken(h)
      BY <2>3 DEF Untaken, Held
    <3>2. pc[h] \notin BeforePush /\ ~InQueue(h)
      BY <3>1 DEF OnePlace
    <3>3. \A t \in Tasks : InQueue(t)' <=> InQueue(t)
      BY <2>3 DEF Stores, InQueue
    <3>4. ListsAgree' /\ PayloadKept'
      BY <2>1, <2>3, <3>2, <3>3 DEF Stores, ListsAgree, Unstarted, PayloadKept, InFlight, Outcomes
    <3>5. \A v \in Workers \ {w} : hand[v] # h
      BY <2>3 DEF HandOwn
    <3>6. StoredBeforeUnlisted'
      BY <2>3, <3>5 DEF Stores, StoredBeforeUnlisted, HandFull, Outcomes
    <3> QED BY <3>4, <3>6
  <2>4. ASSUME NEW w \in Workers, NEW h \in Tasks, Unlists(h), hand[w] = h, hand' = hand,
               wpc[w] = "replied", wpc' = [wpc EXCEPT ![w] = "unlisted"]
        PROVE  KeptInv'
    <3>1. result[h] # "none"
      BY <2>4 DEF StoredBeforeUnlisted
    <3>2. \A t \in Tasks : InQueue(t)' <=> InQueue(t)
      BY <2>4 DEF Unlists, InQueue
    <3>3. ListsAgree' /\ PayloadKept'
      BY <2>1, <2>4, <3>1, <3>2 DEF Unlists, ListsAgree, Unstarted, PayloadKept, InFlight
    <3>4. \A v \in Workers \ {w} : hand[v] # h
      BY <2>4 DEF HandOwn
    <3>5. StoredBeforeUnlisted'
      BY <2>4, <3>1, <3>4 DEF Unlists, StoredBeforeUnlisted, HandFull
    <3> QED BY <3>3, <3>5
  <2>5. ASSUME UNCHANGED <<listVars, result>>, StoredBeforeUnlisted'
        PROVE  KeptInv'
    <3>1. \A t \in Tasks : InQueue(t)' <=> InQueue(t)
      BY <2>5 DEF InQueue, listVars
    <3> QED BY <2>1, <2>5, <3>1 DEF listVars, ListsAgree, Unstarted, PayloadKept, InFlight
  <2> QED BY <1>2, <2>2, <2>3, <2>4, <2>5, WorkerEffect
<1>3. CASE UNCHANGED vars
  BY <1>3 DEF ListsAgree, Unstarted, StoredBeforeUnlisted, PayloadKept, Pushed, InFlight, InQueue,
              vars, redisVars, taskVars, listVars, clientVars, workerVars
<1> QED BY <1>1, <1>2, <1>3 DEF Next

\* A pushed payload stays in a list until the worker has stored its outcome,
\* through every crash, stop, lost reply and failed client command.
THEOREM PayloadIsKept ==
  ASSUME "workerError" \notin Env
  PROVE  Spec => []PayloadKept
<1>1. TypeInv /\ OnceInv /\ KeptInv /\ [Next]_vars => KeptInv'
  BY KeptStep
<1>2. KeptInv => PayloadKept
  BY DEF KeptInv
<1> QED BY TypeInit, TypeStep, OnceInit, OnceStep, KeptInit, <1>1, <1>2, PTL DEF Spec

-----------------------------------------------------------------------------
(* The refinement. *)

\* Every step sends, claims or finishes one task of the promise, or stutters.
LEMMA PromiseStep ==
  ASSUME "workerError" \notin Env, TypeInv, OnceInv, KeptInv, [Next]_vars
  PROVE  [Promise!Next]_[t \in Tasks |-> Phase(t)]
<1> DEFINE phase == [t \in Tasks |-> Phase(t)]
<1> SUFFICES [Promise!Next]_phase
  OBVIOUS
<1> USE DEF TypeInv, TypeOK, OnceInv, KeptInv, KeysTypeOK, WorkerTypeOK
\* A step that changes the phase of one task at most.
<1>a. ASSUME NEW h \in Tasks, \A t \in Tasks \ {h} : Phase(t)' = Phase(t),
             \/ Phase(h)' = Phase(h)
             \/ Phase(h) = "absent" /\ Phase(h)' = "queued"
             \/ Phase(h) = "queued" /\ Phase(h)' = "claimed"
             \/ Phase(h) = "claimed" /\ Phase(h)' \in Outcomes
      PROVE  [Promise!Next]_phase
  <2>1. phase[h] = Phase(h) /\ phase' = [phase EXCEPT ![h] = Phase(h)']
    BY <1>a
  <2>2. CASE Phase(h)' = Phase(h)
    <3>1. phase' = phase
      BY <1>a, <2>2
    <3> QED BY <3>1
  <2> HIDE DEF phase
  <2>3. CASE Phase(h)' # Phase(h)
    <3>1. \/ Promise!Move(h, "absent", "queued")
          \/ Promise!Move(h, "queued", "claimed")
          \/ \E o \in Outcomes : Promise!Move(h, "claimed", o)
      BY <1>a, <2>1, <2>3 DEF Promise!Move, phase
    <3> QED BY <3>1 DEF Promise!Next, Promise!Send, Promise!Claim, Promise!Finish, Promise!Outcomes, Outcomes, phase
  <2> QED BY <2>2, <2>3
<1>b. ASSUME \A t \in Tasks : Phase(t)' = Phase(t) PROVE [Promise!Next]_phase
  BY <1>b
<1> HIDE DEF phase
<1>c. ASSUME \A t \in Tasks : InQueue(t)' <=> InQueue(t), processing' = processing, result' = result
      PROVE  [Promise!Next]_phase
  BY <1>b, <1>c DEF Phase
<1>1. CASE ClientNext /\ UNCHANGED workerVars
  <2>1. processing' = processing /\ result' = result
    BY <1>1, ClientFrame
  <2>2. CASE queue' = queue
    BY <1>c, <2>1, <2>2 DEF InQueue
  <2>3. CASE \E t \in Tasks : Push(t)
    <3>1. PICK t \in Tasks : Push(t)
      BY <2>3
    <3>2. \A u \in Tasks : InQueue(u)' <=> InQueue(u) \/ u = t
      BY <3>1, PushQueueAdds DEF Push
    <3>3. Phase(t) = "absent" /\ Phase(t)' = "queued"
      <4>1. pc[t] \in BeforePush
        BY <3>1 DEF Push, Ran, Goto, BeforePush
      <4>2. ~InQueue(t) /\ processing[t] = 0 /\ result[t] = "none"
        BY <4>1 DEF OnePlace, ListsAgree, Unstarted
      <4> QED BY <2>1, <3>2, <4>2 DEF Phase
    <3>4. \A u \in Tasks \ {t} : Phase(u)' = Phase(u)
      BY <2>1, <3>2 DEF Phase
    <3> QED BY <1>a, <3>3, <3>4
  <2> QED BY <1>1, <2>2, <2>3, ClientFrame
<1>2. CASE WorkerNext /\ UNCHANGED clientVars
  <2>1. ASSUME NEW h \in Tasks, Claims(h) PROVE [Promise!Next]_phase
    <3>1. processing[h] = 0 /\ result[h] = "none"
      BY <2>1 DEF Claims, ListsAgree, Unstarted
    <3>2. Phase(h) = "queued" /\ Phase(h)' = "claimed"
      BY <2>1, <3>1 DEF Claims, Phase
    <3>3. \A t \in Tasks \ {h} : Phase(t)' = Phase(t)
      BY <2>1 DEF Claims, Phase
    <3> QED BY <1>a, <3>2, <3>3
  <2>2. ASSUME NEW w \in Workers, NEW h \in Tasks, Stores(h), hand[w] = h, wpc[w] \in {"flagged", "agent"}
        PROVE  [Promise!Next]_phase
    <3>1. ~InQueue(h) /\ processing[h] > 0 /\ result[h] = "none"
      BY <2>2 DEF OnePlace, Untaken, Held, StoredBeforeUnlisted
    <3>2. Phase(h) = "claimed" /\ Phase(h)' \in Outcomes
      BY <2>2, <3>1 DEF Stores, Phase, Outcomes
    <3>3. \A t \in Tasks \ {h} : Phase(t)' = Phase(t)
      BY <2>2 DEF Stores, Phase, InQueue
    <3> QED BY <1>a, <3>2, <3>3
  <2>3. ASSUME NEW w \in Workers, NEW h \in Tasks, Unlists(h), hand[w] = h, wpc[w] = "replied"
        PROVE  [Promise!Next]_phase
    <3>1. result[h] # "none"
      BY <2>3 DEF StoredBeforeUnlisted
    <3>2. \A t \in Tasks : Phase(t)' = Phase(t)
      BY <2>3, <3>1 DEF Unlists, Phase, InQueue
    <3> QED BY <1>b, <3>2
  <2>4. ASSUME UNCHANGED <<listVars, result>> PROVE [Promise!Next]_phase
    BY <1>c, <2>4 DEF InQueue, listVars
  <2> QED BY <1>2, <2>1, <2>2, <2>3, <2>4, WorkerEffect
<1>3. CASE UNCHANGED vars
  BY <1>c, <1>3 DEF InQueue, vars, redisVars, taskVars, listVars
<1> QED BY <1>1, <1>2, <1>3 DEF Next

LEMMA PromiseInit == Init => Promise!Init
<1> SUFFICES ASSUME Init PROVE Promise!Init
  OBVIOUS
<1>1. /\ queue = [w \in Workers |-> << >>] /\ processing = [t \in Tasks |-> 0]
      /\ result = [t \in Tasks |-> "none"]
  BY DEF Init, KeysInit
<1>2. \A t \in Tasks : Phase(t) = "absent"
  BY <1>1, EmptySeq DEF Phase, InQueue
<1> QED BY <1>2 DEF Promise!Init

\* The keys, the clients and the workers implement the promise: a payload is
\* sent once, claimed once and ends once, for any number of tasks and workers.
THEOREM QueueKeepsPromise ==
  ASSUME "workerError" \notin Env
  PROVE  Spec => KeepsPromise
<1>1. TypeInv /\ OnceInv /\ KeptInv /\ [Next]_vars => KeptInv'
  BY KeptStep
<1>2. TypeInv /\ OnceInv /\ KeptInv /\ [Next]_vars => [Promise!Next]_[t \in Tasks |-> Phase(t)]
  BY PromiseStep
<1> QED BY TypeInit, TypeStep, OnceInit, OnceStep, KeptInit, PromiseInit, <1>1, <1>2, PTL
        DEF Spec, KeepsPromise, Promise!Spec

=============================================================================
