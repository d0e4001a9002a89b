----------------------------- MODULE SerialProofs -----------------------------
(***************************************************************************)
(* Theorems about the history, the groups and the thread locks of the task *)
(* queue: the instruction precedes its task, a group task is counted before *)
(* it can be taken, the tasks of one thread are in flight one at a time    *)
(* under its lock, and a cancel flag set in time is honoured.              *)
(***************************************************************************)
EXTENDS TaskQueueProofs

USE KeysAssumption DEF EnvEvents

-----------------------------------------------------------------------------
(* What a worker's step can and cannot do to the keys of a task. *)

\* A payload sits in one of the two lists.
Listed(t) == InQueue(t) \/ processing[t] > 0

LEMMA WorkerFrame ==
  ASSUME TypeInv, OnceInv, WorkerNext
  PROVE  /\ lock' = lock /\ labelled' = labelled /\ members' = members
         /\ messages \subseteq messages'
         /\ \A t \in Tasks :
              /\ InQueue(t)' => InQueue(t)
              /\ Listed(t)' => Listed(t)
              /\ result[t] # "none" => result'[t] # "none"
              /\ status[t] # "none" => status'[t] # "none"
              /\ Terminal(status'[t]) => Terminal(status[t]) \/ result'[t] # "none"
<1> USE DEF TypeInv, TypeOK, OnceInv, KeysTypeOK, WorkerTypeOK, lockVars, taskVars, groupVars, listVars, redisVars
<1>1. PICK w \in Workers : \/ Take(w) \/ TakeReplyLost(w) \/ ProcessOneTask(w) \/ CommandDropped(w)
                           \/ Stop(w) \/ Restart(w) \/ WorkerCrash(w)
  BY DEF WorkerNext
<1>2. CASE Take(w) \/ TakeReplyLost(w)
  <2>1. MoveToProcessing(w) /\ result' = result /\ status' = status /\ messages' = messages
    BY <1>2 DEF Take, TakeReplyLost
  <2>2. \A t \in Tasks : /\ InQueue(t)' => InQueue(t)
                         /\ t = Head(queue[w]) => InQueue(t)
                         /\ t # Head(queue[w]) => processing'[t] = processing[t]
    BY <2>1, MoveTakes
  <2> QED BY <1>2, <2>1, <2>2 DEF Take, TakeReplyLost, Listed
<1>3. CASE StoreCancelled(w) \/ StoreResult(w)
  <2>1. hand[w] \in Tasks
    BY <1>3 DEF StoreCancelled, StoreResult, Step, HandFull
  <2>2. \A t \in Tasks : InQueue(t)' <=> InQueue(t)
    BY <1>3 DEF StoreCancelled, StoreResult, InQueue
  <2>3. PICK o \in Outcomes : /\ status' = [status EXCEPT ![hand[w]] = o]
                              /\ result' = [result EXCEPT ![hand[w]] = o]
    BY <1>3 DEF StoreCancelled, StoreResult, Outcomes
  <2>4. o # "none"
    BY DEF Outcomes
  <2>5. processing' = processing /\ messages' = messages
    BY <1>3 DEF StoreCancelled, StoreResult
  <2> QED BY <1>3, <2>1, <2>2, <2>3, <2>4, <2>5 DEF StoreCancelled, StoreResult, Listed, Terminal
<1>4. CASE Unlist(w)
  <2>1. \A t \in Tasks : InQueue(t)' <=> InQueue(t)
    BY <1>4 DEF Unlist, InQueue
  <2>2. \A t \in Tasks : processing'[t] > 0 => processing[t] > 0
    BY <1>4 DEF Unlist, RemoveFromProcessing
  <2> QED BY <1>4, <2>1, <2>2 DEF Unlist, Listed
<1>5. CASE SetRunning(w)
  <2>1. \A t \in Tasks : InQueue(t)' <=> InQueue(t)
    BY <1>5 DEF SetRunning, InQueue
  <2>2. \A t \in Tasks : status'[t] = status[t] \/ status'[t] = "running"
    BY <1>5 DEF SetRunning
  <2> QED BY <1>5, <2>1, <2>2 DEF SetRunning, Listed, Terminal, Outcomes
<1>6. CASE Register(w) \/ CheckCancel(w) \/ Reply(w) \/ Deregister(w) \/ CommandDropped(w)
           \/ Stop(w) \/ Restart(w) \/ WorkerCrash(w)
  <2>1. /\ UNCHANGED <<lockVars, status, result, groupVars, listVars>> /\ messages \subseteq messages'
    BY <1>6 DEF Register, CheckCancel, Reply, Deregister, CommandDropped, Stop, Restart, WorkerCrash
  <2>2. \A t \in Tasks : InQueue(t)' <=> InQueue(t)
    BY <2>1 DEF InQueue
  <2> QED BY <2>1, <2>2 DEF Listed
<1> QED BY <1>1, <1>2, <1>3, <1>4, <1>5, <1>6 DEF ProcessOneTask

-----------------------------------------------------------------------------
(* The instruction is in the history before a worker can see the task. *)

\* The points after the RPUSH of Enqueue, the abandoned calls left aside.
Appended == {"sadd", "label", "push", "init", "enqueued", "left", "waited"} \union Waiting

InstructionInv ==
  /\ \A t \in Tasks : pc[t] \in Appended => <<t, "instruction">> \in messages
  /\ InstructionFirst

LEMMA InstructionInit == Init => InstructionInv
<1> SUFFICES ASSUME Init PROVE InstructionInv
  OBVIOUS
<1>1. /\ queue = [w \in Workers |-> << >>] /\ messages = {}
      /\ hand = [w \in Workers |-> NoTask] /\ pc = [t \in Tasks |-> "idle"]
  BY DEF Init, KeysInit, ClientInit, WorkerInit
<1>2. \A t \in Tasks : ~InQueue(t) /\ ~Held(t)
  BY <1>1, EmptySeq DEF InQueue, Held
<1> QED BY <1>1, <1>2 DEF InstructionInv, InstructionFirst, Appended, Waiting

\* A client's call passes the RPUSH only by running it.
LEMMA AppendedByAppend ==
  ASSUME TypeInv, ClientNext, NEW t \in Tasks, pc'[t] \in Appended
  PROVE  pc[t] \in Appended \/ AppendInstruction(t)
<1> USE DEF TypeInv, TypeOK, ClientTypeOK
<1>1. ASSUME NEW u \in Tasks, NEW from, NEW to, Goto(u, from, to), from \in Appended \/ to \notin Appended
      PROVE  pc[t] \in Appended
  BY <1>1 DEF Goto
<1>2. ASSUME NEW u \in Tasks, Enqueue(u) \/ CommandFails(u), ~AppendInstruction(u)
      PROVE  pc[t] \in Appended
  <2>1. ASSUME NEW at \in {"idle"} \union Enqueuing, Goto(u, at, OnError(u, at)) PROVE pc[t] \in Appended
    <3>1. OnError(u, at) \in {"rollback", "error", "check", "clear", "append"}
      BY DEF OnError, Enqueuing
    <3> QED BY <1>1, <2>1, <3>1 DEF Appended, Waiting
  <2>2. ASSUME NEW at \in {"idle"} \union Enqueuing, NEW next, Ran(u, at, next),
               at \in Appended \/ next \notin Appended
        PROVE  pc[t] \in Appended
    BY <1>1, <2>1, <2>2 DEF Ran
  <2>3. CASE Acquire(u) \/ Reacquire(u)
    <3>1. PICK at \in {"idle", "reacquire"}, next \in {"holder", "release", "append", "refused"} : Ran(u, at, next)
      BY <2>3 DEF Acquire, Reacquire, TryLock, Locked
    <3> QED BY <2>2, <3>1 DEF Appended, Waiting, Enqueuing
  <2>4. CASE ClearStale(u) \/ JoinGroup(u) \/ SetGroup(u) \/ Push(u) \/ InitKeys(u)
    <3>1. PICK at \in {"clear", "sadd", "label", "push", "init"},
                next \in {"reacquire", "label", "push", "init", "enqueued"} :
            Ran(u, at, next) /\ (at = "clear" => next = "reacquire")
      BY <2>4 DEF ClearStale, JoinGroup, SetGroup, Push, InitKeys
    <3> QED BY <2>2, <3>1 DEF Appended, Waiting, Enqueuing
  <2>5. CASE ReadHolder(u) \/ CheckHolder(u) \/ ReleaseGate(u) \/ Rollback(u)
    <3>1. PICK to \in {"check", "refused", "clear", "append", "error"} : \E from : Goto(u, from, to)
      BY <2>5 DEF ReadHolder, CheckHolder, ReleaseGate, Rollback
    <3> QED BY <1>1, <3>1 DEF Appended, Waiting
  <2>6. CASE CommandFails(u)
    BY <2>1, <2>6 DEF CommandFails
  <2> QED BY <1>2, <2>3, <2>4, <2>5, <2>6 DEF Enqueue
<1>3. ASSUME NEW u \in Tasks, WaitTask(u) \/ PollTimeout(u) \/ WaitFails(u) \/ WaitCancelled(u) \/ Leave(u) \/ ClientDies(u)
      PROVE  pc[t] \in Appended
  <2>1. PICK from, to : Goto(u, from, to) /\ (from \in {"enqueued"} \union Waiting \/ to = "dead")
    BY <1>3 DEF WaitTask, StartWait, PollTerminal, Settle, WaitUnlock, PollTimeout, WaitFails, WaitCancelled,
                Leave, ClientDies, Waiting
  <2> QED BY <1>1, <2>1 DEF Appended, Waiting
<1>4. CASE pc' = pc
  BY <1>4
<1>5. ASSUME NEW u \in Tasks, AppendInstruction(u), u # t PROVE pc[t] \in Appended
  BY <1>5 DEF AppendInstruction, Ran, Goto
<1> QED BY <1>2, <1>3, <1>4, <1>5 DEF ClientNext, CancelTask, UnlockThread, clientVars

LEMMA InstructionStep == TypeInv /\ OnceInv /\ InstructionInv /\ [Next]_vars => InstructionInv'
<1> SUFFICES ASSUME TypeInv, OnceInv, InstructionInv, [Next]_vars PROVE InstructionInv'
  OBVIOUS
<1> USE DEF TypeInv, TypeOK, KeysTypeOK, WorkerTypeOK, ClientTypeOK
<1>1. CASE ClientNext /\ UNCHANGED workerVars
  <2>1. messages \subseteq messages' /\ \A t \in Tasks : <<t, "result">> \in messages' => <<t, "result">> \in messages
    BY <1>1 DEF ClientNext, Enqueue, CommandFails, Acquire, ReadHolder, CheckHolder, ClearStale, Reacquire,
                ReleaseGate, AppendInstruction, JoinGroup, SetGroup, Push, InitKeys, Rollback, WaitTask,
                StartWait, PollTerminal, PollTimeout, Settle, WaitUnlock, WaitFails, WaitCancelled, Leave,
                CancelTask, ClientDies, UnlockThread, LockExpire, redisVars
  <2>2. \A t \in Tasks : pc'[t] \in Appended => <<t, "instruction">> \in messages'
    BY <1>1, <2>1, AppendedByAppend DEF InstructionInv, AppendInstruction
  <2>3. \A t \in Tasks : Held(t)' <=> Held(t)
    BY <1>1 DEF Held, workerVars
  <2>4. \A t \in Tasks : InQueue(t)' => InQueue(t) \/ pc[t] = "push"
    <3>1. CASE queue' = queue
      BY <3>1 DEF InQueue
    <3>2. ASSUME NEW t \in Tasks, Push(t) PROVE \A u \in Tasks : InQueue(u)' => InQueue(u) \/ pc[u] = "push"
      BY <3>2, PushQueueAdds DEF Push, Ran, Goto
    <3> QED BY <1>1, <3>1, <3>2, ClientFrame
  <2> QED BY <2>1, <2>2, <2>3, <2>4 DEF InstructionInv, InstructionFirst, Appended
<1>2. CASE WorkerNext /\ UNCHANGED clientVars
  <2>1. messages \subseteq messages' /\ \A t \in Tasks : InQueue(t)' => InQueue(t)
    BY <1>2, WorkerFrame
  <2>2. \A t \in Tasks : <<t, "result">> \in messages' => <<t, "result">> \in messages \/ Held(t)
    BY <1>2 DEF WorkerNext, Take, TakeReplyLost, ProcessOneTask, Register, SetRunning, CheckCancel, StoreCancelled,
                StoreResult, Reply, Unlist, Deregister, CommandDropped, Stop, Restart, WorkerCrash, redisVars, Held
  <2>3. \A t \in Tasks : Held(t)' => Held(t) \/ InQueue(t)
    <3>1. PICK w \in Workers : \/ Take(w) \/ TakeReplyLost(w) \/ ProcessOneTask(w) \/ CommandDropped(w)
                               \/ Stop(w) \/ Restart(w) \/ WorkerCrash(w)
      BY <1>2 DEF WorkerNext
    <3>2. CASE Take(w)
      <4>1. \A t \in Tasks : t = Head(queue[w]) => InQueue(t)
        BY <3>2, MoveTakes DEF Take, OnceInv
      <4> QED BY <3>2, <4>1 DEF Take, Held
    <3>3. CASE ~Take(w)
      <4>1. \A v \in Workers : hand'[v] \in {hand[v], NoTask}
        BY <3>1, <3>3 DEF TakeReplyLost, ProcessOneTask, Register, SetRunning, CheckCancel, StoreCancelled,
                 StoreResult, Reply, Unlist, Deregister, CommandDropped, Stop, Restart, WorkerCrash, workerVars
      <4> QED BY <4>1 DEF Held
    <3> QED BY <3>2, <3>3
  <2> QED BY <1>2, <2>1, <2>2, <2>3 DEF InstructionInv, InstructionFirst, clientVars
<1>3. CASE UNCHANGED vars
  BY <1>3 DEF InstructionInv, InstructionFirst, Held, InQueue, vars, redisVars, listVars, clientVars, workerVars
<1> QED BY <1>1, <1>2, <1>3 DEF Next

\* Whatever fails: a task in the queue, in a worker's hand or with a reply in
\* the history has its instruction there too.
THEOREM InstructionComesFirst == Spec => []InstructionFirst
<1>1. InstructionInv => InstructionFirst
  BY DEF InstructionInv
<1> QED BY TypeInit, TypeStep, OnceInit, OnceStep, InstructionInit, InstructionStep, <1>1, PTL DEF Spec

-----------------------------------------------------------------------------
(* A group task is counted before it can be taken. *)

\* A call that has not reached its LPUSH, or was refused, has no payload.
NotPushed ==
  \A t \in Tasks : pc[t] \in BeforePush \union {"refused"} => ~Listed(t)

\* The points of EnqueueGroup after the SADD, and after the label.
Joined ==
  \A t \in Tasks :
    /\ pc[t] # "rollback"
    /\ pc[t] \in {"release", "sadd", "label"} => t \in Grouped
    /\ t \in Grouped /\ pc[t] = "label" => t \in members
    /\ t \in Grouped /\ pc[t] \in {"push", "init", "enqueued", "left", "waited"} \union Waiting
         => t \in members \intersect labelled

GroupInv == NotPushed /\ Joined /\ labelled \subseteq Grouped /\ GroupBeforeQueue

LEMMA GroupInit == Init => GroupInv
<1> SUFFICES ASSUME Init PROVE GroupInv
  OBVIOUS
<1>1. /\ queue = [w \in Workers |-> << >>] /\ processing = [t \in Tasks |-> 0]
      /\ pc = [t \in Tasks |-> "idle"] /\ labelled = {}
  BY DEF Init, KeysInit, ClientInit
<1>2. \A t \in Tasks : ~Listed(t)
  BY <1>1, EmptySeq DEF InQueue, Listed
<1> QED BY <1>1, <1>2 DEF GroupInv, NotPushed, Joined, GroupBeforeQueue, Listed, Waiting

\* A client's step, when Redis answers every command.
LEMMA GroupClient ==
  ASSUME "redisError" \notin Env, TypeInv, GroupInv, ClientNext
  PROVE  GroupInv'
<1> USE DEF TypeInv, TypeOK, KeysTypeOK, ClientTypeOK, GroupInv, lockVars, taskVars, groupVars, listVars, redisVars
<1>a. ASSUME NEW t \in Tasks, NEW from, NEW to, Goto(t, from, to),
             UNCHANGED <<listVars, groupVars>>,
             to \in BeforePush \union {"refused"} => from \in BeforePush \union {"refused"},
             to # "rollback",
             to \in {"release", "sadd", "label"} => t \in Grouped,
             t \in Grouped => to # "label",
             t \in Grouped /\ to \in {"push", "init", "enqueued", "left", "waited"} \union Waiting
               => from \in {"push", "init", "enqueued", "left", "waited"} \union Waiting
      PROVE  GroupInv'
  <2>1. \A u \in Tasks : Listed(u)' <=> Listed(u)
    BY <1>a DEF Listed, InQueue
  <2>2. NotPushed' /\ GroupBeforeQueue'
    BY <1>a, <2>1 DEF NotPushed, Goto, GroupBeforeQueue, Listed
  <2>3. Joined'
    BY <1>a DEF Joined, Goto
  <2> QED BY <1>a, <2>2, <2>3
<1>b. \A t \in Tasks : \A at, next : Ran(t, at, next) => Goto(t, at, next)
  BY DEF Ran, Fault
<1>1. ASSUME NEW t \in Tasks, Acquire(t) \/ Reacquire(t) PROVE GroupInv'
  <2>1. PICK from \in {"idle", "reacquire"}, to \in {"holder", "refused", Locked(t)} : Goto(t, from, to)
    BY <1>1, <1>b DEF Acquire, Reacquire, TryLock
  <2>2. /\ Locked(t) \in {"release", "append"}
        /\ Locked(t) = "release" => t \in Grouped
    BY DEF Locked
  <2>3. UNCHANGED <<listVars, groupVars>>
    BY <1>1 DEF Acquire, Reacquire
  <2> QED BY <1>a, <2>1, <2>2, <2>3 DEF BeforePush, Waiting
<1>2. ASSUME NEW t \in Tasks, ReadHolder(t) \/ ClearStale(t) \/ ReleaseGate(t) PROVE GroupInv'
  <2>1. PICK from \in {"holder", "clear", "release"}, to \in {"check", "reacquire", "append"} : Goto(t, from, to)
    BY <1>2, <1>b DEF ReadHolder, ClearStale, ReleaseGate
  <2>2. UNCHANGED <<listVars, groupVars>>
    BY <1>2 DEF ReadHolder, ClearStale, ReleaseGate
  <2> QED BY <1>a, <2>1, <2>2 DEF BeforePush, Waiting
<1>3. ASSUME NEW t \in Tasks, CheckHolder(t) PROVE GroupInv'
  <2>1. PICK to \in {"refused", "clear"} : Goto(t, "check", to)
    BY <1>3 DEF CheckHolder
  <2>2. UNCHANGED <<listVars, groupVars>>
    BY <1>3 DEF CheckHolder
  <2> QED BY <1>a, <2>1, <2>2 DEF BeforePush, Waiting
<1>4. ASSUME NEW t \in Tasks, AppendInstruction(t) PROVE GroupInv'
  <2>1. Goto(t, "append", IF t \in Grouped THEN "sadd" ELSE "push")
    BY <1>4, <1>b DEF AppendInstruction
  <2>2. UNCHANGED <<listVars, groupVars>>
    BY <1>4 DEF AppendInstruction
  <2>3. CASE t \in Grouped
    BY <1>a, <2>1, <2>2, <2>3 DEF BeforePush, Waiting
  <2>4. CASE t \notin Grouped
    BY <1>a, <2>1, <2>2, <2>4 DEF BeforePush, Waiting
  <2> QED BY <2>3, <2>4
<1>5. ASSUME NEW t \in Tasks, JoinGroup(t) \/ SetGroup(t) PROVE GroupInv'
  <2>1. \/ Goto(t, "sadd", "label") /\ members' = members \union {t} /\ labelled' = labelled
        \/ Goto(t, "label", "push") /\ members' = members /\ labelled' = labelled \union {t}
    BY <1>5, <1>b DEF JoinGroup, SetGroup
  <2>2. \A u \in Tasks : Listed(u)' <=> Listed(u)
    BY <1>5 DEF JoinGroup, SetGroup, Listed, InQueue
  <2>3. NotPushed' /\ GroupBeforeQueue'
    BY <2>1, <2>2 DEF NotPushed, Goto, GroupBeforeQueue, Listed, BeforePush
  <2>4. Joined' /\ (labelled \subseteq Grouped)'
    BY <2>1 DEF Joined, Goto, Waiting
  <2> QED BY <2>3, <2>4
<1>6. ASSUME NEW t \in Tasks, Push(t) PROVE GroupInv'
  <2>1. Goto(t, "push", "init") /\ UNCHANGED <<groupVars, processing>>
    BY <1>6, <1>b DEF Push
  <2>2. \A u \in Tasks : InQueue(u)' <=> InQueue(u) \/ u = t
    BY <1>6, PushQueueAdds DEF Push
  <2>3. NotPushed'
    BY <2>1, <2>2 DEF NotPushed, Goto, Listed, BeforePush
  <2>4. GroupBeforeQueue'
    BY <2>1, <2>2 DEF GroupBeforeQueue, Joined, Goto
  <2>5. Joined'
    BY <2>1 DEF Joined, Goto
  <2> QED BY <2>1, <2>3, <2>4, <2>5
<1>7. ASSUME NEW t \in Tasks, InitKeys(t) PROVE GroupInv'
  <2>1. Goto(t, "init", "enqueued") /\ UNCHANGED <<listVars, groupVars>>
    BY <1>7, <1>b DEF InitKeys
  <2> QED BY <1>a, <2>1 DEF BeforePush
<1>8. ASSUME NEW t \in Tasks, WaitTask(t) \/ PollTimeout(t) \/ WaitCancelled(t) \/ Leave(t) \/ ClientDies(t)
      PROVE  GroupInv'
  <2>1. PICK from, to : Goto(t, from, to) /\ (\/ from \in {"enqueued"} \union Waiting /\ to \in {"error", "left", "waited"} \union Waiting
                                              \/ to = "dead")
    BY <1>8 DEF WaitTask, StartWait, PollTerminal, Settle, WaitUnlock, PollTimeout, WaitCancelled, Leave, ClientDies, Waiting
  <2>2. UNCHANGED <<listVars, groupVars>>
    BY <1>8 DEF WaitTask, StartWait, PollTerminal, Settle, WaitUnlock, PollTimeout, WaitCancelled, Leave, ClientDies
  <2> QED BY <1>a, <2>1, <2>2 DEF BeforePush, Waiting
<1>9. ASSUME UNCHANGED <<pc, listVars, groupVars>> PROVE GroupInv'
  <2>1. \A u \in Tasks : Listed(u)' <=> Listed(u)
    BY <1>9 DEF Listed, InQueue
  <2> QED BY <1>9, <2>1 DEF NotPushed, Joined, GroupBeforeQueue, Listed
<1>10. \A t \in Tasks : ~CommandFails(t) /\ ~WaitFails(t) /\ ~Rollback(t)
  BY DEF CommandFails, WaitFails, Fault, Rollback, Joined, Goto
<1> QED BY <1>1, <1>2, <1>3, <1>4, <1>5, <1>6, <1>7, <1>8, <1>9, <1>10
        DEF ClientNext, Enqueue, CancelTask, UnlockThread, LockExpire, clientVars

LEMMA GroupStep ==
  ASSUME "redisError" \notin Env
  PROVE  TypeInv /\ OnceInv /\ GroupInv /\ [Next]_vars => GroupInv'
<1> SUFFICES ASSUME TypeInv, OnceInv, GroupInv, [Next]_vars PROVE GroupInv'
  OBVIOUS
<1>1. CASE WorkerNext /\ UNCHANGED clientVars
  <2>1. /\ pc' = pc /\ labelled' = labelled /\ members' = members
        /\ \A t \in Tasks : Listed(t)' => Listed(t)
    BY <1>1, WorkerFrame DEF clientVars
  <2> QED BY <2>1 DEF GroupInv, NotPushed, Joined, GroupBeforeQueue, Listed
<1>2. CASE UNCHANGED vars
  <2>1. \A t \in Tasks : Listed(t)' <=> Listed(t)
    BY <1>2 DEF Listed, InQueue, vars, redisVars, listVars
  <2> QED BY <1>2, <2>1 DEF GroupInv, NotPushed, Joined, GroupBeforeQueue, Listed, vars, redisVars, groupVars, listVars, clientVars
<1> QED BY <1>1, <1>2, GroupClient DEF Next

\* While Redis answers, a group task that a worker can take is a member of its
\* group and labelled, through every crash, dead client and expired lock.
THEOREM GroupIsBeforeQueue ==
  ASSUME "redisError" \notin Env
  PROVE  Spec => []GroupBeforeQueue
<1>1. TypeInv /\ OnceInv /\ GroupInv /\ [Next]_vars => GroupInv'
  BY GroupStep
<1>2. GroupInv => GroupBeforeQueue
  BY DEF GroupInv
<1> QED BY TypeInit, TypeStep, OnceInit, OnceStep, GroupInit, <1>1, <1>2, PTL DEF Spec

-----------------------------------------------------------------------------
(* One task of a thread at a time, under the thread's lock.  The code       *)
(* promises it to one orchestrator whose commands reach Redis, whose        *)
(* process lives, whose waits last until the task ends, and whose lock does *)
(* not expire and is not broken by hand; workers may fail in every way.     *)
Orderly ==
  Env \intersect {"parallelCalls", "redisError", "clientDeath", "lockExpiry", "manualUnlock", "waitTimeout"} = {}

\* A call is under way, or its task has not been waited for.
Busy == Enqueuing \union {"enqueued"} \union Waiting

\* Two calls of one thread overlap only in a fan-out.
Solo ==
  \A t \in Tasks : \A u \in Tasks \ {t} :
    ThreadOf[t] = ThreadOf[u] /\ pc[t] \in Busy /\ pc[u] \in Busy =>
      {t, u} \subseteq Grouped /\ {pc[t], pc[u]} \intersect {"enqueued", "poll", "settle"} # {}

\* From the lock to the end of the wait the lock names the task; a group
\* task's gate is its own until it lets go of it.
Owning == {"append", "push", "init", "enqueued"} \union Waiting
OwnsLock ==
  \A t \in Tasks :
    (t \in Sequential /\ pc[t] \in Owning) \/ pc[t] = "release" => lock[ThreadOf[t]] = t

\* A lock names a task of its thread that has begun and is not waited for.
LockNamed ==
  \A t \in Tasks : \A th \in Threads :
    lock[th] = t => /\ ThreadOf[t] = th /\ pc[t] \notin {"idle", "waited"}
                    /\ t \in Grouped => pc[t] = "release"

\* Points that need a failure, or a lock a group task has not got.
NotAt == \A t \in Tasks : pc[t] # "dead" /\ (t \in Grouped => pc[t] # "unlock")

\* What the status key says to the one who reads it.
StatusTells ==
  \A t \in Tasks :
    /\ pc[t] \in {"enqueued", "left", "waited", "error"} \union Waiting => status[t] # "none"
    /\ Terminal(status[t]) \/ pc[t] \in {"settle", "unlock", "waited"} => result[t] # "none"

\* No sequential task of the thread is in flight.
ThreadQuiet(th) == \A t \in Sequential : ThreadOf[t] = th => ~InFlight(t)

\* What a call may rely on after it has looked at the lock.
Gate ==
  \A u \in Tasks :
    /\ pc[u] = "check" => lock[ThreadOf[u]] = holder[u]
    /\ pc[u] = "clear" \/ (u \in Grouped /\ pc[u] \in {"append", "sadd"}) => ThreadQuiet(ThreadOf[u])

SerialInv == Solo /\ OwnsLock /\ LockNamed /\ NotAt /\ StatusTells /\ Gate /\ LockCovers

LEMMA SerialInit == Init => SerialInv
<1> SUFFICES ASSUME Init PROVE SerialInv
  OBVIOUS
<1>1. /\ queue = [w \in Workers |-> << >>] /\ processing = [t \in Tasks |-> 0]
      /\ pc = [t \in Tasks |-> "idle"] /\ lock = [th \in Threads |-> NoTask]
      /\ status = [t \in Tasks |-> "none"]
  BY DEF Init, KeysInit, ClientInit
<1>2. \A t \in Tasks : ~InFlight(t)
  BY <1>1, EmptySeq DEF InQueue, InFlight
<1>3. Solo /\ OwnsLock /\ NotAt
  BY <1>1 DEF Solo, Busy, Enqueuing, Waiting, OwnsLock, Owning, NotAt
<1>4. LockNamed /\ StatusTells /\ Gate /\ LockCovers
  BY <1>1, <1>2 DEF LockNamed, StatusTells, Terminal, Outcomes, Gate, LockCovers, Sequential, Waiting
<1> QED BY <1>3, <1>4 DEF SerialInv

\* A call that begins finds its thread free; one that goes on stays alone.
LEMMA SoloStays ==
  ASSUME ClientTypeOK, Solo, "parallelCalls" \notin Env, NEW t \in Tasks, NEW from, NEW to, Goto(t, from, to),
         from \in Busy \/ to \notin Busy \/ (from = "idle" /\ CallerFree(t)),
         from \in {"enqueued", "poll", "settle"} /\ to \in Busy =>
           to \in {"enqueued", "poll", "settle"} \/ t \notin Grouped
  PROVE  Solo'
<1>1. \A u \in Tasks \ {t} : pc'[u] = pc[u]
  BY DEF Goto
<1>2. pc[t] = from /\ pc'[t] = to
  BY DEF Goto, ClientTypeOK
<1>3. CASE from \in Busy \/ to \notin Busy
  BY <1>1, <1>2, <1>3 DEF Solo
<1>4. CASE from = "idle" /\ CallerFree(t)
  <2>1. \A u \in Tasks \ {t} : ThreadOf[u] = ThreadOf[t] /\ pc[u] \in Busy =>
          {t, u} \subseteq Grouped /\ pc[u] = "enqueued"
    BY <1>4 DEF CallerFree, Busy, Enqueuing, Waiting, Stopped
  <2> QED BY <1>1, <1>2, <2>1 DEF Solo
<1> QED BY <1>3, <1>4

\* A client's step of an orderly orchestrator.
LEMMA SerialClient ==
  ASSUME Orderly, TypeInv, OnceInv, GroupInv, SerialInv, ClientNext
  PROVE  SerialInv'
<1> USE DEF TypeInv, TypeOK, KeysTypeOK, ClientTypeOK, GroupInv, SerialInv, lockVars, taskVars, listVars, redisVars
<1>e. Env \intersect {"redisError", "clientDeath", "lockExpiry", "manualUnlock", "waitTimeout", "parallelCalls"} = {}
  BY DEF Orderly
<1>r. \A t \in Tasks : \A at, next : Ran(t, at, next) => Goto(t, at, next)
  BY <1>e DEF Ran, Fault
\* Nobody else of the thread is enqueuing or holds its lock as its own.
<1>s. ASSUME NEW t \in Tasks, pc[t] \in Enqueuing, NEW u \in Tasks \ {t}, ThreadOf[u] = ThreadOf[t]
      PROVE  /\ pc[u] \notin Enqueuing \union {"unlock"}
             /\ u \in Sequential => pc[u] \notin Owning
  <2>1. CASE pc[u] \in Busy
    <3>1. {t, u} \subseteq Grouped /\ pc[u] \in {"enqueued", "poll", "settle"}
      BY <1>s, <2>1 DEF Solo, Busy, Enqueuing
    <3> QED BY <3>1 DEF Enqueuing, Sequential
  <2>2. CASE pc[u] \notin Busy
    BY <2>2 DEF Busy, Owning, Waiting, Enqueuing
  <2> QED BY <2>1, <2>2
\* What is in flight has been pushed.
<1>p. ASSUME NEW t \in Tasks, InFlight(t)
      PROVE  /\ result[t] = "none" /\ pc[t] \notin BeforePush \union {"refused"}
             /\ pc[t] \in {"init", "enqueued", "left", "error", "poll"}
  <2>1. Listed(t) /\ result[t] = "none"
    BY <1>p DEF InFlight, Listed
  <2>2. pc[t] \notin BeforePush \union {"refused"}
    BY <2>1 DEF NotPushed
  <2>3. pc[t] \notin {"settle", "unlock", "waited", "dead", "rollback"}
    BY <2>1 DEF StatusTells, NotAt, Joined
  <2> QED BY <2>1, <2>2, <2>3 DEF PcValues, Enqueuing, Stopped, Waiting, BeforePush
\* A step that moves one call and touches neither the lock nor the lists.
<1>m. ASSUME NEW t \in Tasks, NEW from, NEW to, Goto(t, from, to),
             UNCHANGED <<lock, queue, processing, result>>, Solo', StatusTells',
             to \notin {"idle", "release", "dead", "clear"}, t \in Grouped => to # "unlock",
             t \in Sequential /\ to \in Owning => from \in Owning,
             t \in Grouped => from # "release",
             to = "waited" => lock[ThreadOf[t]] # t,
             from # "idle" \/ to = "holder",
             to = "check" => holder'[t] = lock[ThreadOf[t]],
             \A u \in Tasks \ {t} : holder'[u] = holder[u],
             t \in Grouped /\ to \in {"append", "sadd"} => from \in {"append", "sadd"}
      PROVE  SerialInv'
  <2>1. \A u \in Tasks : InFlight(u)' <=> InFlight(u)
    BY <1>m DEF InFlight, InQueue
  <2>2. pc[t] = from /\ pc'[t] = to /\ \A u \in Tasks \ {t} : pc'[u] = pc[u]
    BY <1>m DEF Goto
  <2>3. OwnsLock'
    BY <1>m, <2>2 DEF OwnsLock
  <2>4. LockNamed'
    BY <1>m, <2>2 DEF LockNamed
  <2>5. NotAt'
    BY <1>m, <2>2 DEF NotAt
  <2>6. Gate'
    <3>1. \A th : ThreadQuiet(th)' <=> ThreadQuiet(th)
      BY <2>1 DEF ThreadQuiet, Sequential
    <3>2. ASSUME NEW u \in Tasks, pc'[u] = "check" PROVE lock'[ThreadOf[u]] = holder'[u]
      BY <1>m, <2>2, <3>2 DEF Gate
    <3>3. ASSUME NEW u \in Tasks, pc'[u] = "clear" \/ (u \in Grouped /\ pc'[u] \in {"append", "sadd"})
          PROVE  ThreadQuiet(ThreadOf[u])'
      <4>1. pc[u] = "clear" \/ (u \in Grouped /\ pc[u] \in {"append", "sadd"})
        BY <1>m, <2>2, <3>3
      <4> QED BY <3>1, <4>1 DEF Gate
    <3> QED BY <3>2, <3>3 DEF Gate
  <2>7. LockCovers'
    BY <1>m, <2>1 DEF LockCovers, Sequential
  <2> QED BY <1>m, <2>3, <2>4, <2>5, <2>6, <2>7
<1>1. ASSUME NEW t \in Tasks, NEW from \in {"idle", "reacquire"}, NEW otherwise \in {"holder", "refused"},
             TryLock(t, from, otherwise), from = "idle" => CallerFree(t),
             UNCHANGED <<threadStatus, taskVars, groupVars, listVars, messages, holder, seen>>,
             from = "idle" => otherwise = "holder",
             from = "reacquire" => otherwise = "refused"
      PROVE  SerialInv'
  <2>1. PICK got \in BOOLEAN : SetLockNX(t, got) /\ Goto(t, from, IF got THEN Locked(t) ELSE otherwise)
    BY <1>1, <1>r DEF TryLock
  <2>2. Locked(t) = IF t \in Grouped THEN "release" ELSE "append"
    BY DEF Locked
  <2>3. Solo'
    BY <1>1, <1>e, <2>1, <2>2, SoloStays DEF Busy, Enqueuing, Waiting
  <2>4. StatusTells'
    BY <1>1, <2>1, <2>2 DEF StatusTells, Goto, Waiting
  <2>5. CASE ~got
    <3>1. lock' = lock /\ Goto(t, from, otherwise)
      BY <2>1, <2>5 DEF SetLockNX
    <3> QED BY <1>1, <1>m, <2>3, <2>4, <3>1 DEF groupVars, Owning, Waiting
  <2>6. CASE got
    <3>1. /\ lock[ThreadOf[t]] = NoTask /\ lock' = [lock EXCEPT ![ThreadOf[t]] = t]
          /\ pc' = [pc EXCEPT ![t] = Locked(t)] /\ pc[t] = from
      BY <2>1, <2>6 DEF SetLockNX, Goto
    <3>2. \A u \in Tasks : InFlight(u)' <=> InFlight(u)
      BY <1>1 DEF InFlight, InQueue
    <3>3. ThreadQuiet(ThreadOf[t])
      BY <3>1 DEF LockCovers, ThreadQuiet, Sequential
    <3>4. OwnsLock'
      BY <2>2, <3>1 DEF OwnsLock
    <3>5. LockNamed'
      BY <2>2, <3>1 DEF LockNamed
    <3>6. NotAt'
      BY <2>2, <3>1 DEF NotAt
    <3>7. Gate'
      <4>1. ASSUME NEW u \in Tasks, pc'[u] = "check" PROVE lock'[ThreadOf[u]] = holder'[u]
        <5>1. u # t /\ pc[u] = "check"
          BY <2>2, <3>1, <4>1
        <5>2. ThreadOf[u] # ThreadOf[t]
          <6>1. CASE from = "idle"
            BY <1>1, <1>e, <5>1, <6>1 DEF CallerFree, Stopped
          <6>2. CASE from = "reacquire"
            BY <1>s, <3>1, <5>1, <6>2 DEF Enqueuing
          <6> QED BY <6>1, <6>2
        <5> QED BY <1>1, <3>1, <5>1, <5>2 DEF Gate
      <4>2. \A u \in Tasks : pc'[u] = "clear" \/ (u \in Grouped /\ pc'[u] \in {"append", "sadd"}) => ThreadQuiet(ThreadOf[u])'
        BY <2>2, <3>1, <3>2, <3>3 DEF Gate, ThreadQuiet, Sequential
      <4> QED BY <4>1, <4>2 DEF Gate
    <3>8. LockCovers'
      BY <3>1, <3>2, <3>3 DEF LockCovers, ThreadQuiet, Sequential
    <3> QED BY <2>3, <2>4, <3>4, <3>5, <3>6, <3>7, <3>8
  <2> QED BY <2>5, <2>6
<1>2. ASSUME NEW t \in Tasks, Acquire(t) \/ Reacquire(t) PROVE SerialInv'
  BY <1>1, <1>2 DEF Acquire, Reacquire
<1>3. ASSUME NEW t \in Tasks, ReadHolder(t) PROVE SerialInv'
  <2>1. Goto(t, "holder", "check") /\ holder' = [holder EXCEPT ![t] = lock[ThreadOf[t]]] /\ UNCHANGED redisVars
    BY <1>3 DEF ReadHolder
  <2>2. Solo'
    BY <1>e, <2>1, SoloStays DEF Busy, Enqueuing
  <2>3. StatusTells'
    BY <2>1 DEF StatusTells, Goto, Waiting
  <2> QED BY <1>m, <2>1, <2>2, <2>3 DEF Owning, Waiting
\* A DEL of a thread's lock, by a call that is alone on the thread.
<1>d. ASSUME NEW t \in Tasks, NEW from, NEW to, Goto(t, from, to), DelLock(ThreadOf[t]),
             UNCHANGED <<queue, processing, result, holder>>, Solo', StatusTells',
             ThreadQuiet(ThreadOf[t]),
             \A u \in Tasks \ {t} : ThreadOf[u] = ThreadOf[t] =>
               pc[u] \notin Enqueuing /\ (u \in Sequential => pc[u] \notin Owning),
             \/ from = "clear" /\ to = "reacquire"
             \/ from = "release" /\ to = "append" /\ t \in Grouped
             \/ from = "unlock" /\ to = "waited"
      PROVE  SerialInv'
  <2>1. \A u \in Tasks : InFlight(u)' <=> InFlight(u)
    BY <1>d DEF InFlight, InQueue
  <2>2. pc[t] = from /\ pc'[t] = to /\ \A u \in Tasks \ {t} : pc'[u] = pc[u]
    BY <1>d DEF Goto
  <2>3. lock' = [lock EXCEPT ![ThreadOf[t]] = NoTask]
    BY <1>d DEF DelLock
  <2>4. OwnsLock'
    BY <1>d, <2>2, <2>3 DEF OwnsLock, Owning, Waiting, Enqueuing, Sequential
  <2>5. LockNamed'
    BY <1>d, <2>2, <2>3 DEF LockNamed
  <2>6. NotAt'
    BY <1>d, <2>2 DEF NotAt
  <2>7. Gate'
    BY <1>d, <2>1, <2>2, <2>3 DEF Gate, ThreadQuiet, Sequential, Enqueuing
  <2>8. LockCovers'
    BY <1>d, <2>1, <2>3 DEF LockCovers, ThreadQuiet, Sequential
  <2> QED BY <1>d, <2>4, <2>5, <2>6, <2>7, <2>8
<1>4. ASSUME NEW t \in Tasks, CheckHolder(t) PROVE SerialInv'
  <2>1. UNCHANGED redisVars /\ holder' = holder
    BY <1>4 DEF CheckHolder
  <2>2. CASE IsTaskActive(holder[t])
    <3>1. Goto(t, "check", "refused")
      BY <1>4, <2>2 DEF CheckHolder
    <3>2. Solo'
      BY <1>e, <3>1, SoloStays DEF Busy, Enqueuing, Waiting
    <3>3. StatusTells'
      BY <2>1, <3>1 DEF StatusTells, Goto, Waiting
    <3> QED BY <1>m, <2>1, <3>1, <3>2, <3>3 DEF Owning, Waiting
  <2>3. CASE ~IsTaskActive(holder[t])
    <3>1. Goto(t, "check", "clear")
      BY <1>4, <2>3 DEF CheckHolder
    <3>2. Solo'
      BY <1>e, <3>1, SoloStays DEF Busy, Enqueuing, Waiting
    <3>3. StatusTells'
      BY <2>1, <3>1 DEF StatusTells, Goto, Waiting
    <3>4. ASSUME NEW u \in Sequential, ThreadOf[u] = ThreadOf[t], InFlight(u) PROVE FALSE
      <4>1. u \in Tasks /\ lock[ThreadOf[t]] = u /\ holder[t] = u
        BY <3>1, <3>4 DEF LockCovers, Gate, Goto, Sequential
      <4>2. pc[u] \in {"init", "enqueued", "left", "error", "poll"} /\ result[u] = "none"
        BY <1>p, <3>4, <4>1
      <4>3. u # t
        BY <3>1, <4>2 DEF Goto
      <4>4. pc[u] # "init"
        BY <1>s, <3>1, <3>4, <4>1, <4>3 DEF Goto, Enqueuing
      <4>5. status[u] # "none" /\ ~Terminal(status[u])
        BY <4>1, <4>2, <4>4 DEF StatusTells, Waiting
      <4> QED BY <2>3, <4>1, <4>5 DEF IsTaskActive
    <3>5. \A u \in Tasks : InFlight(u)' <=> InFlight(u)
      BY <2>1 DEF InFlight, InQueue
    <3>6. Gate'
      BY <2>1, <3>1, <3>4, <3>5 DEF Gate, ThreadQuiet, Goto, Sequential
    <3>7. OwnsLock' /\ LockNamed' /\ NotAt'
      BY <2>1, <3>1 DEF OwnsLock, LockNamed, NotAt, Goto, Owning, Waiting
    <3>8. LockCovers'
      BY <2>1, <3>5 DEF LockCovers, Sequential
    <3> QED BY <3>2, <3>3, <3>6, <3>7, <3>8
  <2> QED BY <2>2, <2>3
<1>5. ASSUME NEW t \in Tasks, ClearStale(t) \/ ReleaseGate(t) \/ WaitUnlock(t) PROVE SerialInv'
  <2>1. /\ DelLock(ThreadOf[t]) /\ UNCHANGED <<queue, processing, result, status, holder>>
        /\ \/ Goto(t, "clear", "reacquire")
           \/ Goto(t, "release", "append")
           \/ Goto(t, "unlock", "waited")
    BY <1>5, <1>r DEF ClearStale, ReleaseGate, WaitUnlock
  <2>2. Solo'
    BY <1>e, <2>1, SoloStays DEF Busy, Enqueuing, Waiting
  <2>3. StatusTells'
    BY <2>1 DEF StatusTells, Goto, Waiting
  <2>4. ASSUME NEW u \in Tasks \ {t}, ThreadOf[u] = ThreadOf[t]
        PROVE  pc[u] \notin Enqueuing /\ (u \in Sequential => pc[u] \notin Owning)
    <3>1. CASE pc[t] \in Enqueuing
      BY <1>s, <2>4, <3>1
    <3>2. CASE pc[t] = "unlock"
      <4>1. t \notin Grouped
        BY <3>2 DEF NotAt
      <4>2. pc[u] \notin Busy
        BY <2>4, <3>2, <4>1 DEF Solo, Busy, Waiting
      <4> QED BY <4>2 DEF Busy, Owning, Enqueuing
    <3> QED BY <2>1, <3>1, <3>2 DEF Goto, Enqueuing
  <2>5. ThreadQuiet(ThreadOf[t])
    <3>1. CASE pc[t] = "clear"
      BY <3>1 DEF Gate
    <3>2. CASE pc[t] = "release"
      BY <3>2 DEF ThreadQuiet, LockCovers, OwnsLock, Joined, Sequential
    <3>3. CASE pc[t] = "unlock"
      <4>1. t \in Sequential
        BY <3>3 DEF NotAt, Sequential
      <4>2. lock[ThreadOf[t]] = t /\ result[t] # "none"
        BY <3>3, <4>1 DEF OwnsLock, Owning, Waiting, StatusTells
      <4> QED BY <4>2 DEF ThreadQuiet, LockCovers, InFlight
    <3> QED BY <2>1, <3>1, <3>2, <3>3 DEF Goto
  <2>6. pc[t] = "release" => t \in Grouped
    BY DEF Joined
  <2>7. PICK from, to : /\ Goto(t, from, to)
                        /\ \/ from = "clear" /\ to = "reacquire"
                           \/ from = "release" /\ to = "append" /\ t \in Grouped
                           \/ from = "unlock" /\ to = "waited"
    BY <2>1, <2>6 DEF Goto
  <2> QED BY <1>d, <2>1, <2>2, <2>3, <2>4, <2>5, <2>7
<1>6. ASSUME NEW t \in Tasks, AppendInstruction(t) \/ JoinGroup(t) \/ SetGroup(t) \/ InitKeys(t) PROVE SerialInv'
  <2>1. /\ UNCHANGED <<lock, queue, processing, result, holder>>
        /\ \/ UNCHANGED status
           \/ Goto(t, "init", "enqueued") /\ status' = [status EXCEPT ![t] = "pending"]
    BY <1>6, <1>r DEF AppendInstruction, JoinGroup, SetGroup, InitKeys
  <2>2. PICK from, to : /\ Goto(t, from, to)
                        /\ \/ from = "append" /\ to = "sadd" /\ t \in Grouped
                           \/ from = "append" /\ to = "push"
                           \/ from = "sadd" /\ to = "label" /\ t \in Grouped
                           \/ from = "label" /\ to = "push" /\ t \in Grouped
                           \/ from = "init" /\ to = "enqueued" /\ status' = [status EXCEPT ![t] = "pending"]
    BY <1>6, <1>r DEF AppendInstruction, JoinGroup, SetGroup, InitKeys, Goto, Joined
  <2>3. Solo'
    BY <1>e, <2>2, SoloStays DEF Busy, Enqueuing
  <2>4. StatusTells'
    BY <2>1, <2>2 DEF StatusTells, Goto, Waiting, Terminal, Outcomes
  <2> QED BY <1>m, <2>1, <2>2, <2>3, <2>4 DEF Owning, Sequential
<1>7. ASSUME NEW t \in Tasks, Push(t) PROVE SerialInv'
  <2>1. Goto(t, "push", "init") /\ UNCHANGED <<lock, processing, result, status, holder>>
    BY <1>7, <1>r DEF Push
  <2>2. \A u \in Tasks : InFlight(u)' => InFlight(u) \/ u = t
    BY <1>7, <2>1, PushQueueAdds DEF Push, InFlight
  <2>3. Solo'
    BY <1>e, <2>1, SoloStays DEF Busy, Enqueuing
  <2>4. StatusTells'
    BY <2>1 DEF StatusTells, Goto, Waiting
  <2>5. OwnsLock' /\ LockNamed' /\ NotAt'
    BY <2>1 DEF OwnsLock, LockNamed, NotAt, Goto, Owning, Sequential
  <2>6. LockCovers'
    BY <2>1, <2>2 DEF LockCovers, OwnsLock, Owning, Goto, Sequential
  <2>7. ASSUME NEW u \in Tasks, pc'[u] = "clear" \/ (u \in Grouped /\ pc'[u] \in {"append", "sadd"})
        PROVE  ThreadQuiet(ThreadOf[u])'
    <3>1. u # t /\ pc'[u] = pc[u] /\ pc[t] = "push"
      BY <2>1, <2>7 DEF Goto
    <3>2. ThreadOf[u] # ThreadOf[t]
      BY <1>s, <2>7, <3>1 DEF Enqueuing
    <3>3. ThreadQuiet(ThreadOf[u])
      BY <2>7, <3>1 DEF Gate
    <3> QED BY <2>2, <3>2, <3>3 DEF ThreadQuiet, Sequential
  <2>8. Gate'
    BY <2>1, <2>7 DEF Gate, Goto
  <2> QED BY <2>3, <2>4, <2>5, <2>6, <2>8
<1>8. ASSUME NEW t \in Tasks, StartWait(t) \/ PollTerminal(t) \/ WaitCancelled(t) \/ Leave(t) PROVE SerialInv'
  <2>1. UNCHANGED <<redisVars, holder>>
    BY <1>8 DEF StartWait, PollTerminal, WaitCancelled, Leave
  <2>2. PICK from, to : /\ Goto(t, from, to)
                        /\ \/ from = "enqueued" /\ to \in {"poll", "left"}
                           \/ from = "poll" /\ to = "error"
                           \/ from = "poll" /\ to = "settle" /\ Terminal(status[t])
    BY <1>8 DEF StartWait, PollTerminal, WaitCancelled, Leave
  <2>3. Solo'
    BY <1>e, <2>2, SoloStays DEF Busy, Enqueuing, Waiting
  <2>4. StatusTells'
    BY <2>1, <2>2 DEF StatusTells, Goto, Waiting
  <2> QED BY <1>m, <2>1, <2>2, <2>3, <2>4 DEF Owning, Waiting
<1>9. ASSUME NEW t \in Tasks, Settle(t) PROVE SerialInv'
  <2>1. UNCHANGED <<lock, queue, processing, result, status, holder>> /\ pc[t] = "settle"
    BY <1>9 DEF Settle, Goto
  <2>2. \/ t \in Grouped /\ Goto(t, "settle", "waited")
        \/ t \notin Grouped /\ Goto(t, "settle", "unlock")
    BY <1>9, <1>e, <2>1 DEF Settle, Joined, Waiting
  <2>3. Solo'
    BY <1>e, <2>2, SoloStays DEF Busy, Enqueuing, Waiting
  <2>4. StatusTells'
    BY <2>1, <2>2 DEF StatusTells, Goto, Waiting
  <2>5. t \in Grouped => lock[ThreadOf[t]] # t
    BY <2>1 DEF LockNamed
  <2> QED BY <1>m, <2>1, <2>2, <2>3, <2>4, <2>5 DEF Owning, Waiting
<1>10. ASSUME UNCHANGED <<pc, lock, queue, processing, result, status, holder>> PROVE SerialInv'
  <2>1. \A u \in Tasks : InFlight(u)' <=> InFlight(u)
    BY <1>10 DEF InFlight, InQueue
  <2> QED BY <1>10, <2>1 DEF Solo, OwnsLock, LockNamed, NotAt, StatusTells, Gate, ThreadQuiet, LockCovers, Sequential
<1>11. /\ \A t \in Tasks : ~CommandFails(t) /\ ~WaitFails(t) /\ ~Rollback(t) /\ ~ClientDies(t) /\ ~PollTimeout(t)
       /\ \A th \in Threads : ~UnlockThread(th) /\ ~LockExpire(th)
  BY <1>e DEF CommandFails, WaitFails, Fault, Rollback, Joined, Goto, ClientDies, PollTimeout, UnlockThread, LockExpire
<1>12. ASSUME NEW t \in Tasks, CancelTask(t) PROVE SerialInv'
  BY <1>10, <1>12 DEF CancelTask, clientVars
<1> QED BY <1>2, <1>3, <1>4, <1>5, <1>6, <1>7, <1>8, <1>9, <1>11, <1>12 DEF ClientNext, Enqueue, WaitTask

LEMMA SerialStep ==
  ASSUME Orderly
  PROVE  TypeInv /\ OnceInv /\ GroupInv /\ SerialInv /\ [Next]_vars => SerialInv'
<1> SUFFICES ASSUME TypeInv, OnceInv, GroupInv, SerialInv, [Next]_vars PROVE SerialInv'
  OBVIOUS
<1>a. ASSUME UNCHANGED <<pc, lock, holder>>,
             \A t \in Tasks : /\ InFlight(t)' => InFlight(t)
                              /\ status[t] # "none" => status'[t] # "none"
                              /\ result[t] # "none" => result'[t] # "none"
                              /\ Terminal(status'[t]) => Terminal(status[t]) \/ result'[t] # "none"
      PROVE  SerialInv'
  <2>1. Solo' /\ OwnsLock' /\ LockNamed' /\ NotAt'
    BY <1>a DEF SerialInv, Solo, OwnsLock, LockNamed, NotAt
  <2>2. StatusTells'
    BY <1>a DEF SerialInv, StatusTells
  <2>3. Gate' /\ LockCovers'
    BY <1>a DEF SerialInv, Gate, ThreadQuiet, LockCovers, Sequential
  <2> QED BY <2>1, <2>2, <2>3 DEF SerialInv
<1>1. CASE WorkerNext /\ UNCHANGED clientVars
  <2>1. \A t \in Tasks : Listed(t)' => Listed(t)
    BY <1>1, WorkerFrame
  <2>2. \A t \in Tasks : result[t] # "none" => result'[t] # "none"
    BY <1>1, WorkerFrame
  <2>3. \A t \in Tasks : InFlight(t)' => InFlight(t)
    BY <2>1, <2>2 DEF InFlight, Listed
  <2> QED BY <1>1, <1>a, <2>2, <2>3, WorkerFrame DEF clientVars
<1>2. CASE UNCHANGED vars
  <2>1. UNCHANGED <<pc, lock, holder, status, result, queue, processing>>
    BY <1>2 DEF vars, redisVars, lockVars, taskVars, listVars, clientVars
  <2>2. \A t \in Tasks : InFlight(t)' <=> InFlight(t)
    BY <2>1 DEF InFlight, InQueue
  <2> QED BY <1>a, <2>1, <2>2
<1> QED BY <1>1, <1>2, SerialClient DEF Next

\* The invariant behind the four theorems that follow.
LEMMA OrderlySerial ==
  ASSUME Orderly
  PROVE  Spec => [](TypeInv /\ OnceInv /\ GroupInv /\ SerialInv)
<1>1. TypeInv /\ OnceInv /\ GroupInv /\ [Next]_vars => GroupInv'
  BY GroupStep DEF Orderly
<1>2. TypeInv /\ OnceInv /\ GroupInv /\ SerialInv /\ [Next]_vars => SerialInv'
  BY SerialStep
<1> QED BY TypeInit, TypeStep, OnceInit, OnceStep, GroupInit, SerialInit, <1>1, <1>2, PTL DEF Spec

\* While a sequential task is in flight its thread's lock names it, through
\* every crash of a worker, lost reply and failed worker command.
THEOREM LockCoversFlight ==
  ASSUME Orderly
  PROVE  Spec => []LockCovers
<1>1. SerialInv => LockCovers
  BY DEF SerialInv
<1> QED BY OrderlySerial, <1>1, PTL

\* Hence two sequential tasks of a thread are never in flight together.
THEOREM OneInFlight ==
  ASSUME Orderly
  PROVE  Spec => []ThreadSerial
<1>1. SerialInv => ThreadSerial
  BY DEF SerialInv, LockCovers, ThreadSerial
<1> QED BY OrderlySerial, <1>1, PTL

\* A thread whose calls have all been waited for, or never made, is unlocked.
THEOREM LockComesBack ==
  ASSUME Orderly
  PROVE  Spec => []LockReturned
<1>1. TypeInv /\ SerialInv => LockReturned
  <2> SUFFICES ASSUME TypeInv, SerialInv, NEW th \in Threads, lock[th] # NoTask
               PROVE  \E t \in Tasks : ThreadOf[t] = th /\ pc[t] \notin {"idle", "waited"}
    BY DEF LockReturned
  <2>1. lock[th] \in Tasks
    BY DEF TypeInv, TypeOK, KeysTypeOK
  <2> QED BY <2>1 DEF SerialInv, LockNamed
<1> QED BY OrderlySerial, <1>1, PTL

\* A task joins a group only while no sequential task of its thread is in
\* flight: the gate it took and let go of has seen to that.
THEOREM GroupIsGated ==
  ASSUME Orderly
  PROVE  Spec => GroupGated
<1> DEFINE Joins == \A t \in members' \ members, u \in Sequential : ThreadOf[t] = ThreadOf[u] => ~InFlight(u)
<1>1. TypeInv /\ OnceInv /\ GroupInv /\ SerialInv /\ [Next]_vars => [Joins]_vars
  <2> SUFFICES ASSUME TypeInv, OnceInv, GroupInv, SerialInv, Next, NEW t \in members' \ members
               PROVE  ThreadQuiet(ThreadOf[t])
    BY DEF ThreadQuiet
  <2>1. ClientNext
    BY WorkerFrame DEF Next
  <2>2. JoinGroup(t)
    BY <2>1 DEF ClientNext, Enqueue, CommandFails, Acquire, ReadHolder, CheckHolder, ClearStale, Reacquire,
                ReleaseGate, AppendInstruction, JoinGroup, SetGroup, Push, InitKeys, Rollback, WaitTask,
                StartWait, PollTerminal, PollTimeout, Settle, WaitUnlock, WaitFails, WaitCancelled, Leave,
                CancelTask, ClientDies, UnlockThread, LockExpire, redisVars, groupVars
  <2>3. t \in Tasks /\ pc[t] = "sadd"
    <3>1. members' \subseteq Tasks
      BY TypeStep DEF TypeInv, TypeOK, KeysTypeOK
    <3> QED BY <2>2, <3>1 DEF JoinGroup, Ran, Goto
  <2> QED BY <2>3 DEF GroupInv, Joined, SerialInv, Gate
<1> QED BY OrderlySerial, <1>1, PTL DEF GroupGated, Spec
-----------------------------------------------------------------------------
(* A cancel flag that comes in time. *)

\* The agent of a flagged task that was never started stays unstarted: no step
\* removes the flag, and the worker looks at it before it starts the agent.
LEMMA FlagHolds ==
  ASSUME "workerError" \notin Env, NEW t \in Tasks, TypeInv, t \in cancel, starts[t] = 0, [Next]_vars
  PROVE  t \in cancel' /\ starts'[t] = 0
<1> USE DEF TypeInv, TypeOK, WorkerTypeOK, taskVars, redisVars, workerVars
<1>1. CASE ClientNext /\ UNCHANGED workerVars
  BY <1>1 DEF ClientNext, Enqueue, CommandFails, Acquire, ReadHolder, CheckHolder, ClearStale, Reacquire,
              ReleaseGate, AppendInstruction, JoinGroup, SetGroup, Push, InitKeys, Rollback, WaitTask,
              StartWait, PollTerminal, PollTimeout, Settle, WaitUnlock, WaitFails, WaitCancelled, Leave,
              CancelTask, ClientDies, UnlockThread, LockExpire
<1>2. CASE WorkerNext
  <2>1. cancel' = cancel
    BY <1>2 DEF WorkerNext, Take, TakeReplyLost, ProcessOneTask, Register, SetRunning, CheckCancel, StoreCancelled,
                StoreResult, Reply, Unlist, Deregister, CommandDropped, Stop, Restart, WorkerCrash
  <2>2. starts' = starts \/ \E w \in Workers : CheckCancel(w) \/ CommandDropped(w)
    BY <1>2 DEF WorkerNext, Take, TakeReplyLost, ProcessOneTask, Register, SetRunning, StoreCancelled,
                StoreResult, Reply, Unlist, Deregister, Stop, Restart, WorkerCrash
  <2>3. \A w \in Workers : ~CommandDropped(w)
    BY DEF CommandDropped, Fault
  <2>4. ASSUME NEW w \in Workers, CheckCancel(w) PROVE starts'[t] = 0
    BY <2>4 DEF CheckCancel
  <2> QED BY <2>1, <2>2, <2>3, <2>4
<1>3. CASE UNCHANGED vars
  BY <1>3 DEF vars
<1> QED BY <1>1, <1>2, <1>3 DEF Next

\* A cancel flag set before a worker holds the task keeps its agent from ever
\* being started, if the worker's own GET of the flag does not fail.
THEOREM CancelIsHonoured ==
  ASSUME "workerError" \notin Env
  PROVE  Spec => CancelHonoured
<1>1. ASSUME NEW t \in Tasks
      PROVE  Spec => []((t \in cancel /\ ~Held(t) /\ starts[t] = 0) => [](starts[t] = 0))
  <2> DEFINE Flagged == t \in cancel /\ starts[t] = 0
  <2>1. TypeInv /\ Flagged /\ [Next]_vars => Flagged'
    BY FlagHolds
  <2>2. Flagged => starts[t] = 0
    OBVIOUS
  <2>3. t \in cancel /\ ~Held(t) /\ starts[t] = 0 => Flagged
    OBVIOUS
  <2> QED BY TypeInit, TypeStep, <2>1, <2>2, <2>3, PTL DEF Spec
<1> QED BY <1>1 DEF CancelHonoured

=============================================================================
