--------------------------- MODULE GroupWaitProofs ---------------------------
(***************************************************************************)
(* A verdict of GroupWait is final: it is that of the outcomes the workers *)
(* stored, and nothing that happens later unsays it.  Any of the faults of *)
(* the model may happen, any number of times, as long as the orchestrator  *)
(* makes its calls one after the other.                                    *)
(***************************************************************************)
EXTENDS GroupWait, TaskQueueProofs

USE KeysAssumption DEF EnvEvents

-----------------------------------------------------------------------------
(* A task's outcome is stored once. *)

\* The worker has not come to its result pipeline.
Working == {"taken", "registered", "running", "flagged", "agent"}

OutcomeOnce ==
  /\ \A t \in Tasks : /\ pc[t] \in BeforePush \/ InQueue(t) => result[t] = "none"
                      /\ Terminal(status[t]) => result[t] = status[t]
  /\ \A w \in Workers : wpc[w] \in Working => result[hand[w]] = "none"

OutcomesStay == \A t \in Tasks : result[t] # "none" => result'[t] = result[t]

LEMMA OutcomeClient ==
  ASSUME TypeInv, OnceInv, OutcomeOnce, ClientNext, UNCHANGED workerVars
  PROVE  OutcomeOnce' /\ OutcomesStay
<1> USE DEF TypeInv, TypeOK, KeysTypeOK, ClientTypeOK, workerVars
<1>1. /\ queue' = queue \/ \E t \in Tasks : Push(t)
      /\ result' = result
      /\ \A t \in Tasks : pc'[t] \in BeforePush => pc[t] \in BeforePush
  BY ClientFrame
<1>2. \A t \in Tasks : Terminal(status'[t]) => status'[t] = status[t]
  <2>1. status' = status \/ \E t \in Tasks : InitKeys(t)
    BY DEF ClientNext, Enqueue, CommandFails, Acquire, ReadHolder, CheckHolder, ClearStale, Reacquire, ReleaseGate,
           AppendInstruction, JoinGroup, SetGroup, Push, Rollback, WaitTask, StartWait, PollTerminal,
           PollTimeout, Settle, WaitUnlock, WaitFails, WaitCancelled, Leave, CancelTask, ClientDies, UnlockThread,
           LockExpire, taskVars, redisVars
  <2> QED BY <2>1 DEF InitKeys, Terminal, Outcomes
<1>3. CASE queue' = queue
  <2>1. \A t \in Tasks : InQueue(t)' <=> InQueue(t)
    BY <1>3 DEF InQueue
  <2> QED BY <1>1, <1>2, <2>1 DEF OutcomeOnce, OutcomesStay
<1>4. ASSUME NEW p \in Tasks, Push(p) PROVE OutcomeOnce' /\ OutcomesStay
  <2>1. pc[p] = "push" /\ \A t \in Tasks : InQueue(t)' <=> InQueue(t) \/ t = p
    BY <1>4, PushQueueAdds DEF Push, Ran, Goto
  <2> QED BY <1>1, <1>2, <2>1 DEF OutcomeOnce, OutcomesStay, BeforePush
<1> QED BY <1>1, <1>3, <1>4

LEMMA OutcomeWorker ==
  ASSUME TypeInv, OnceInv, OutcomeOnce, WorkerNext, UNCHANGED clientVars
  PROVE  OutcomeOnce' /\ OutcomesStay
<1> USE DEF TypeInv, TypeOK, KeysTypeOK, WorkerTypeOK, OnceInv, clientVars, lockVars, taskVars, groupVars,
            listVars, redisVars, workerVars, OutcomesStay
<1>1. PICK w \in Workers : \/ Take(w) \/ TakeReplyLost(w) \/ ProcessOneTask(w) \/ CommandDropped(w)
                           \/ Stop(w) \/ Restart(w) \/ WorkerCrash(w)
  BY DEF WorkerNext
<1>2. CASE Take(w) \/ TakeReplyLost(w)
  <2> PICK h \in Tasks : h = Head(queue[w])
    BY <1>2, MoveTakes DEF Take, TakeReplyLost
  <2>1. MoveToProcessing(w) /\ UNCHANGED <<result, status>>
    BY <1>2 DEF Take, TakeReplyLost
  <2>2. InQueue(h) /\ \A t \in Tasks : InQueue(t)' => InQueue(t)
    BY <2>1, MoveTakes
  <2>3. \/ hand' = [hand EXCEPT ![w] = h] /\ wpc' = [wpc EXCEPT ![w] = "taken"]
        \/ UNCHANGED <<hand, wpc>>
    BY <1>2 DEF Take, TakeReplyLost, Step
  <2>4. ASSUME NEW v \in Workers, wpc'[v] \in Working PROVE result'[hand'[v]] = "none"
    <3>1. CASE wpc' = wpc /\ hand' = hand
      BY <2>1, <2>4, <3>1 DEF OutcomeOnce
    <3>2. CASE hand' = [hand EXCEPT ![w] = h] /\ wpc' = [wpc EXCEPT ![w] = "taken"]
      <4>1. CASE v = w
        BY <2>1, <2>2, <3>2, <4>1 DEF OutcomeOnce
      <4>2. CASE v # w
        BY <2>1, <2>4, <3>2, <4>2 DEF OutcomeOnce
      <4> QED BY <4>1, <4>2
    <3> QED BY <2>3, <3>1, <3>2
  <2> QED BY <2>1, <2>2, <2>4 DEF OutcomeOnce
<1>3. CASE StoreCancelled(w) \/ StoreResult(w)
  <2>1. PICK o \in Outcomes : /\ status' = [status EXCEPT ![hand[w]] = o]
                              /\ result' = [result EXCEPT ![hand[w]] = o]
    BY <1>3 DEF StoreCancelled, StoreResult, Outcomes
  <2>2. /\ hand[w] \in Tasks /\ wpc[w] \in Working /\ UNCHANGED <<queue, hand>>
        /\ \E to \in {"cancelled", "stored"} : wpc' = [wpc EXCEPT ![w] = to]
    BY <1>3 DEF StoreCancelled, StoreResult, Step, HandFull, Working
  <2>3. \A t \in Tasks : InQueue(t)' <=> InQueue(t)
    BY <2>2 DEF InQueue
  <2>4. Held(hand[w])
    BY DEF Held
  <2>5. pc[hand[w]] \notin BeforePush /\ ~InQueue(hand[w])
    BY <2>2, <2>4 DEF OnePlace, Untaken
  <2>6. \A v \in Workers \ {w} : hand[v] # hand[w]
    <3>1. hand[w] # NoTask
      BY <2>2
    <3> QED BY <3>1 DEF HandOwn
  <2>7. \A v \in Workers : wpc[v] \in Working => hand[v] \in Tasks
    BY DEF HandFull, Working
  <2>8. ASSUME NEW v \in Workers, wpc'[v] \in Working PROVE result'[hand'[v]] = "none"
    <3>1. v # w
      BY <2>2, <2>8 DEF Working
    <3> QED BY <2>1, <2>2, <2>6, <2>7, <2>8, <3>1 DEF OutcomeOnce
  <2>9. result[hand[w]] = "none"
    BY <2>2 DEF OutcomeOnce
  <2> QED BY <2>1, <2>2, <2>3, <2>5, <2>8, <2>9 DEF OutcomeOnce
<1>4. CASE SetRunning(w)
  <2>1. /\ hand[w] \in Tasks /\ status' = [status EXCEPT ![hand[w]] = "running"]
        /\ wpc[w] = "registered" /\ wpc' = [wpc EXCEPT ![w] = "running"] /\ UNCHANGED <<queue, result, hand>>
    BY <1>4 DEF SetRunning, Step, HandFull
  <2>2. \A t \in Tasks : InQueue(t)' <=> InQueue(t)
    BY <2>1 DEF InQueue
  <2> QED BY <2>1, <2>2 DEF OutcomeOnce, Working, Terminal, Outcomes
<1>5. CASE Deregister(w) \/ WorkerCrash(w) \/ Stop(w) \/ Restart(w)
  <2>1. /\ UNCHANGED <<queue, result, status>>
        /\ wpc'[w] \notin Working /\ \A v \in Workers \ {w} : wpc'[v] = wpc[v] /\ hand'[v] = hand[v]
    BY <1>5 DEF Deregister, WorkerCrash, Stop, Restart, Step, Working
  <2>2. \A t \in Tasks : InQueue(t)' <=> InQueue(t)
    BY <2>1 DEF InQueue
  <2> QED BY <2>1, <2>2 DEF OutcomeOnce
<1>6. CASE Register(w) \/ CheckCancel(w) \/ Reply(w) \/ Unlist(w) \/ CommandDropped(w)
  <2>1. UNCHANGED <<queue, result, status>>
    BY <1>6 DEF Register, CheckCancel, Reply, Unlist, CommandDropped
  <2>2. /\ \A v \in Workers \ {w} : wpc'[v] = wpc[v] /\ hand'[v] = hand[v]
        /\ wpc'[w] \in Working => wpc[w] \in Working /\ hand'[w] = hand[w]
    BY <1>6 DEF Register, CheckCancel, Reply, Unlist, CommandDropped, Step, Working
  <2>3. \A t \in Tasks : InQueue(t)' <=> InQueue(t)
    BY <2>1 DEF InQueue
  <2>4. ASSUME NEW v \in Workers, wpc'[v] \in Working PROVE result'[hand'[v]] = "none"
    <3>1. wpc[v] \in Working /\ hand'[v] = hand[v]
      BY <2>2, <2>4
    <3> QED BY <2>1, <3>1 DEF OutcomeOnce
  <2> QED BY <2>1, <2>3, <2>4 DEF OutcomeOnce
<1> QED BY <1>1, <1>2, <1>3, <1>4, <1>5, <1>6 DEF ProcessOneTask

LEMMA OutcomeStep ==
  ASSUME TypeInv, OnceInv, OutcomeOnce, [Next]_vars
  PROVE  OutcomeOnce' /\ OutcomesStay
<1>1. CASE UNCHANGED vars
  BY <1>1 DEF OutcomeOnce, OutcomesStay, InQueue, vars, redisVars, taskVars, listVars, clientVars, workerVars
<1> QED BY <1>1, OutcomeClient, OutcomeWorker DEF Next

-----------------------------------------------------------------------------
(* The calls that make up a group. *)

\* The points after the status key was set, and after SADD.
After   == {"enqueued", "left", "waited"} \union Waiting
Counted == {"label", "push", "init"} \union After

\* The points that a call does not leave.
Over == {"left", "waited"} \union Stopped

GroupPlaced ==
  \A t \in Tasks : /\ t \in Grouped /\ pc[t] \in Counted => t \in members
                   /\ pc[t] \in After => status[t] # "none"

\* How a client's step moves its call.
LEMMA CallMoves ==
  ASSUME ClientTypeOK, ClientNext
  PROVE  \/ pc' = pc
         \/ \E t \in Tasks, from \in PcValues \ Over, to \in PcValues :
              /\ Goto(t, from, to)
              /\ to \in After => from \in After \/ InitKeys(t)
              /\ to \in Counted => from \in Counted \/ t \notin Grouped \/ JoinGroup(t)
<1> DEFINE Move(t) == \E from \in PcValues \ Over, to \in PcValues :
                        /\ Goto(t, from, to)
                        /\ to \in After => from \in After \/ InitKeys(t)
                        /\ to \in Counted => from \in Counted \/ t \notin Grouped \/ JoinGroup(t)
<1> USE DEF PcValues, Over, Stopped, Waiting, Enqueuing, After, Counted
<1>1. ASSUME NEW t \in Tasks, NEW at \in {"idle"} \union Enqueuing, Goto(t, at, OnError(t, at)) PROVE Move(t)
  <2>1. OnError(t, at) \in {"rollback", "error", "check", "clear", "append"}
    BY DEF OnError
  <2> QED BY <1>1, <2>1
<1>2. ASSUME NEW t \in Tasks, Acquire(t) \/ Reacquire(t) PROVE Move(t)
  <2>1. PICK at \in {"idle", "reacquire"}, next \in {"release", "append", "holder", "refused"} : Ran(t, at, next)
    BY <1>2 DEF Acquire, Reacquire, TryLock, Locked
  <2>2. CASE Goto(t, at, next)
    BY <2>2
  <2> QED BY <1>1, <2>1, <2>2 DEF Ran
<1>3. ASSUME NEW t \in Tasks, ReadHolder(t) \/ CheckHolder(t) \/ ReleaseGate(t) \/ Rollback(t) PROVE Move(t)
  <2>1. PICK from \in {"holder", "check", "release", "rollback"}, to \in {"check", "refused", "clear", "append", "error"} :
          Goto(t, from, to)
    BY <1>3 DEF ReadHolder, CheckHolder, ReleaseGate, Rollback
  <2> QED BY <2>1
<1>4. ASSUME NEW t \in Tasks, ClearStale(t) \/ AppendInstruction(t) \/ JoinGroup(t) \/ SetGroup(t) \/ Push(t)
                              \/ InitKeys(t)
      PROVE  Move(t)
  <2>1. CASE ClearStale(t)
    BY <1>1, <2>1 DEF ClearStale, Ran
  <2>2. CASE AppendInstruction(t)
    <3>1. PICK next \in {"sadd", "push"} : Ran(t, "append", next) /\ (next = "push" => t \notin Grouped)
      BY <2>2 DEF AppendInstruction
    <3> QED BY <1>1, <3>1 DEF Ran
  <2>3. CASE JoinGroup(t)
    BY <1>1, <2>3 DEF JoinGroup, Ran
  <2>4. CASE SetGroup(t) \/ Push(t)
    BY <1>1, <2>4 DEF SetGroup, Push, Ran
  <2>5. CASE InitKeys(t)
    BY <1>1, <2>5 DEF InitKeys, Ran
  <2> QED BY <1>4, <2>1, <2>2, <2>3, <2>4, <2>5
<1>5. ASSUME NEW t \in Tasks, CommandFails(t) PROVE Move(t)
  BY <1>1, <1>5 DEF CommandFails
<1>6. ASSUME NEW t \in Tasks, WaitTask(t) \/ PollTimeout(t) \/ WaitFails(t) \/ WaitCancelled(t) \/ Leave(t)
      PROVE  Move(t)
  <2>1. PICK from \in {"enqueued", "poll", "settle", "unlock"},
              to \in {"poll", "settle", "unlock", "waited", "left", "error"} : Goto(t, from, to)
    BY <1>6 DEF WaitTask, StartWait, PollTerminal, PollTimeout, Settle, WaitUnlock, WaitFails, WaitCancelled, Leave
  <2> QED BY <2>1
<1>7. ASSUME NEW t \in Tasks, ClientDies(t) PROVE Move(t)
  <2>1. PICK at \in Enqueuing \union Waiting : Goto(t, at, "dead")
    BY <1>7 DEF ClientDies
  <2> QED BY <2>1
<1>8. ASSUME \/ \E t \in Tasks : CancelTask(t)
             \/ \E th \in Threads : UnlockThread(th) \/ (LockExpire(th) /\ UNCHANGED clientVars)
      PROVE  pc' = pc
  BY <1>8 DEF CancelTask, UnlockThread, LockExpire, clientVars
<1> HIDE DEF Move
<1>9. pc' = pc \/ \E t \in Tasks : Move(t)
  BY <1>2, <1>3, <1>4, <1>5, <1>6, <1>7, <1>8 DEF ClientNext, Enqueue
<1> QED BY <1>9 DEF Move

\* The same, task by task.
LEMMA CallSteps ==
  ASSUME ClientTypeOK, ClientNext, NEW t \in Tasks, pc'[t] # pc[t]
  PROVE  /\ pc[t] \notin Over
         /\ pc'[t] \in After => pc[t] \in After \/ InitKeys(t)
         /\ pc'[t] \in Counted => pc[t] \in Counted \/ t \notin Grouped \/ JoinGroup(t)
<1>1. PICK u \in Tasks, from \in PcValues \ Over, to \in PcValues :
             /\ Goto(u, from, to)
             /\ to \in After => from \in After \/ InitKeys(u)
             /\ to \in Counted => from \in Counted \/ u \notin Grouped \/ JoinGroup(u)
  BY CallMoves
<1>2. t = u /\ pc[t] = from /\ pc'[t] = to
  BY <1>1 DEF Goto, ClientTypeOK
<1> QED BY <1>1, <1>2

\* A status key does not disappear, and a group loses only a call that failed.
LEMMA GroupFrame ==
  ASSUME TypeInv, ClientNext
  PROVE  /\ status' = status \/ \E t \in Tasks : InitKeys(t)
         /\ \A t \in members \ members' : pc'[t] = "error"
<1> USE DEF TypeInv, TypeOK, KeysTypeOK, ClientTypeOK, lockVars, taskVars, groupVars, listVars, redisVars, clientVars
<1>1. CASE \E t \in Tasks : Rollback(t)
  BY <1>1 DEF Rollback, Goto
<1>2. CASE \E t \in Tasks : JoinGroup(t) \/ InitKeys(t)
  BY <1>2 DEF JoinGroup, InitKeys
<1>3. CASE status' = status /\ members' = members
  BY <1>3
<1> QED BY <1>1, <1>2, <1>3
        DEF ClientNext, Enqueue, CommandFails, Acquire, ReadHolder, CheckHolder, ClearStale, Reacquire, ReleaseGate,
            AppendInstruction, SetGroup, Push, WaitTask, StartWait, PollTerminal, PollTimeout, Settle, WaitUnlock,
            WaitFails, WaitCancelled, Leave, CancelTask, ClientDies, UnlockThread, LockExpire

LEMMA PlacedStep ==
  ASSUME TypeInv, GroupPlaced, [Next]_vars
  PROVE  GroupPlaced'
<1> USE DEF TypeInv, TypeOK, KeysTypeOK, ClientTypeOK
<1>1. CASE UNCHANGED vars
  BY <1>1 DEF GroupPlaced, vars, redisVars, taskVars, groupVars, clientVars
<1>2. CASE ClientNext
  <2>1. SUFFICES ASSUME NEW t \in Tasks
                 PROVE  /\ t \in Grouped /\ pc'[t] \in Counted => t \in members'
                        /\ pc'[t] \in After => status'[t] # "none"
    BY DEF GroupPlaced
  <2>2. ASSUME t \in Grouped, pc'[t] \in Counted PROVE t \in members'
    <3>1. CASE JoinGroup(t)
      BY <3>1 DEF JoinGroup
    <3>2. CASE ~JoinGroup(t)
      <4>1. pc[t] \in Counted
        BY <1>2, <2>2, <3>2, CallSteps
      <4>2. t \in members /\ pc'[t] # "error"
        BY <2>2, <4>1 DEF GroupPlaced, Counted, After, Waiting
      <4> QED BY <1>2, <4>2, GroupFrame
    <3> QED BY <3>1, <3>2
  <2>3. ASSUME pc'[t] \in After PROVE status'[t] # "none"
    <3>1. CASE InitKeys(t)
      BY <3>1 DEF InitKeys
    <3>2. CASE ~InitKeys(t)
      <4>1. pc[t] \in After
        BY <1>2, <2>3, <3>2, CallSteps
      <4>2. status[t] # "none"
        BY <4>1 DEF GroupPlaced
      <4> QED BY <1>2, <4>2, GroupFrame DEF InitKeys
    <3> QED BY <3>1, <3>2
  <2> QED BY <2>2, <2>3
<1>3. CASE WorkerNext /\ UNCHANGED clientVars
  <2>1. pc' = pc /\ members' = members
    BY <1>3 DEF WorkerNext, Take, TakeReplyLost, ProcessOneTask, Register, SetRunning, CheckCancel, StoreCancelled,
                StoreResult, Reply, Unlist, Deregister, CommandDropped, Stop, Restart, WorkerCrash, clientVars,
                groupVars, redisVars
  <2>2. \A t \in Tasks : status[t] # "none" => status'[t] # "none"
    BY <1>3 DEF WorkerNext, Take, TakeReplyLost, ProcessOneTask, Register, SetRunning, CheckCancel, StoreCancelled,
                StoreResult, Reply, Unlist, Deregister, CommandDropped, Stop, Restart, WorkerCrash, taskVars,
                redisVars
  <2> QED BY <2>1, <2>2 DEF GroupPlaced
<1> QED BY <1>1, <1>2, <1>3 DEF Next

-----------------------------------------------------------------------------
(* What GroupWait read. *)

\* Once GroupWait has begun, no call of the group is under way.
CallerIdle == gpc # "idle" => \A t \in Grouped : pc[t] \in {"idle", "enqueued"} \union Over

\* Every task whose enqueue succeeded is among the members it read.
MembersRead ==
  gpc \in {"poll", "timeout"} \union Verdicts =>
    /\ gids \subseteq Tasks /\ gids # {}
    /\ \A t \in Grouped : pc[t] \in After => t \in gids

\* A verdict is that of its last poll, which read the outcomes.
VerdictKept ==
  gpc \in Verdicts =>
    /\ gpc = Aggregate(reported) /\ DOMAIN reported = gids
    /\ \A t \in gids \intersect Grouped :
         pc[t] \in After => reported[t] = result[t] /\ result[t] \in Outcomes

GroupWaitInv == TypeInv /\ OnceInv /\ OutcomeOnce /\ GroupPlaced /\ CallerIdle /\ MembersRead /\ VerdictKept

LEMMA GroupWaitInvInit == GroupWaitInit => GroupWaitInv
<1> SUFFICES ASSUME GroupWaitInit PROVE GroupWaitInv
  OBVIOUS
<1>1. TypeInv /\ OnceInv
  BY TypeInit, OnceInit DEF GroupWaitInit
<1>2. OutcomeOnce /\ GroupPlaced
  BY DEF GroupWaitInit, Init, KeysInit, ClientInit, WorkerInit, OutcomeOnce, GroupPlaced, Working, Counted, After,
         Waiting, Terminal, Outcomes
<1>3. CallerIdle /\ MembersRead /\ VerdictKept
  BY DEF GroupWaitInit, GroupInit, CallerIdle, MembersRead, VerdictKept, Verdicts
<1> QED BY <1>1, <1>2, <1>3 DEF GroupWaitInv

\* The queue's own step: the calls of the group stay where they are, or the
\* orchestrator leaves a task.
LEMMA QueueKeepsVerdict ==
  ASSUME "parallelCalls" \notin Env, GroupWaitInv, [Next]_vars, CallerWaits, UNCHANGED groupWaitVars
  PROVE  GroupWaitInv'
<1> USE DEF GroupWaitInv, TypeInv, TypeOK, ClientTypeOK, groupWaitVars
<1>1. TypeInv' /\ OnceInv' /\ OutcomeOnce' /\ GroupPlaced' /\ OutcomesStay
  BY TypeStep, OnceStep, OutcomeStep, PlacedStep
<1>2. ASSUME gpc # "idle", NEW t \in Grouped
      PROVE  /\ pc'[t] \in {"idle", "enqueued"} \union Over
             /\ pc'[t] \in After => pc[t] \in After
  <2>1. t \in Tasks /\ pc[t] \in {"idle", "enqueued"} \union Over
    BY <1>2 DEF CallerIdle
  <2>2. CASE pc'[t] = pc[t]
    BY <2>1, <2>2
  <2>3. CASE pc'[t] # pc[t]
    <3>1. ClientNext
      BY <2>3 DEF Next, vars, clientVars
    <3>2. pc[t] \notin Over
      BY <2>1, <2>3, <3>1, CallSteps
    <3>3. pc[t] = "enqueued" /\ pc'[t] = "left"
      BY <1>2, <2>1, <2>3, <3>2 DEF CallerWaits
    <3> QED BY <3>3 DEF Over, After
  <2> QED BY <2>2, <2>3
<1>3. CallerIdle'
  BY <1>2 DEF CallerIdle
<1>4. MembersRead'
  BY <1>2 DEF MembersRead, Verdicts
<1>5. ASSUME gpc \in Verdicts
      PROVE  /\ gpc = Aggregate(reported) /\ DOMAIN reported = gids
             /\ \A t \in gids \intersect Grouped :
                  pc'[t] \in After => reported[t] = result'[t] /\ result'[t] \in Outcomes
  <2>1. gpc # "idle" /\ gpc = Aggregate(reported) /\ DOMAIN reported = gids
    BY <1>5 DEF Verdicts, VerdictKept
  <2>2. ASSUME NEW t \in gids \intersect Grouped, pc'[t] \in After
        PROVE  reported[t] = result'[t] /\ result'[t] \in Outcomes
    <3>1. reported[t] = result[t] /\ result[t] \in Outcomes
      BY <1>2, <1>5, <2>1, <2>2 DEF VerdictKept
    <3>2. result[t] # "none" /\ t \in Tasks
      BY <3>1 DEF Outcomes
    <3> QED BY <1>1, <3>1, <3>2 DEF OutcomesStay
  <2> QED BY <2>1, <2>2
<1>6. VerdictKept'
  BY <1>5 DEF VerdictKept, Aggregate
<1> QED BY <1>1, <1>3, <1>4, <1>6

\* A step of GroupWait: the last poll finds every status terminal, and a
\* terminal status is the outcome that was stored.
LEMMA GroupWaitKeepsVerdict ==
  ASSUME GroupWaitInv, GroupWaitStep
  PROVE  GroupWaitInv'
<1> USE DEF GroupWaitInv
<1>1. /\ UNCHANGED <<lockVars, taskVars, groupVars, listVars, messages, clientVars, workerVars>>
      /\ faults' = faults \/ faults' = faults + 1
  BY DEF GroupWaitStep, Start, Poll, GroupCommandFails, Deadline, Fault, vars, redisVars
<1>2. /\ UNCHANGED <<pc, status, result, members>>
      /\ TypeInv' /\ OnceInv' /\ OutcomeOnce' /\ GroupPlaced'
  <2> USE <1>1 DEF lockVars, taskVars, groupVars, listVars, clientVars, workerVars
  <2>1. TypeInv'
    BY DEF TypeInv, TypeOK, KeysTypeOK, ClientTypeOK, WorkerTypeOK, HandFull, WaitKnows
  <2>2. OnceInv'
    BY DEF OnceInv, QueuesDistinct, OnePlace, HandOwn, HandFresh, AtMostOnce, Untaken, Held, InQueue
  <2>3. OutcomeOnce' /\ GroupPlaced'
    BY DEF OutcomeOnce, GroupPlaced, InQueue
  <2> QED BY <2>1, <2>2, <2>3
<1> USE <1>2
<1>3. CASE Start
  <2>1. CallerIdle'
    BY <1>3 DEF Start, FannedOut, CallerIdle, Over
  <2>2. MembersRead'
    <3>1. members \subseteq Tasks /\ \A t \in Grouped : pc[t] \in After => t \in members
      BY DEF GroupPlaced, Counted, TypeInv, TypeOK, KeysTypeOK, KeysAssumption
    <3>2. gids' = members /\ (members = {} => gpc' = "fail")
      BY <1>3 DEF Start
    <3> QED BY <3>1, <3>2 DEF MembersRead, Verdicts
  <2>3. VerdictKept'
    BY <1>3 DEF Start, VerdictKept, Verdicts
  <2> QED BY <2>1, <2>2, <2>3
<1>4. CASE Poll
  <2>1. CallerIdle' /\ MembersRead'
    BY <1>4 DEF Poll, CallerIdle, MembersRead
  <2>2. /\ gids' = gids /\ reported' = [t \in gids |-> status[t]]
        /\ gpc' \in Verdicts => gpc' = Aggregate(reported') /\ \A t \in gids : ~UnderWay(status[t])
    BY <1>4 DEF Poll, Verdicts
  <2>3. ASSUME gpc' \in Verdicts, NEW t \in gids \intersect Grouped, pc[t] \in After
        PROVE  reported'[t] = result[t] /\ result[t] \in Outcomes
    <3>1. t \in Tasks /\ status[t] # "none"
      BY <2>3 DEF GroupPlaced, KeysAssumption
    <3>2. status[t] \in Outcomes
      BY <2>2, <2>3, <3>1 DEF UnderWay, TypeInv, TypeOK, KeysTypeOK, TaskStatus
    <3>3. result[t] = status[t]
      BY <3>1, <3>2 DEF OutcomeOnce, Terminal
    <3> QED BY <2>2, <2>3, <3>2, <3>3
  <2>4. VerdictKept'
    BY <2>2, <2>3 DEF VerdictKept, Aggregate
  <2> QED BY <2>1, <2>4
<1>5. CASE GroupCommandFails
  <2>1. CallerIdle'
    BY <1>5 DEF GroupCommandFails, FannedOut, CallerIdle, Over
  <2>2. MembersRead' /\ VerdictKept'
    BY <1>5 DEF GroupCommandFails, MembersRead, VerdictKept, Verdicts
  <2> QED BY <2>1, <2>2
<1>6. CASE Deadline
  BY <1>6 DEF Deadline, CallerIdle, MembersRead, VerdictKept, Verdicts
<1> QED BY <1>3, <1>4, <1>5, <1>6 DEF GroupWaitStep

LEMMA GroupWaitInvStep ==
  ASSUME "parallelCalls" \notin Env, GroupWaitInv, [GroupWaitNext]_groupAllVars
  PROVE  GroupWaitInv'
<1>1. CASE UNCHANGED groupAllVars
  <2>1. UNCHANGED vars /\ UNCHANGED groupWaitVars
    BY <1>1 DEF groupAllVars
  <2>2. CallerWaits
    BY <2>1 DEF CallerWaits, vars, clientVars
  <2> QED BY <2>1, <2>2, QueueKeepsVerdict
<1>2. CASE QueueStep
  BY <1>2, QueueKeepsVerdict DEF QueueStep
<1>3. CASE GroupWaitStep
  BY <1>3, GroupWaitKeepsVerdict
<1> QED BY <1>1, <1>2, <1>3 DEF GroupWaitNext

LEMMA VerdictFinalHolds ==
  ASSUME GroupWaitInv
  PROVE  VerdictFinal
<1> SUFFICES ASSUME gpc \in Verdicts PROVE VerdictFinal
  BY DEF VerdictFinal
<1> DEFINE group == {t \in Grouped : Pushed(t) /\ pc[t] # "init"}
           stored(outcome) == \E t \in group : result[t] = outcome
<1>1. \A t \in group : t \in Grouped /\ pc[t] \in After
  BY DEF Pushed, After
<1>2. /\ gids # {} /\ \A t \in Grouped : pc[t] \in After => t \in gids
      /\ gpc = Aggregate(reported) /\ DOMAIN reported = gids
      /\ \A t \in gids \intersect Grouped : pc[t] \in After => reported[t] = result[t] /\ result[t] \in Outcomes
  BY DEF GroupWaitInv, MembersRead, VerdictKept
<1>3. \A t \in group : t \in gids /\ reported[t] = result[t] /\ result[t] \in Outcomes
  BY <1>1, <1>2
<1>4. ASSUME gids \subseteq group
      PROVE  /\ (gpc = "error") <=> stored("failed")
             /\ (gpc = "cancelled") <=> ~stored("failed") /\ ~stored("done")
  <2> HIDE DEF group
  <2>1. gids = group
    BY <1>3, <1>4
  <2>2. \E t \in gids : reported[t] \in Outcomes
    BY <1>2, <1>3, <2>1
  <2> QED BY <1>2, <1>3, <2>1, <2>2 DEF Aggregate, Outcomes
<1> QED BY <1>3, <1>4 DEF VerdictFinal

\* Whatever the workers, the operator's locks and the connection do: when
\* GroupWait has returned a verdict, every task of the group whose enqueue
\* succeeded had its outcome, and the verdict is that of the outcomes, for good.
\* The orchestrator makes one call at a time on the thread.
THEOREM VerdictIsFinal ==
  ASSUME "parallelCalls" \notin Env
  PROVE  GroupWaitSpec => []VerdictFinal
<1>1. GroupWaitInv /\ [GroupWaitNext]_groupAllVars => GroupWaitInv'
  BY GroupWaitInvStep
<1>2. GroupWaitInv => VerdictFinal
  BY VerdictFinalHolds
<1> QED BY GroupWaitInvInit, <1>1, <1>2, PTL DEF GroupWaitSpec

=============================================================================
