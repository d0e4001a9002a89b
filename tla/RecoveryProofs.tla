---------------------------- MODULE RecoveryProofs ----------------------------
(***************************************************************************)
(* RequeueStale loses no payload and no cancel flag.  One fault may happen *)
(* anywhere: a worker crash, a lost reply, a failed command, a client or   *)
(* the operator who dies; the operator may also stop and repeat the        *)
(* command at will, and run it on tasks that a worker still holds.         *)
(***************************************************************************)
EXTENDS TaskRecovery, TaskQueueProofs

USE KeysAssumption, RecoveryAssumption DEF EnvEvents

-----------------------------------------------------------------------------
(* Types. *)

\* RequeueStale is at an entry of the list when it works on one.
ItemTyped ==
  /\ items \in [Tasks -> Nat]
  /\ item \in Tasks \union {NoTask}
  /\ rpc \in {"gc", "push", "remove", "reset", "count"} => item \in Tasks

RecoveryType == TypeInv /\ ItemTyped

LEMMA ItemsStay ==
  ASSUME TypeInv, ItemTyped, RequeueStale
  PROVE  ItemTyped'
<1> USE DEF ItemTyped, At
<1>1. CASE \E w \in Workers : Scan(w)
  BY <1>1 DEF Scan, TypeInv, TypeOK, KeysTypeOK
<1>2. CASE \E t \in Tasks : Visit(t) \/ VisitBlind(t)
  BY <1>2 DEF Visit, VisitBlind
<1>3. CASE EndScan \/ CollectGarbage \/ PushBack \/ Remove \/ Reset \/ CountRetry \/ RequeueDropped \/ OperatorDies
  BY <1>3 DEF EndScan, CollectGarbage, PushBack, Remove, Reset, CountRetry, RequeueDropped, OperatorDies
<1> QED BY <1>1, <1>2, <1>3 DEF RequeueStale

\* RequeueStale writes task keys of the declared types, and clears no status.
LEMMA RequeueTypes ==
  ASSUME TypeInv, ItemTyped, RequeueStale
  PROVE  TypeInv'
<1> USE DEF TypeInv, TypeOK, ItemTyped, At, KeysTypeOK, ClientTypeOK, WorkerTypeOK, HandFull, WaitKnows,
            vars, redisVars, lockVars, taskVars, groupVars, listVars, clientVars, workerVars
<1>1. CASE CollectGarbage \/ Remove
  <2>1. processing' \in [Tasks -> Nat]
    <3>1. processing' = [processing EXCEPT ![item] = 0]
      BY <1>1 DEF CollectGarbage, Remove, RemoveFromProcessing
    <3> QED BY <3>1
  <2> QED BY <1>1, <2>1 DEF CollectGarbage, Remove
<1>2. CASE PushBack
  <2>1. queue' \in [Workers -> Seq(Tasks)]
    BY <1>2, PushQueueAdds DEF PushBack
  <2> QED BY <1>2, <2>1 DEF PushBack
<1>3. CASE Reset
  <2>1. status' \in [Tasks -> TaskStatus] /\ \A t \in Tasks : status[t] # "none" => status'[t] # "none"
    BY <1>3 DEF Reset, TaskStatus
  <2> QED BY <1>3, <2>1 DEF Reset
<1>4. CASE UNCHANGED <<lockVars, taskVars, groupVars, listVars, messages, clientVars, workerVars>> /\ faults' \in Nat
  BY <1>4
<1>5. CASE \E w \in Workers : Scan(w)
  BY <1>4, <1>5 DEF Scan
<1>6. CASE \E t \in Tasks : Visit(t) \/ VisitBlind(t)
  <2>1. faults' \in Nat
    BY <1>6 DEF Visit, VisitBlind, Fault
  <2> QED BY <1>4, <1>6, <2>1 DEF Visit, VisitBlind
<1>7. CASE EndScan \/ CountRetry \/ RequeueDropped \/ OperatorDies
  <2>1. faults' \in Nat
    BY <1>7 DEF EndScan, CountRetry, RequeueDropped, OperatorDies, Fault
  <2> QED BY <1>4, <1>7, <2>1 DEF EndScan, CountRetry, RequeueDropped, OperatorDies
<1> QED BY <1>1, <1>2, <1>3, <1>5, <1>6, <1>7 DEF RequeueStale

LEMMA RecoveryTypeStays ==
  ASSUME RecoveryType, [RecoveryNext]_allVars
  PROVE  RecoveryType'
<1> USE DEF RecoveryType
<1>1. CASE RequeueStale
  BY <1>1, ItemsStay, RequeueTypes
<1>2. CASE [Next]_vars /\ UNCHANGED requeueVars
  BY <1>2, TypeStep DEF ItemTyped, requeueVars
<1> QED BY <1>1, <1>2 DEF RecoveryNext, allVars

-----------------------------------------------------------------------------
(* Where a payload can be. *)

QueuesOwn == \A w \in Workers : \A i \in DOMAIN queue[w] : WorkerOf[queue[w][i]] = w

\* A status that reads as finished, and a worker that is done with its task,
\* have the outcome behind them.
OutcomeStored ==
  /\ \A t \in Tasks : Terminal(status[t]) => result[t] # "none"
  /\ \A w \in Workers : wpc[w] \in {"stored", "cancelled", "replied", "unlisted"} => result[hand[w]] # "none"
  /\ rpc = "gc" => result[item] # "none"

\* RequeueStale has an entry of t before it.
Scheduled(t) == processing[t] > 0 \/ items[t] > 0 \/ (item = t /\ rpc \in {"gc", "push", "remove"})

\* Before the first fault, what is listed without an outcome is being worked on,
\* so that its worker takes nothing else, and
NoStray == faults = 0 => \A t \in Tasks : result[t] = "none" /\ Scheduled(t) => Held(t)

\* what is being worked on has its payload in a list.
HeldListed == faults = 0 => \A t \in Tasks : result[t] = "none" /\ Held(t) => processing[t] > 0 \/ InQueue(t)

\* An entry is removed only when the payload is back in the queue, or a worker
\* that cannot crash any more has taken it.
BackInQueue == rpc = "remove" /\ result[item] = "none" => InQueue(item) \/ (faults > 0 /\ Held(item))

RecoveryInv == QueuesOwn /\ HandOwn /\ OutcomeStored /\ NoStray /\ HeldListed /\ BackInQueue /\ NothingLost

LEMMA RecoveryInvInit == RecoveryInit => RecoveryType /\ RecoveryInv
<1> SUFFICES ASSUME RecoveryInit PROVE RecoveryType /\ RecoveryInv
  OBVIOUS
<1>1. RecoveryType
  BY TypeInit DEF RecoveryInit, RequeueInit, RecoveryType, ItemTyped
<1>2. /\ processing = [t \in Tasks |-> 0] /\ queue = [w \in Workers |-> << >>] /\ status = [t \in Tasks |-> "none"]
      /\ wpc = [w \in Workers |-> "idle"] /\ hand = [w \in Workers |-> NoTask] /\ pc = [t \in Tasks |-> "idle"]
      /\ rpc = "idle" /\ items = [t \in Tasks |-> 0] /\ item = NoTask
  BY DEF RecoveryInit, RequeueInit, Init, KeysInit, ClientInit, WorkerInit
<1>3. \A t \in Tasks : ~Held(t) /\ ~Pushed(t) /\ ~Scheduled(t)
  BY <1>2 DEF Held, Pushed, Scheduled, Waiting
<1>4. QueuesOwn
  BY <1>2, EmptySeq DEF QueuesOwn
<1> QED BY <1>1, <1>2, <1>3, <1>4
        DEF RecoveryInv, HandOwn, OutcomeStored, NoStray, HeldListed, BackInQueue, NothingLost, Terminal, Outcomes

\* LPUSH and BLMOVE on queues that may hold a payload twice.
LEMMA PushOwn ==
  ASSUME queue \in [Workers -> Seq(Tasks)], QueuesOwn, NEW t \in Tasks, PushQueue(t)
  PROVE  QueuesOwn'
<1> SUFFICES ASSUME NEW w \in Workers, NEW i \in DOMAIN queue'[w] PROVE WorkerOf[queue'[w][i]] = w
  BY DEF QueuesOwn
<1> DEFINE q == queue[WorkerOf[t]]
<1>1. q \in Seq(Tasks) /\ DOMAIN q = 1 .. Len(q) /\ Len(q) \in Nat
  BY LenProperties
<1>2. /\ queue' = [queue EXCEPT ![WorkerOf[t]] = Append(q, t)]
      /\ DOMAIN Append(q, t) = 1 .. Len(q) + 1
      /\ \A k \in 1 .. Len(q) : Append(q, t)[k] = q[k]
      /\ Append(q, t)[Len(q) + 1] = t
  BY <1>1, AppendProperties, LenProperties DEF PushQueue
<1>3. CASE w = WorkerOf[t]
  <2>1. i \in 1 .. Len(q) + 1 /\ queue'[w] = Append(q, t)
    BY <1>2, <1>3
  <2>2. \A k \in 1 .. Len(q) : WorkerOf[q[k]] = w
    BY <1>1, <1>3 DEF QueuesOwn
  <2> HIDE DEF q
  <2> QED BY <1>1, <1>2, <1>3, <2>1, <2>2
<1>4. CASE w # WorkerOf[t]
  BY <1>2, <1>4 DEF QueuesOwn
<1> QED BY <1>3, <1>4

LEMMA MoveOwn ==
  ASSUME queue \in [Workers -> Seq(Tasks)], QueuesOwn, NEW w \in Workers, MoveToProcessing(w)
  PROVE  QueuesOwn' /\ WorkerOf[Head(queue[w])] = w
<1> DEFINE q == queue[w]
<1>1. /\ q \in Seq(Tasks) /\ q # << >> /\ DOMAIN q = 1 .. Len(q)
      /\ Len(q) \in Nat /\ Len(q) > 0 /\ Head(q) = q[1]
  BY LenProperties, EmptySeq DEF MoveToProcessing
<1>2. /\ queue' = [queue EXCEPT ![w] = Tail(q)]
      /\ DOMAIN Tail(q) = 1 .. Len(q) - 1
      /\ \A i \in 1 .. Len(q) - 1 : Tail(q)[i] = q[i + 1]
  BY <1>1, HeadTailProperties, LenProperties DEF MoveToProcessing
<1>3. \A i \in 1 .. Len(q) : WorkerOf[q[i]] = w
  BY <1>1 DEF QueuesOwn
<1>4. WorkerOf[Head(q)] = w
  <2>1. 1 \in 1 .. Len(q)
    BY <1>1
  <2> QED BY <1>1, <1>3, <2>1
<1>5. ASSUME NEW v \in Workers, NEW i \in DOMAIN queue'[v] PROVE WorkerOf[queue'[v][i]] = v
  <2>1. CASE v = w
    <3>1. i \in 1 .. Len(q) - 1 /\ queue'[v] = Tail(q)
      BY <1>2, <1>5, <2>1
    <3>2. i + 1 \in 1 .. Len(q)
      BY <1>1, <3>1
    <3> HIDE DEF q
    <3> QED BY <1>2, <1>3, <2>1, <3>1, <3>2
  <2>2. CASE v # w
    BY <1>2, <1>5, <2>2 DEF QueuesOwn
  <2> QED BY <2>1, <2>2
<1> QED BY <1>4, <1>5 DEF QueuesOwn

\* The program points of a worker that has stored the outcome.
Finished == {"stored", "cancelled", "replied", "unlisted"}

\* A step that moves no payload, changes no hand and stores no outcome.
LEMMA IdleStep ==
  ASSUME RecoveryType, RecoveryInv, UNCHANGED <<queue, processing, result, hand, requeueVars>>,
         faults' \in {faults, faults + 1},
         \A t \in Tasks : (Terminal(status'[t]) => Terminal(status[t])) /\ (Pushed(t)' => Pushed(t)),
         \A w \in Workers : /\ wpc'[w] \in Finished => wpc[w] \in Finished
                            /\ wpc'[w] \in {"idle", "stopped"} => wpc[w] \in {"idle", "stopped"}
  PROVE  RecoveryInv'
<1> USE DEF RecoveryType, TypeInv, TypeOK, KeysTypeOK, RecoveryInv, requeueVars
<1>1. (faults' = 0 => faults = 0) /\ (faults > 0 => faults' > 0)
  OBVIOUS
<1>2. \A t \in Tasks \union {NoTask} : Held(t)' <=> Held(t)
  BY DEF Held
<1>3. \A t \in Tasks : (InQueue(t)' <=> InQueue(t)) /\ (Scheduled(t)' <=> Scheduled(t))
  BY DEF InQueue, Scheduled
<1>4. QueuesOwn' /\ HandOwn'
  BY DEF QueuesOwn, HandOwn
<1>5. OutcomeStored'
  BY DEF OutcomeStored, Finished
<1>6. NoStray' /\ HeldListed'
  BY <1>1, <1>2, <1>3 DEF NoStray, HeldListed
<1>7. BackInQueue'
  <2>1. (rpc = "remove" => item \in Tasks) /\ UNCHANGED <<rpc, item, result>>
    BY DEF ItemTyped
  <2> QED BY <1>1, <1>2, <1>3, <2>1 DEF BackInQueue
<1>8. NothingLost'
  BY <1>2, <1>3 DEF NothingLost, InFlight
<1> QED BY <1>4, <1>5, <1>6, <1>7, <1>8

\* The clients only push.
LEMMA RecoveryClient ==
  ASSUME RecoveryType, RecoveryInv, ClientNext, UNCHANGED <<workerVars, requeueVars>>
  PROVE  RecoveryInv'
<1> USE DEF RecoveryType, TypeInv, TypeOK, KeysTypeOK
<1>1. /\ queue' = queue \/ \E t \in Tasks : Push(t)
      /\ processing' = processing /\ result' = result
  BY ClientFrame
<1>2. \A t \in Tasks : Terminal(status'[t]) => Terminal(status[t])
  <2>1. status' = status \/ \E t \in Tasks : InitKeys(t)
    BY DEF ClientNext, Enqueue, CommandFails, Acquire, ReadHolder, CheckHolder, ClearStale, Reacquire, ReleaseGate,
           AppendInstruction, JoinGroup, SetGroup, Push, Rollback, WaitTask, StartWait, PollTerminal,
           PollTimeout, Settle, WaitUnlock, WaitFails, WaitCancelled, Leave, CancelTask, ClientDies, UnlockThread,
           LockExpire, taskVars, redisVars
  <2> QED BY <2>1 DEF InitKeys, Terminal, Outcomes
<1>3. faults' \in {faults, faults + 1}
  BY DEF ClientNext, Enqueue, CommandFails, Acquire, ReadHolder, CheckHolder, ClearStale, Reacquire, ReleaseGate,
         AppendInstruction, JoinGroup, SetGroup, Push, InitKeys, Rollback, WaitTask, StartWait, PollTerminal,
         PollTimeout, Settle, WaitUnlock, WaitFails, WaitCancelled, Leave, CancelTask, ClientDies, UnlockThread,
         LockExpire, TryLock, Ran, Fault, redisVars
<1>4. CASE queue' = queue
  <2>1. \A t \in Tasks : Pushed(t)' => Pushed(t)
    BY <1>4, PushedByPush
  <2> QED BY <1>1, <1>2, <1>3, <1>4, <2>1, IdleStep DEF workerVars
<1>5. ASSUME NEW p \in Tasks, Push(p) PROVE RecoveryInv'
  <2> USE DEF RecoveryInv, workerVars, requeueVars
  <2>1. PushQueue(p) /\ UNCHANGED <<processing, result, hand, wpc, status, rpc, items, item>>
    BY <1>5, <1>1 DEF Push, taskVars
  <2>2. \A t \in Tasks : InQueue(t)' <=> InQueue(t) \/ t = p
    BY <2>1, PushQueueAdds
  <2>3. \A t \in Tasks : (Held(t)' <=> Held(t)) /\ (Scheduled(t)' <=> Scheduled(t))
    BY <2>1 DEF Held, Scheduled
  <2>4. (faults' = 0 => faults = 0) /\ (faults > 0 => faults' > 0)
    BY <1>3
  <2>5. QueuesOwn'
    BY <2>1, PushOwn
  <2>6. HandOwn' /\ OutcomeStored'
    BY <2>1 DEF HandOwn, OutcomeStored
  <2>7. NoStray' /\ HeldListed'
    BY <2>1, <2>2, <2>3, <2>4 DEF NoStray, HeldListed
  <2>8. BackInQueue'
    <3>1. rpc = "remove" => item \in Tasks
      BY DEF ItemTyped
    <3> QED BY <2>1, <2>2, <2>3, <2>4, <3>1 DEF BackInQueue
  <2>9. \A t \in Tasks \ {p} : Pushed(t)' => Pushed(t)
    BY <1>5 DEF Push, Ran, Goto, Pushed, ClientTypeOK
  <2>10. NothingLost'
    BY <2>1, <2>2, <2>3, <2>9 DEF NothingLost, InFlight
  <2> QED BY <2>5, <2>6, <2>7, <2>8, <2>10
<1> QED BY <1>1, <1>4, <1>5

\* A worker takes what nobody works on, stores the outcome before it takes the
\* payload off its list, and may crash once.
LEMMA RecoveryWorker ==
  ASSUME "workerError" \notin Env, MaxFaults <= 1,
         RecoveryType, RecoveryInv, WorkerNext, UNCHANGED <<clientVars, requeueVars>>
  PROVE  RecoveryInv'
<1> USE DEF RecoveryType, TypeInv, TypeOK, KeysTypeOK, WorkerTypeOK, RecoveryInv, clientVars, requeueVars,
            lockVars, taskVars, groupVars, listVars, redisVars, workerVars
<1>1. PICK w \in Workers : \/ Take(w) \/ TakeReplyLost(w) \/ ProcessOneTask(w) \/ CommandDropped(w)
                           \/ Stop(w) \/ Restart(w) \/ WorkerCrash(w)
  BY DEF WorkerNext
<1>p. \A t \in Tasks : Pushed(t)' <=> Pushed(t)
  BY DEF Pushed
<1>k. rpc = "remove" => item \in Tasks
  BY DEF ItemTyped
<1>2. CASE Take(w) \/ TakeReplyLost(w)
  <2> PICK h \in Tasks : h = Head(queue[w])
    BY <1>2, MoveTakes DEF Take, TakeReplyLost
  <2>1. MoveToProcessing(w) /\ wpc[w] = "idle" /\ hand[w] = NoTask /\ UNCHANGED <<result, status, rpc, items, item>>
    BY <1>2 DEF Take, TakeReplyLost, Step, HandOwn
  <2>2. /\ h \in Tasks /\ WorkerOf[h] = w /\ QueuesOwn'
        /\ processing' = [processing EXCEPT ![h] = @ + 1]
        /\ \A t \in Tasks : InQueue(t)' => InQueue(t)
        /\ \A t \in Tasks \ {h} : InQueue(t) => InQueue(t)'
    BY <2>1, MoveTakes, MoveOwn
  <2>h. InQueue(h)
    <3>1. queue[w] \in Seq(Tasks) /\ queue[w] # << >>
      BY <2>1 DEF MoveToProcessing
    <3>2. Head(queue[w]) = queue[w][1] /\ 1 \in DOMAIN queue[w]
      BY <3>1, LenProperties, EmptySeq
    <3> QED BY <2>2, <3>2 DEF InQueue
  <2>3. ~Held(h)
    BY <2>1, <2>2 DEF Held, HandOwn
  <2>4. \/ /\ hand' = [hand EXCEPT ![w] = h] /\ wpc' = [wpc EXCEPT ![w] = "taken"] /\ faults' = faults
        \/ UNCHANGED <<hand, wpc>> /\ faults' > 0
    BY <1>2 DEF Take, TakeReplyLost, Step, Fault
  <2>5. HandOwn'
    BY <2>2, <2>4 DEF HandOwn
  <2>6. OutcomeStored'
    BY <2>1, <2>4 DEF OutcomeStored
  <2>7. \A t \in Tasks : (Held(t) => Held(t)') /\ (t # h => (Held(t)' => Held(t)))
    BY <2>1, <2>4 DEF Held
  <2>8. \A t \in Tasks : t # h => (Scheduled(t)' <=> Scheduled(t))
    BY <2>1, <2>2 DEF Scheduled
  <2>9. faults' = 0 => faults = 0 /\ Held(h)'
    <3> SUFFICES ASSUME faults' = 0 PROVE faults = 0 /\ Held(h)'
      OBVIOUS
    <3>1. hand' = [hand EXCEPT ![w] = h] /\ faults' = faults
      BY <2>4
    <3>2. hand'[w] = h
      BY <3>1
    <3> QED BY <3>1, <3>2 DEF Held
  <2>10. NoStray'
    <3> SUFFICES ASSUME faults' = 0, NEW t \in Tasks, result'[t] = "none", Scheduled(t)' PROVE Held(t)'
      BY DEF NoStray
    <3>1. CASE t = h
      BY <2>9, <3>1
    <3>2. CASE t # h
      BY <2>1, <2>7, <2>8, <2>9, <3>2 DEF NoStray
    <3> QED BY <3>1, <3>2
  <2>11. processing'[h] > 0 /\ \A t \in Tasks \ {h} : processing'[t] = processing[t]
    BY <2>2
  <2>12. HeldListed'
    BY <2>1, <2>2, <2>7, <2>9, <2>11 DEF HeldListed
  <2>13. BackInQueue'
    <3>1. CASE item # h
      BY <1>k, <2>1, <2>2, <2>4, <2>7, <3>1 DEF BackInQueue
    <3>2. CASE item = h /\ rpc = "remove" /\ result[h] = "none"
      <4>1. faults > 0
        <5>1. Scheduled(h)
          BY <3>2 DEF Scheduled
        <5>2. faults # 0
          BY <2>2, <2>3, <3>2, <5>1 DEF NoStray
        <5> QED BY <5>2
      <4>2. ~Fault("lostReply")
        BY <4>1 DEF Fault
      <4>3. hand' = [hand EXCEPT ![w] = h] /\ faults' = faults
        BY <1>2, <4>2 DEF Take, TakeReplyLost
      <4> QED BY <2>1, <3>2, <4>1, <4>3 DEF BackInQueue, Held
    <3> QED BY <2>1, <3>1, <3>2 DEF BackInQueue
  <2>14. NothingLost'
    BY <1>p, <2>1, <2>2, <2>7, <2>11 DEF NothingLost, InFlight
  <2> QED BY <2>2, <2>5, <2>6, <2>10, <2>12, <2>13, <2>14
<1>3. CASE StoreCancelled(w) \/ StoreResult(w)
  <2>1. /\ hand[w] \in Tasks /\ UNCHANGED <<queue, processing, hand, faults>>
        /\ \E to \in {"cancelled", "stored"} : wpc' = [wpc EXCEPT ![w] = to]
        /\ \E o \in Outcomes : /\ status' = [status EXCEPT ![hand[w]] = o]
                               /\ result' = [result EXCEPT ![hand[w]] = o]
    BY <1>3 DEF StoreCancelled, StoreResult, Step, HandFull, Outcomes
  <2>2. /\ result'[hand[w]] # "none" /\ \A t \in Tasks \ {hand[w]} : result'[t] = result[t]
        /\ \A t \in Tasks \ {hand[w]} : status'[t] = status[t]
    BY <2>1 DEF Outcomes
  <2>3. \A t \in Tasks : /\ InQueue(t)' <=> InQueue(t)
                         /\ Held(t)' <=> Held(t)
                         /\ Scheduled(t)' <=> Scheduled(t)
    BY <2>1 DEF InQueue, Held, Scheduled
  <2>4. QueuesOwn' /\ HandOwn'
    BY <2>1 DEF QueuesOwn, HandOwn
  <2>5. OutcomeStored'
    <3>1. rpc = "gc" => item \in Tasks
      BY DEF ItemTyped
    <3>2. \A v \in Workers : wpc[v] \in Finished => hand[v] \in Tasks
      BY DEF HandFull, Finished
    <3> QED BY <2>1, <2>2, <3>1, <3>2 DEF OutcomeStored, Finished
  <2>6. NoStray' /\ HeldListed' /\ BackInQueue' /\ NothingLost'
    BY <1>p, <1>k, <2>1, <2>2, <2>3 DEF NoStray, HeldListed, BackInQueue, NothingLost, InFlight
  <2> QED BY <2>4, <2>5, <2>6
<1>4. CASE Unlist(w)
  <2>1. /\ wpc[w] = "replied" /\ hand[w] \in Tasks /\ result[hand[w]] # "none"
        /\ wpc' = [wpc EXCEPT ![w] = "unlisted"] /\ UNCHANGED <<queue, hand, result, status, faults>>
        /\ processing' = [processing EXCEPT ![hand[w]] = 0]
    BY <1>4 DEF Unlist, Step, HandFull, OutcomeStored, RemoveFromProcessing
  <2>2. \A t \in Tasks : /\ InQueue(t)' <=> InQueue(t)
                         /\ Held(t)' <=> Held(t)
                         /\ result[t] = "none" => processing'[t] = processing[t]
                         /\ result[t] = "none" => (Scheduled(t)' <=> Scheduled(t))
    BY <2>1 DEF InQueue, Held, Scheduled
  <2>3. QueuesOwn' /\ HandOwn' /\ OutcomeStored'
    BY <2>1 DEF QueuesOwn, HandOwn, OutcomeStored
  <2>4. NoStray' /\ HeldListed' /\ BackInQueue' /\ NothingLost'
    BY <1>p, <1>k, <2>1, <2>2 DEF NoStray, HeldListed, BackInQueue, NothingLost, InFlight
  <2> QED BY <2>3, <2>4
\* The hand is emptied after the outcome, or by the only fault.
<1>5. CASE Deregister(w) \/ WorkerCrash(w)
  <2>1. /\ hand[w] \in Tasks /\ hand' = [hand EXCEPT ![w] = NoTask] /\ wpc' = [wpc EXCEPT ![w] = "idle"]
        /\ UNCHANGED <<queue, processing, result, status>>
        /\ \/ faults' = faults /\ result[hand[w]] # "none"
           \/ faults = 0 /\ faults' > 0
    BY <1>5 DEF Deregister, WorkerCrash, Step, HandFull, OutcomeStored, Fault
  <2>2. \A t \in Tasks : /\ InQueue(t)' <=> InQueue(t)
                         /\ Scheduled(t)' <=> Scheduled(t)
                         /\ Held(t)' => Held(t)
                         /\ t # hand[w] => (Held(t) => Held(t)')
    BY <2>1 DEF InQueue, Held, Scheduled
  <2>3. QueuesOwn' /\ HandOwn' /\ OutcomeStored'
    BY <2>1 DEF QueuesOwn, HandOwn, OutcomeStored
  <2>4. NoStray' /\ HeldListed'
    BY <2>1, <2>2 DEF NoStray, HeldListed
  <2>5. BackInQueue' /\ NothingLost'
    <3>1. CASE faults' = faults /\ result[hand[w]] # "none"
      BY <1>p, <1>k, <2>1, <2>2, <3>1 DEF BackInQueue, NothingLost, InFlight
    <3>2. CASE faults = 0 /\ faults' > 0
      BY <1>p, <1>k, <2>1, <2>2, <3>2 DEF BackInQueue, NothingLost, InFlight, HeldListed
    <3> QED BY <2>1, <3>1, <3>2
  <2> QED BY <2>3, <2>4, <2>5
<1>6. CASE Register(w) \/ SetRunning(w) \/ CheckCancel(w) \/ Reply(w) \/ Stop(w) \/ Restart(w)
  <2>1. /\ UNCHANGED <<queue, processing, result, hand, requeueVars>> /\ faults' \in {faults, faults + 1}
        /\ \A t \in Tasks : Terminal(status'[t]) => Terminal(status[t])
    BY <1>6 DEF Register, SetRunning, CheckCancel, Reply, Stop, Restart, Fault, Terminal, Outcomes
  <2>2. \A v \in Workers : /\ wpc'[v] \in Finished => wpc[v] \in Finished
                           /\ wpc'[v] \in {"idle", "stopped"} => wpc[v] \in {"idle", "stopped"}
    BY <1>6 DEF Register, SetRunning, CheckCancel, Reply, Stop, Restart, Step, Finished
  <2> QED BY <1>p, <2>1, <2>2, IdleStep
<1>7. ~CommandDropped(w)
  BY DEF CommandDropped, Fault
<1> QED BY <1>1, <1>2, <1>3, <1>4, <1>5, <1>6, <1>7 DEF ProcessOneTask

\* A step of RequeueStale that neither moves a payload nor comes to a removal.
LEMMA LookStep ==
  ASSUME RecoveryType, RecoveryInv, UNCHANGED <<queue, processing, result, hand, wpc, pc>>,
         faults' \in {faults, faults + 1}, \A t \in Tasks : Terminal(status'[t]) => Terminal(status[t]),
         rpc' # "remove", rpc' = "gc" => item' \in Tasks /\ result[item'] # "none",
         faults' = 0 => \A t \in Tasks : Scheduled(t)' => Scheduled(t)
  PROVE  RecoveryInv'
<1> USE DEF RecoveryType, TypeInv, TypeOK, KeysTypeOK, RecoveryInv
<1>1. \A t \in Tasks : (InQueue(t)' <=> InQueue(t)) /\ (Held(t)' <=> Held(t)) /\ (Pushed(t)' <=> Pushed(t))
  BY DEF InQueue, Held, Pushed
<1>2. QueuesOwn' /\ HandOwn' /\ OutcomeStored' /\ BackInQueue'
  BY DEF QueuesOwn, HandOwn, OutcomeStored, BackInQueue
<1>3. faults' = 0 => faults = 0
  OBVIOUS
<1>4. NoStray' /\ HeldListed'
  BY <1>1, <1>3 DEF NoStray, HeldListed
<1>5. NothingLost'
  BY <1>1 DEF NothingLost, InFlight
<1> QED BY <1>2, <1>4, <1>5

\* RequeueStale pushes before it removes, and removes nothing it has not seen
\* back in the queue or in a worker's hands.
LEMMA RecoveryRequeue ==
  ASSUME MaxFaults <= 1, RecoveryType, RecoveryInv, RequeueStale
  PROVE  RecoveryInv'
<1> USE DEF RecoveryType, TypeInv, TypeOK, KeysTypeOK, WorkerTypeOK, ItemTyped, At, Terminal,
            vars, clientVars, lockVars, taskVars, groupVars, listVars, redisVars, workerVars
<1>1. CASE \E w \in Workers : Scan(w)
  <2>1. \A t \in Tasks : Scheduled(t)' => Scheduled(t)
    BY <1>1 DEF Scan, Scheduled
  <2> QED BY <1>1, <2>1, LookStep DEF Scan
<1>2. ASSUME NEW t \in Tasks, Visit(t) PROVE RecoveryInv'
  <2>1. \A u \in Tasks : Scheduled(u)' => Scheduled(u)
    BY <1>2 DEF Visit, Scheduled
  <2>2. Decision(t) \in {"push", "next", "gc"} /\ (Decision(t) = "gc" => result[t] # "none")
    <3>1. status[t] \in {"none", "pending", "running"} \union Outcomes
      BY DEF TaskStatus
    <3>2. CASE status[t] \in Outcomes
      <4>1. Decision(t) = "gc"
        BY <3>2 DEF Decision, Outcomes
      <4> QED BY <3>2, <4>1 DEF RecoveryInv, OutcomeStored
    <3>3. CASE status[t] \in {"none", "pending"}
      BY <3>3 DEF Decision, Outcomes
    <3>4. CASE status[t] = "running"
      BY <3>4 DEF Decision, Outcomes
    <3> QED BY <3>1, <3>2, <3>3, <3>4
  <2> QED BY <1>2, <2>1, <2>2, LookStep DEF Visit
<1>3. ASSUME NEW t \in Tasks, VisitBlind(t) PROVE RecoveryInv'
  <2>1. faults' = faults + 1 /\ faults' # 0
    BY <1>3 DEF VisitBlind, Fault
  <2>2. UNCHANGED <<queue, processing, result, hand, wpc, pc, status>>
    BY <1>3 DEF VisitBlind
  <2>3. rpc' \in {"push", "next"}
    BY <1>3 DEF VisitBlind
  <2> HIDE DEF RecoveryType, TypeInv, TypeOK, KeysTypeOK
  <2> QED BY <2>1, <2>2, <2>3, LookStep
<1>4. CASE EndScan \/ CountRetry \/ OperatorDies
  <2>1. \A t \in Tasks : Scheduled(t)' => Scheduled(t)
    BY <1>4 DEF EndScan, CountRetry, OperatorDies, Scheduled
  <2> QED BY <1>4, <2>1, LookStep DEF EndScan, CountRetry, OperatorDies
<1>5. CASE Reset
  <2>1. \A t \in Tasks : (Scheduled(t)' => Scheduled(t)) /\ (Terminal(status'[t]) => Terminal(status[t]))
    BY <1>5 DEF Reset, Scheduled, Outcomes
  <2> QED BY <1>5, <2>1, LookStep DEF Reset
<1>6. CASE CollectGarbage
  <2>1. /\ item \in Tasks /\ result[item] # "none" /\ rpc' = "next"
        /\ processing' = [processing EXCEPT ![item] = 0]
        /\ UNCHANGED <<queue, result, status, faults, hand, wpc, pc, item, items>>
    BY <1>6 DEF CollectGarbage, RemoveFromProcessing, RecoveryInv, OutcomeStored
  <2>2. \A t \in Tasks : /\ InQueue(t)' <=> InQueue(t)
                         /\ Held(t)' <=> Held(t)
                         /\ Pushed(t)' <=> Pushed(t)
                         /\ Scheduled(t)' => Scheduled(t)
                         /\ result[t] = "none" => processing'[t] = processing[t]
    BY <2>1 DEF InQueue, Held, Scheduled, Pushed
  <2>3. QueuesOwn' /\ HandOwn' /\ OutcomeStored'
    BY <2>1 DEF RecoveryInv, QueuesOwn, HandOwn, OutcomeStored
  <2>4. NoStray' /\ HeldListed' /\ BackInQueue' /\ NothingLost'
    BY <2>1, <2>2 DEF RecoveryInv, NoStray, HeldListed, BackInQueue, NothingLost, InFlight
  <2> QED BY <2>3, <2>4 DEF RecoveryInv
<1>7. CASE PushBack
  <2>1. /\ item \in Tasks /\ rpc' = "remove" /\ rpc = "push" /\ PushQueue(item)
        /\ UNCHANGED <<processing, result, status, faults, hand, wpc, pc, item, items>>
    BY <1>7 DEF PushBack
  <2>2. \A t \in Tasks : InQueue(t)' <=> InQueue(t) \/ t = item
    BY <2>1, PushQueueAdds
  <2>3. \A t \in Tasks : (Held(t)' <=> Held(t)) /\ (Pushed(t)' <=> Pushed(t)) /\ (Scheduled(t)' <=> Scheduled(t))
    BY <2>1 DEF Held, Scheduled, Pushed
  <2>4. QueuesOwn'
    BY <2>1, PushOwn DEF RecoveryInv
  <2>5. HandOwn' /\ OutcomeStored'
    BY <2>1 DEF RecoveryInv, HandOwn, OutcomeStored
  <2>6. NoStray' /\ HeldListed' /\ BackInQueue' /\ NothingLost'
    BY <2>1, <2>2, <2>3 DEF RecoveryInv, NoStray, HeldListed, BackInQueue, NothingLost, InFlight
  <2> QED BY <2>4, <2>5, <2>6 DEF RecoveryInv
<1>8. CASE Remove
  <2>1. /\ item \in Tasks /\ rpc' = "reset" /\ rpc = "remove"
        /\ processing' = [processing EXCEPT ![item] = 0]
        /\ UNCHANGED <<queue, result, status, faults, hand, wpc, pc, item, items>>
    BY <1>8 DEF Remove, RemoveFromProcessing
  <2>2. \A t \in Tasks : /\ InQueue(t)' <=> InQueue(t)
                         /\ Held(t)' <=> Held(t)
                         /\ Pushed(t)' <=> Pushed(t)
                         /\ Scheduled(t)' => Scheduled(t)
                         /\ t # item => processing'[t] = processing[t]
    BY <2>1 DEF InQueue, Held, Scheduled, Pushed
  <2>3. result[item] = "none" => InQueue(item) \/ (faults > 0 /\ Held(item))
    BY <2>1 DEF RecoveryInv, BackInQueue
  <2>4. QueuesOwn' /\ HandOwn' /\ OutcomeStored'
    BY <2>1 DEF RecoveryInv, QueuesOwn, HandOwn, OutcomeStored
  <2>5. NoStray' /\ BackInQueue'
    BY <2>1, <2>2 DEF RecoveryInv, NoStray, BackInQueue
  <2>6. HeldListed' /\ NothingLost'
    BY <2>1, <2>2, <2>3 DEF RecoveryInv, HeldListed, NothingLost, InFlight
  <2> QED BY <2>4, <2>5, <2>6 DEF RecoveryInv
\* The only fault is this one: the worker that holds the entry will not crash.
<1>9. CASE RequeueDropped
  <2>1. faults = 0 /\ faults' > 0 /\ faults' = faults + 1
    BY <1>9 DEF RequeueDropped, Fault
  <2>2. CASE rpc' # "remove"
    BY <1>9, <2>1, <2>2, LookStep DEF RequeueDropped
  <2>3. CASE rpc' = "remove"
    <3>1. /\ rpc = "push" /\ item \in Tasks
          /\ UNCHANGED <<queue, processing, result, status, hand, wpc, pc, item, items>>
      BY <1>9, <2>3 DEF RequeueDropped
    <3>2. result[item] = "none" => Held(item)
      BY <2>1, <3>1 DEF RecoveryInv, NoStray, Scheduled
    <3>3. \A t \in Tasks : (InQueue(t)' <=> InQueue(t)) /\ (Held(t)' <=> Held(t)) /\ (Pushed(t)' <=> Pushed(t))
      BY <3>1 DEF InQueue, Held, Pushed
    <3>4. QueuesOwn' /\ HandOwn' /\ OutcomeStored'
      BY <2>3, <3>1 DEF RecoveryInv, QueuesOwn, HandOwn, OutcomeStored
    <3>5. NoStray' /\ HeldListed' /\ BackInQueue' /\ NothingLost'
      BY <2>1, <3>1, <3>2, <3>3 DEF RecoveryInv, NoStray, HeldListed, BackInQueue, NothingLost, InFlight
    <3> QED BY <3>4, <3>5 DEF RecoveryInv
  <2> QED BY <2>2, <2>3
<1> QED BY <1>1, <1>2, <1>3, <1>4, <1>5, <1>6, <1>7, <1>8, <1>9 DEF RequeueStale

LEMMA RecoveryInvStays ==
  ASSUME "workerError" \notin Env, MaxFaults <= 1, RecoveryType, RecoveryInv, [RecoveryNext]_allVars
  PROVE  RecoveryInv'
<1>1. CASE RequeueStale
  BY <1>1, RecoveryRequeue
<1>2. CASE Next /\ UNCHANGED requeueVars
  BY <1>2, RecoveryClient, RecoveryWorker DEF Next
<1>3. CASE UNCHANGED allVars
  BY <1>3, IdleStep DEF allVars, vars, redisVars, lockVars, taskVars, groupVars, listVars, clientVars, workerVars,
                        Pushed, RecoveryType, TypeInv, TypeOK, KeysTypeOK
<1> QED BY <1>1, <1>2, <1>3 DEF RecoveryNext

\* With at most one fault anywhere, and however often and on whatever tasks the
\* operator runs the command or breaks it off, a pushed payload without an
\* outcome is in the queue, in the processing list or in a live worker's hands.
THEOREM NothingIsLost ==
  ASSUME "workerError" \notin Env, MaxFaults <= 1
  PROVE  RecoverySpec => []NothingLost
<1>1. RecoveryType /\ RecoveryInv /\ [RecoveryNext]_allVars => RecoveryType' /\ RecoveryInv'
  BY RecoveryTypeStays, RecoveryInvStays
<1>2. RecoveryInv => NothingLost
  BY DEF RecoveryInv
<1> QED BY RecoveryInvInit, <1>1, <1>2, PTL DEF RecoverySpec

-----------------------------------------------------------------------------
(* The cancel flag. *)

\* The flag is never deleted, and the agent of a flagged task is not started.
LEMMA FlagStays ==
  ASSUME "workerError" \notin Env, NEW t \in Tasks, NEW n, RecoveryType, t \in cancel, starts[t] = n,
         [RecoveryNext]_allVars
  PROVE  t \in cancel' /\ starts'[t] = n
<1> USE DEF RecoveryType, TypeInv, TypeOK, WorkerTypeOK, taskVars, redisVars, workerVars, vars
<1>1. CASE ClientNext /\ UNCHANGED workerVars
  BY <1>1 DEF ClientNext, Enqueue, CommandFails, Acquire, ReadHolder, CheckHolder, ClearStale, Reacquire,
              ReleaseGate, AppendInstruction, JoinGroup, SetGroup, Push, InitKeys, Rollback, WaitTask,
              StartWait, PollTerminal, PollTimeout, Settle, WaitUnlock, WaitFails, WaitCancelled, Leave,
              CancelTask, ClientDies, UnlockThread, LockExpire
<1>2. CASE WorkerNext
  <2>1. cancel' = cancel
    BY <1>2 DEF WorkerNext, Take, TakeReplyLost, ProcessOneTask, Register, SetRunning, CheckCancel, StoreCancelled,
                StoreResult, Reply, Unlist, Deregister, CommandDropped, Stop, Restart, WorkerCrash
  <2>2. starts' = starts \/ \E w \in Workers : CheckCancel(w) \/ CommandDropped(w)
    BY <1>2 DEF WorkerNext, Take, TakeReplyLost, ProcessOneTask, Register, SetRunning, StoreCancelled,
                StoreResult, Reply, Unlist, Deregister, Stop, Restart, WorkerCrash
  <2>3. \A w \in Workers : ~CommandDropped(w)
    BY DEF CommandDropped, Fault
  <2>4. ASSUME NEW w \in Workers, CheckCancel(w) PROVE starts'[t] = n
    BY <2>4 DEF CheckCancel
  <2> QED BY <2>1, <2>2, <2>3, <2>4
<1>3. CASE RequeueStale
  BY <1>3 DEF RequeueStale, Scan, Visit, VisitBlind, EndScan, CollectGarbage, PushBack, Remove, Reset, CountRetry,
              RequeueDropped, OperatorDies
<1>4. CASE UNCHANGED allVars
  BY <1>4 DEF allVars
<1> QED BY <1>1, <1>2, <1>3, <1>4 DEF RecoveryNext, Next

\* Requeueing keeps the flag: however often and in whatever state a cancelled
\* task is requeued, its agent is not started again.
THEOREM CancelIsKept ==
  ASSUME "workerError" \notin Env
  PROVE  RecoverySpec => CancelSurvives
<1>1. ASSUME NEW t \in Tasks, NEW n \in 0 .. MaxScans + 1
      PROVE  RecoverySpec => []((t \in cancel /\ ~Held(t) /\ starts[t] = n) => [](starts[t] = n))
  <2> DEFINE Flagged == t \in cancel /\ starts[t] = n
  <2>1. RecoveryType /\ Flagged /\ [RecoveryNext]_allVars => Flagged'
    BY FlagStays
  <2>2. RecoveryType /\ [RecoveryNext]_allVars => RecoveryType'
    BY RecoveryTypeStays
  <2>3. Flagged => starts[t] = n
    OBVIOUS
  <2>4. t \in cancel /\ ~Held(t) /\ starts[t] = n => Flagged
    OBVIOUS
  <2> QED BY RecoveryInvInit, <2>1, <2>2, <2>3, <2>4, PTL DEF RecoverySpec
<1> QED BY <1>1 DEF CancelSurvives

=============================================================================
