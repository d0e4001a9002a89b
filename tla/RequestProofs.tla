---------------------------- MODULE RequestProofs ----------------------------
(***************************************************************************)
(* Proofs about RequestHandler.  A request that is between its lock and    *)
(* its clean-up holds the lock, as long as the lock outlives the request;  *)
(* so two of them cannot be there together, and the history of a thread is *)
(* written in turns (TurnTaking).  The slots are counted exactly whatever  *)
(* fails.  What the complete mark, the 409 and the status of a thread say  *)
(* is true under the assumptions each theorem names.                       *)
(***************************************************************************)
EXTENDS RequestHandler, TLAPS, FiniteSetTheorems

\* What the argument needs of the types.
TurnType ==
  /\ running \in [Threads -> Requests \union {NoRequest}]
  /\ pc \in [Requests -> {"idle"} \union SubmitPcs \union GoPcs \union Ended]
  /\ verdict \in [Requests -> Verdicts]

\* A request between lock and clean-up holds its thread's lock.
LockMine == \A r \in Requests : InTurn(r) => running[ThreadOf[r]] = r

TurnInv == TurnType /\ LockMine

USE HandlerAssumption

\* The program points are distinct: the turn is over at the last ones.
LEMMA EndedIsOut ==
  ASSUME NEW r \in Requests, pc[r] \in Ended
  PROVE  ~InTurn(r)
BY DEF Ended, InTurn, WritePcs

\* Every request but r is where it was.
OthersStay(r) ==
  \A u \in Requests \ {r} : pc'[u] = pc[u] /\ verdict'[u] = verdict[u]

\* A step of r that leaves the lock alone and does not bring r into its turn.
LEMMA QuietStep ==
  ASSUME TurnInv, NEW r \in Requests, OthersStay(r), UNCHANGED running,
         InTurn(r)' => InTurn(r)
  PROVE  LockMine'
<1> SUFFICES ASSUME NEW u \in Requests, InTurn(u)'
             PROVE  running[ThreadOf[u]] = u
  BY DEF LockMine
<1>1. InTurn(u)
  <2>1. CASE u = r
    BY <2>1
  <2>2. CASE u # r
    BY <2>2 DEF OthersStay, InTurn
  <2> QED BY <2>1, <2>2
<1> QED BY <1>1 DEF TurnInv, LockMine

\* The step with which r takes a free lock, or fails although it took it.
LEMMA TakeStep ==
  ASSUME TurnInv, NEW r \in Requests, OthersStay(r),
         running[ThreadOf[r]] = NoRequest,
         running' = [running EXCEPT ![ThreadOf[r]] = r]
  PROVE  LockMine'
<1> SUFFICES ASSUME NEW u \in Requests, InTurn(u)'
             PROVE  running'[ThreadOf[u]] = u
  BY DEF LockMine
<1>1. CASE u = r
  BY <1>1 DEF TurnInv, TurnType
<1>2. CASE u # r
  <2>1. InTurn(u)
    BY <1>2 DEF OthersStay, InTurn
  <2>2. running[ThreadOf[u]] = u /\ ThreadOf[u] # ThreadOf[r]
    BY <2>1 DEF TurnInv, LockMine
  <2> QED BY <2>2 DEF TurnInv, TurnType
<1> QED BY <1>1, <1>2

\* The step with which r, in its turn, deletes the lock and ends its turn.
LEMMA DropStep ==
  ASSUME TurnInv, NEW r \in Requests, OthersStay(r), InTurn(r), ~InTurn(r)',
         running' = [running EXCEPT ![ThreadOf[r]] = NoRequest]
  PROVE  LockMine'
<1> SUFFICES ASSUME NEW u \in Requests, InTurn(u)'
             PROVE  running'[ThreadOf[u]] = u
  BY DEF LockMine
<1>1. u # r
  OBVIOUS
<1>2. InTurn(u)
  BY <1>1 DEF OthersStay, InTurn
<1>3. running[ThreadOf[u]] = u /\ running[ThreadOf[r]] = r
  BY <1>2 DEF TurnInv, LockMine
<1> QED BY <1>1, <1>3 DEF TurnInv, TurnType

-----------------------------------------------------------------------------
LEMMA TypeStays ==
  ASSUME TurnType, [Next]_vars
  PROVE  TurnType'
<1> USE DEF TurnType, SubmitPcs, GoPcs, WritePcs, Ended, Verdicts
<1>1. CASE UNCHANGED vars
  BY <1>1 DEF vars, keyVars, processVars
<1>2. CASE \E r \in Requests : TakeSlot(r) \/ Submit(r) \/ CommandFails(r)
  BY <1>2 DEF TakeSlot, Submit, CommandFails, Goto, Ran, OnError, ThreadExists, CreateThread,
              AcquireRequestLock, AppendRequest, ChooseSession, ReleaseRequestLock,
              ClearThreadComplete, IsThreadLocked, SetRunning, Register, keyVars, processVars
<1>3. CASE \E r \in Requests : RunSubprocess(r)
  BY <1>3 DEF RunSubprocess, StartAgent, CheckContext, AgentEnds, SetThreadComplete,
              AppendAnswer, LookAtLock, Settle, Cleanup, Unlock, Forget, Goto, Written,
              keyVars, processVars
<1>4. CASE \E r \in Requests : Progress(r) \/ Panic(r) \/ CommandDropped(r)
                               \/ Deadline(r) \/ Disconnect(r)
  BY <1>4 DEF Progress, Panic, CommandDropped, Deadline, Disconnect, Goto, Written,
              keyVars, processVars
<1>5. CASE \/ \E th \in Threads : \/ Cancel(th) \/ CancelRequest(th) \/ RunningExpires(th)
                                  \/ TaskLocks(th) \/ TaskSettles(th) \/ TaskUnlocks(th)
           \/ Shutdown \/ Drained \/ Exit \/ Crash
  BY <1>5 DEF Cancel, CancelRequest, RunningExpires, TaskLocks, TaskSettles, TaskUnlocks,
              Shutdown, Drained, Exit, Crash, Restart, keyVars, processVars
<1> QED BY <1>1, <1>2, <1>3, <1>4, <1>5 DEF Next

\* Submit: only SET NX brings a request into its turn, and only with the lock.
LEMMA SubmitKeeps ==
  ASSUME TurnInv, NEW r \in Requests, TakeSlot(r) \/ Submit(r) \/ CommandFails(r)
  PROVE  LockMine'
<1> USE DEF Goto, Ran, OnError, InTurn, WritePcs, OthersStay
<1>1. CASE TakeSlot(r)
  BY <1>1, QuietStep DEF TakeSlot, TurnInv, TurnType, keyVars
<1>2. CASE CommandFails(r)
  BY <1>2, QuietStep DEF CommandFails, SubmitPcs, TurnInv, TurnType, keyVars
<1>3. CASE AcquireRequestLock(r)
  <2>1. CASE running[ThreadOf[r]] = NoRequest
    BY <1>3, <2>1, TakeStep DEF AcquireRequestLock, TurnInv, TurnType
  <2>2. CASE running[ThreadOf[r]] # NoRequest
    BY <1>3, <2>2, QuietStep DEF AcquireRequestLock, TurnInv, TurnType
  <2> QED BY <2>1, <2>2
<1>4. CASE ReleaseRequestLock(r)
  BY <1>4, DropStep DEF ReleaseRequestLock, TurnInv, TurnType
<1>5. CASE ThreadExists(r) \/ CreateThread(r)
  BY <1>5, QuietStep DEF ThreadExists, CreateThread, TurnInv, TurnType, keyVars
<1>6. CASE AppendRequest(r) \/ ChooseSession(r)
  BY <1>6, QuietStep DEF AppendRequest, ChooseSession, TurnInv, TurnType, keyVars
<1>7. CASE ClearThreadComplete(r) \/ IsThreadLocked(r)
  BY <1>7, QuietStep DEF ClearThreadComplete, IsThreadLocked, TurnInv, TurnType, keyVars
<1>8. CASE SetRunning(r) \/ Register(r)
  BY <1>8, QuietStep DEF SetRunning, Register, TurnInv, TurnType, keyVars
<1> QED BY <1>1, <1>2, <1>3, <1>4, <1>5, <1>6, <1>7, <1>8 DEF Submit

\* The goroutine stays in its turn until it deletes the lock or panics.
LEMMA GoroutineKeeps ==
  ASSUME TurnInv, NEW r \in Requests,
         RunSubprocess(r) \/ Progress(r) \/ Panic(r) \/ CommandDropped(r)
  PROVE  LockMine'
<1> USE DEF Goto, Written, InTurn, WritePcs, OthersStay
<1>1. CASE StartAgent(r) \/ CheckContext(r) \/ AgentEnds(r)
  BY <1>1, QuietStep DEF StartAgent, CheckContext, AgentEnds, TurnInv, TurnType, keyVars,
                         processVars
<1>2. CASE SetThreadComplete(r) \/ AppendAnswer(r) \/ LookAtLock(r) \/ Settle(r)
  BY <1>2, QuietStep DEF SetThreadComplete, AppendAnswer, LookAtLock, Settle, TurnInv, TurnType,
                         keyVars, processVars
<1>3. CASE Cleanup(r) \/ Forget(r)
  BY <1>3, QuietStep DEF Cleanup, Forget, TurnInv, TurnType, keyVars, processVars
<1>4. CASE Unlock(r)
  BY <1>4, DropStep DEF Unlock, TurnInv, TurnType, processVars
<1>5. CASE Progress(r) \/ Panic(r) \/ CommandDropped(r)
  BY <1>5, QuietStep DEF Progress, Panic, CommandDropped, TurnInv, TurnType, keyVars,
                         processVars
<1> QED BY <1>1, <1>2, <1>3, <1>4, <1>5 DEF RunSubprocess

\* Nobody else writes the lock, but for its TTL after the request has ended.
LEMMA OthersKeep ==
  ASSUME TurnInv, "shortTTL" \notin Env,
         \/ \E r \in Requests : Deadline(r) \/ Disconnect(r)
         \/ \E th \in Threads : \/ Cancel(th) \/ CancelRequest(th) \/ RunningExpires(th)
                                \/ TaskLocks(th) \/ TaskSettles(th) \/ TaskUnlocks(th)
         \/ Shutdown \/ Drained \/ Exit \/ Crash
  PROVE  LockMine'
<1>1. CASE \E th \in Threads : RunningExpires(th)
  <2> PICK th \in Threads : RunningExpires(th)
    BY <1>1
  <2>1. /\ running[th] \in Requests /\ ~InTurn(running[th])
        /\ running' = [running EXCEPT ![th] = NoRequest]
    BY EndedIsOut DEF RunningExpires, TurnInv, TurnType
  <2>2. \A u \in Requests : InTurn(u)' <=> InTurn(u)
    BY DEF RunningExpires, InTurn, processVars
  <2> QED BY <2>1, <2>2 DEF LockMine, TurnInv, TurnType
<1>2. CASE Exit \/ Crash
  <2>1. \A u \in Requests : ~InTurn(u)'
    BY <1>2 DEF Exit, Crash, Restart, TurnInv, TurnType, InTurn, SubmitPcs, GoPcs, WritePcs, Ended
  <2> QED BY <2>1 DEF LockMine
<1>3. CASE UNCHANGED <<running, pc, verdict>>
  BY <1>3 DEF TurnInv, LockMine, InTurn
<1> QED BY <1>1, <1>2, <1>3
        DEF Deadline, Disconnect, Cancel, CancelRequest, TaskLocks, TaskSettles, TaskUnlocks,
            Shutdown, Drained, keyVars, processVars

LEMMA TurnStays ==
  ASSUME TurnInv, [Next]_vars, "shortTTL" \notin Env
  PROVE  TurnInv'
<1>1. TurnType'
  BY TypeStays DEF TurnInv
<1>2. LockMine'
  <2>1. CASE UNCHANGED vars
    BY <2>1 DEF vars, keyVars, processVars, TurnInv, LockMine, InTurn
  <2>2. CASE Next
    BY <2>2, SubmitKeeps, GoroutineKeeps, OthersKeep DEF Next
  <2> QED BY <2>1, <2>2
<1> QED BY <1>1, <1>2 DEF TurnInv

-----------------------------------------------------------------------------
\* Whatever fails, is cancelled, stops or crashes, two requests of a thread are
\* never between lock and clean-up together, provided the lock's TTL is longer
\* than a request runs (SET NX and the two places that delete the lock).
THEOREM OneAgentPerThread ==
  ASSUME "shortTTL" \notin Env
  PROVE  Spec => []OneAtATime
<1>1. Init => TurnInv
  BY DEF Init, TurnInv, TurnType, LockMine, InTurn, WritePcs, Verdicts
<1>2. TurnInv /\ [Next]_vars => TurnInv'
  BY TurnStays
<1>3. TurnInv => OneAtATime
  BY DEF TurnInv, LockMine, OneAtATime
<1> QED BY <1>1, <1>2, <1>3, PTL DEF Spec

-----------------------------------------------------------------------------
\* What the history theorem needs besides: no goroutine has panicked.
HistoryType == history \in [Threads -> Seq(Requests \X {"request", "plan", "response", "error"})]

Calm == HistoryType /\ \A r \in Requests : verdict[r] # "panic"

LEMMA WriteType ==
  ASSUME HistoryType, NEW r \in Requests,
         NEW kind \in {"request", "plan", "response", "error"}, Write(r, kind)
  PROVE  HistoryType'
<1>1. ThreadOf[r] \in Threads
  OBVIOUS
<1>2. history[ThreadOf[r]] \in Seq(Requests \X {"request", "plan", "response", "error"})
  BY <1>1 DEF HistoryType
<1>3. Append(history[ThreadOf[r]], <<r, kind>>)
        \in Seq(Requests \X {"request", "plan", "response", "error"})
  BY <1>2
<1> QED BY <1>3 DEF HistoryType, Write

\* Only three steps write to a history.
LEMMA OnlyWrites ==
  ASSUME [Next]_vars
  PROVE  \/ UNCHANGED history
         \/ \E r \in Requests : AppendRequest(r) \/ Progress(r) \/ AppendAnswer(r)
BY DEF Next, TakeSlot, Submit, CommandFails, ThreadExists, CreateThread, AcquireRequestLock,
       ChooseSession, ReleaseRequestLock, ClearThreadComplete, IsThreadLocked, SetRunning, Register,
       RunSubprocess, StartAgent, CheckContext, AgentEnds, SetThreadComplete, LookAtLock, Settle,
       Cleanup, Unlock, Forget, Panic, CommandDropped, Deadline, Disconnect, Cancel, CancelRequest,
       RunningExpires, TaskLocks, TaskSettles, TaskUnlocks, Shutdown, Drained, Exit, Crash, Restart,
       vars, keyVars, processVars

\* Only the end of the agent decides on what is written.
LEMMA OnlyVerdicts ==
  ASSUME [Next]_vars, "panic" \notin Env
  PROVE  UNCHANGED verdict \/ \E r \in Requests : StartAgent(r) \/ AgentEnds(r)
BY DEF Next, TakeSlot, Submit, CommandFails, ThreadExists, CreateThread, AcquireRequestLock,
       AppendRequest, ChooseSession, ReleaseRequestLock, ClearThreadComplete, IsThreadLocked,
       SetRunning, Register, RunSubprocess, CheckContext, SetThreadComplete, AppendAnswer,
       LookAtLock, Settle, Cleanup, Unlock, Forget, Progress, Panic, Fault, CommandDropped,
       Deadline, Disconnect, Cancel, CancelRequest, RunningExpires, TaskLocks, TaskSettles,
       TaskUnlocks, Shutdown, Drained, Exit, Crash, Restart, vars, processVars

LEMMA HistoryStays ==
  ASSUME HistoryType, [Next]_vars
  PROVE  HistoryType'
<1>1. CASE UNCHANGED history
  BY <1>1 DEF HistoryType
<1>2. ASSUME NEW r \in Requests, AppendRequest(r) \/ Progress(r) \/ AppendAnswer(r)
      PROVE  HistoryType'
  BY <1>2, WriteType DEF AppendRequest, Progress, AppendAnswer
<1> QED BY <1>1, <1>2, OnlyWrites

LEMMA CalmStays ==
  ASSUME TurnInv, Calm, "panic" \notin Env, [Next]_vars
  PROVE  Calm'
<1>1. HistoryType'
  BY HistoryStays DEF Calm
<1>2. \A r \in Requests : verdict'[r] # "panic"
  <2>1. CASE UNCHANGED verdict
    BY <2>1 DEF Calm
  <2>2. CASE \E r \in Requests : StartAgent(r) \/ AgentEnds(r)
    BY <2>2 DEF Calm, StartAgent, AgentEnds, TurnInv, TurnType
  <2> QED BY <2>1, <2>2, OnlyVerdicts
<1> QED BY <1>1, <1>2 DEF Calm

\* A request in its turn writes to the history of its thread: it holds the lock.
LEMMA WriteStep ==
  ASSUME TurnInv, Calm, NEW r \in Requests, InTurn(r),
         NEW kind \in {"request", "plan", "response", "error"}, Write(r, kind)
  PROVE  \A th \in Threads :
           history'[th] # history[th] => running[th] = history'[th][Len(history'[th])][1]
<1> SUFFICES ASSUME NEW th \in Threads, history'[th] # history[th]
             PROVE  running[th] = history'[th][Len(history'[th])][1]
  OBVIOUS
<1>1. th = ThreadOf[r] /\ history'[th] = Append(history[th], <<r, kind>>)
  BY DEF Write, Calm, HistoryType
<1>2. history'[th][Len(history'[th])] = <<r, kind>>
  <2>1. history[th] \in Seq(Requests \X {"request", "plan", "response", "error"})
    BY DEF Calm, HistoryType
  <2> QED BY <1>1, <2>1
<1>3. running[th] = r
  BY <1>1 DEF TurnInv, LockMine
<1> QED BY <1>2, <1>3

LEMMA WritesStep ==
  ASSUME TurnInv, Calm, [Next]_vars
  PROVE  \A th \in Threads :
           history'[th] # history[th] => running[th] = history'[th][Len(history'[th])][1]
<1>1. CASE \E r \in Requests : AppendRequest(r)
  BY <1>1, WriteStep DEF AppendRequest, Ran, Goto, InTurn
<1>2. CASE \E r \in Requests : Progress(r)
  BY <1>2, WriteStep DEF Progress, InTurn
<1>3. CASE \E r \in Requests : AppendAnswer(r)
  BY <1>3, WriteStep DEF AppendAnswer, Goto, InTurn, WritePcs, Calm
<1>4. CASE UNCHANGED history
  BY <1>4
<1> QED BY <1>1, <1>2, <1>3, <1>4, OnlyWrites

\* If no goroutine panics and the lock outlives its request, every message the
\* handler writes is written by the request that holds the thread's lock.
THEOREM HistoryUnderLock ==
  ASSUME "shortTTL" \notin Env, "panic" \notin Env
  PROVE  Spec => WritesUnderLock
<1>1. Init => TurnInv /\ Calm
  BY DEF Init, TurnInv, TurnType, LockMine, InTurn, WritePcs, Verdicts, Calm, HistoryType
<1>2. TurnInv /\ Calm /\ [Next]_vars => TurnInv' /\ Calm'
  BY TurnStays, CalmStays
<1>3. TurnInv /\ Calm /\ [Next]_vars =>
        [\A th \in Threads :
           history'[th] # history[th] => running[th] = history'[th][Len(history'[th])][1]]_vars
  BY WritesStep
<1> QED BY <1>1, <1>2, <1>3, PTL DEF Spec, WritesUnderLock

-----------------------------------------------------------------------------
(* The slots of h.sem, and type correctness, which needs them: a slot is    *)
(* given back only by a request that has one.                               *)

Holders == {r \in Requests : HasSlot(r)}

SlotsInv == IsFiniteSet(Holders) /\ sem = Cardinality(Holders)

\* What a step can do to the slots.
KeepsSlots == sem' = sem /\ Holders' = Holders
TakesOne(r) == sem < MaxConcurrent /\ sem' = sem + 1 /\ r \notin Holders /\ Holders' = Holders \union {r}
GivesOne(r) == sem' = sem - 1 /\ r \in Holders /\ Holders' = Holders \ {r}
LosesAll == sem' = 0 /\ Holders' = {}

\* A step of r that moves no other request.
LEMMA SlotOf ==
  ASSUME NEW r \in Requests, OthersStay(r)
  PROVE  /\ sem' = sem /\ (HasSlot(r)' <=> HasSlot(r)) => KeepsSlots
         /\ sem' = sem - 1 /\ HasSlot(r) /\ ~HasSlot(r)' => GivesOne(r)
         /\ sem < MaxConcurrent /\ sem' = sem + 1 /\ ~HasSlot(r) /\ HasSlot(r)' => TakesOne(r)
<1>1. \A u \in Requests \ {r} : HasSlot(u)' <=> HasSlot(u)
  BY DEF OthersStay, HasSlot
<1> QED BY <1>1 DEF KeepsSlots, GivesOne, TakesOne, Holders

\* Submit takes a slot first, and gives it back wherever it ends without a
\* goroutine.
LEMMA SubmitSlots ==
  ASSUME TurnType, NEW r \in Requests, TakeSlot(r) \/ Submit(r) \/ CommandFails(r)
  PROVE  KeepsSlots \/ TakesOne(r) \/ GivesOne(r)
<1> USE DEF TurnType, Goto, HasSlot, SubmitPcs, GoPcs, WritePcs, OthersStay
<1>1. CASE TakeSlot(r)
  BY <1>1, SlotOf DEF TakeSlot
<1>2. ASSUME NEW at \in SubmitPcs \ {"register"}, NEW to \in SubmitPcs \union {"refused", "failed"},
             Goto(r, at, to), GiveBack(to), UNCHANGED verdict
      PROVE  KeepsSlots \/ GivesOne(r)
  BY <1>2, SlotOf DEF GiveBack
<1>3. CASE CommandFails(r)
  <2>1. PICK at \in SubmitPcs \ {"register"} : Goto(r, at, OnError(at)) /\ GiveBack(OnError(at))
    BY <1>3 DEF CommandFails
  <2>2. OnError(at) \in SubmitPcs \union {"refused", "failed"}
    BY DEF OnError
  <2> QED BY <1>2, <1>3, <2>1, <2>2 DEF CommandFails
<1>4. ASSUME NEW at \in SubmitPcs \ {"register"}, NEW next \in SubmitPcs \union {"refused", "failed"},
             Ran(r, at, next), UNCHANGED verdict
      PROVE  KeepsSlots \/ GivesOne(r)
  <2>1. OnError(at) \in SubmitPcs \union {"refused", "failed"}
    BY DEF OnError
  <2>2. PICK to \in {next, OnError(at)} : Goto(r, at, to) /\ GiveBack(to)
    BY <1>4 DEF Ran
  <2> QED BY <1>2, <1>4, <2>1, <2>2
<1>5. CASE Register(r)
  BY <1>5, SlotOf DEF Register
<1>6. CASE ThreadExists(r) \/ CreateThread(r) \/ AcquireRequestLock(r) \/ AppendRequest(r)
           \/ ChooseSession(r) \/ ReleaseRequestLock(r) \/ ClearThreadComplete(r)
           \/ IsThreadLocked(r) \/ SetRunning(r)
  <2>1. UNCHANGED verdict
    BY <1>6 DEF ThreadExists, CreateThread, AcquireRequestLock, AppendRequest, ChooseSession,
                ReleaseRequestLock, ClearThreadComplete, IsThreadLocked, SetRunning
  <2>2. PICK at \in SubmitPcs \ {"register"}, next \in SubmitPcs \union {"refused", "failed"} : Ran(r, at, next)
    BY <1>6 DEF ThreadExists, CreateThread, AcquireRequestLock, AppendRequest, ChooseSession,
                ReleaseRequestLock, ClearThreadComplete, IsThreadLocked, SetRunning
  <2> QED BY <1>4, <2>1, <2>2
<1> QED BY <1>1, <1>3, <1>5, <1>6 DEF Submit

\* The goroutine keeps its slot up to its clean-up; what a panic writes
\* comes after that.
LEMMA GoroutineSlots ==
  ASSUME TurnType, NEW r \in Requests, RunSubprocess(r) \/ Progress(r) \/ Panic(r) \/ CommandDropped(r)
  PROVE  KeepsSlots \/ GivesOne(r)
<1> USE DEF TurnType, Goto, HasSlot, SubmitPcs, WritePcs, Written, OthersStay, processVars
<1>1. CASE StartAgent(r) \/ CheckContext(r) \/ AgentEnds(r) \/ Panic(r)
  BY <1>1, SlotOf DEF StartAgent, CheckContext, AgentEnds, Panic
<1>2. CASE SetThreadComplete(r) \/ AppendAnswer(r) \/ LookAtLock(r) \/ Settle(r)
  BY <1>2, SlotOf DEF SetThreadComplete, AppendAnswer, LookAtLock, Settle
<1>3. CASE Cleanup(r) \/ Unlock(r) \/ Forget(r)
  BY <1>3, SlotOf DEF Cleanup, Unlock, Forget
<1>4. CASE Progress(r) \/ CommandDropped(r)
  BY <1>4, SlotOf DEF Progress, CommandDropped
<1> QED BY <1>1, <1>2, <1>3, <1>4 DEF RunSubprocess

LEMMA StepSlots ==
  ASSUME TurnType, [Next]_vars
  PROVE  KeepsSlots \/ LosesAll \/ \E r \in Requests : TakesOne(r) \/ GivesOne(r)
<1>1. CASE \E r \in Requests : \/ TakeSlot(r) \/ Submit(r) \/ CommandFails(r) \/ RunSubprocess(r)
                               \/ Progress(r) \/ Panic(r) \/ CommandDropped(r)
  BY <1>1, SubmitSlots, GoroutineSlots
<1>2. CASE Exit \/ Crash
  <2>1. \A r \in Requests : ~HasSlot(r)'
    BY <1>2 DEF Exit, Crash, Restart, TurnType, HasSlot, SubmitPcs, GoPcs, WritePcs, Ended
  <2> QED BY <1>2, <2>1 DEF Exit, Crash, Restart, LosesAll, Holders
<1>3. CASE \/ \E r \in Requests : Deadline(r) \/ Disconnect(r)
           \/ \E th \in Threads : \/ Cancel(th) \/ CancelRequest(th) \/ RunningExpires(th)
                                  \/ TaskLocks(th) \/ TaskSettles(th) \/ TaskUnlocks(th)
           \/ Shutdown \/ Drained \/ UNCHANGED vars
  <2>1. UNCHANGED <<sem, pc, verdict>>
    BY <1>3 DEF Deadline, Disconnect, Cancel, CancelRequest, RunningExpires, TaskLocks, TaskSettles,
                TaskUnlocks, Shutdown, Drained, vars, processVars
  <2> QED BY <2>1 DEF KeepsSlots, Holders, HasSlot
<1> QED BY <1>1, <1>2, <1>3 DEF Next

LEMMA SlotsStay ==
  ASSUME TurnType, SlotsInv, sem \in 0 .. MaxConcurrent, [Next]_vars
  PROVE  SlotsInv' /\ sem' \in 0 .. MaxConcurrent
<1>1. CASE KeepsSlots
  BY <1>1 DEF KeepsSlots, SlotsInv
<1>2. CASE LosesAll
  BY <1>2, FS_EmptySet DEF LosesAll, SlotsInv
<1>3. ASSUME NEW r \in Requests, TakesOne(r) PROVE SlotsInv' /\ sem' \in 0 .. MaxConcurrent
  BY <1>3, FS_AddElement DEF TakesOne, SlotsInv
<1>4. ASSUME NEW r \in Requests, GivesOne(r) PROVE SlotsInv' /\ sem' \in 0 .. MaxConcurrent
  <2>1. /\ IsFiniteSet(Holders \ {r}) /\ Cardinality(Holders \ {r}) = Cardinality(Holders) - 1
    BY <1>4, FS_RemoveElement DEF GivesOne, SlotsInv
  <2>2. Cardinality(Holders \ {r}) \in Nat
    BY <2>1, FS_CardinalityType
  <2> QED BY <1>4, <2>1, <2>2 DEF GivesOne, SlotsInv
<1> QED BY <1>1, <1>2, <1>3, <1>4, StepSlots

\* The variables of HandlerTypeOK that TurnType, HistoryType and SlotsStay leave.
RestType ==
  /\ complete \subseteq Threads
  /\ status \in [Threads -> Statuses]
  /\ cancels \in [Threads -> Requests \union {NoRequest}]
  /\ ctx \in [Requests -> {"live", "cancelled", "deadline"}]
  /\ gone \subseteq Requests
  /\ calls \subseteq Threads
  /\ server \in {"up", "waiting", "drained", "expired"}
  /\ task \in [Threads -> {"none", "held", "settled"}]
  /\ faults \in 0 .. MaxFaults

LEMMA RestStays ==
  ASSUME RestType, [Next]_vars
  PROVE  RestType'
<1> USE DEF RestType, Statuses, SetStatus, Fault
<1>1. CASE UNCHANGED vars
  BY <1>1 DEF vars, keyVars, processVars, envVars
<1>2. ASSUME NEW r \in Requests, TakeSlot(r) \/ Submit(r) \/ CommandFails(r) PROVE RestType'
  <2>1. faults' \in 0 .. MaxFaults
    BY <1>2 DEF TakeSlot, Submit, CommandFails, Ran, ThreadExists, CreateThread, AcquireRequestLock,
                AppendRequest, ChooseSession, ReleaseRequestLock, ClearThreadComplete, IsThreadLocked,
                SetRunning, Register, envVars
  <2>2. UNCHANGED <<ctx, calls, server, gone, task>>
    BY <1>2 DEF TakeSlot, Submit, CommandFails, ThreadExists, CreateThread, AcquireRequestLock,
                AppendRequest, ChooseSession, ReleaseRequestLock, ClearThreadComplete, IsThreadLocked,
                SetRunning, Register, envVars
  <2>3. UNCHANGED cancels \/ cancels' = [cancels EXCEPT ![ThreadOf[r]] = r]
    BY <1>2 DEF TakeSlot, Submit, CommandFails, ThreadExists, CreateThread, AcquireRequestLock,
                AppendRequest, ChooseSession, ReleaseRequestLock, ClearThreadComplete, IsThreadLocked,
                SetRunning, Register, envVars
  <2>4. /\ complete' \subseteq complete
        /\ \/ UNCHANGED status
           \/ \E s \in {"initiated", "running"} : status' = [status EXCEPT ![ThreadOf[r]] = s]
    BY <1>2 DEF TakeSlot, Submit, CommandFails, ThreadExists, CreateThread, AcquireRequestLock,
                AppendRequest, ChooseSession, ReleaseRequestLock, ClearThreadComplete, IsThreadLocked,
                SetRunning, Register, keyVars
  <2> QED BY <2>1, <2>2, <2>3, <2>4
<1>3. ASSUME NEW r \in Requests, RunSubprocess(r) PROVE RestType'
  <2>1. UNCHANGED <<ctx, calls, server, gone, task, faults>>
    BY <1>3 DEF RunSubprocess, StartAgent, CheckContext, AgentEnds, SetThreadComplete, AppendAnswer,
                LookAtLock, Settle, Cleanup, Unlock, Forget, processVars, envVars
  <2>2. /\ UNCHANGED cancels \/ cancels' = [cancels EXCEPT ![ThreadOf[r]] = NoRequest]
        /\ UNCHANGED complete \/ complete' = complete \union {ThreadOf[r]}
    BY <1>3 DEF RunSubprocess, StartAgent, CheckContext, AgentEnds, SetThreadComplete, AppendAnswer,
                LookAtLock, Settle, Cleanup, Unlock, Forget, processVars, keyVars
  <2>3. UNCHANGED status \/ \E s \in {"complete", "error"} : status' = [status EXCEPT ![ThreadOf[r]] = s]
    BY <1>3 DEF RunSubprocess, StartAgent, CheckContext, AgentEnds, SetThreadComplete, AppendAnswer,
                LookAtLock, Settle, Cleanup, Unlock, Forget, keyVars
  <2> QED BY <2>1, <2>2, <2>3
<1>4. ASSUME NEW r \in Requests, Progress(r) \/ Panic(r) \/ CommandDropped(r) \/ Deadline(r) \/ Disconnect(r)
      PROVE  RestType'
  BY <1>4 DEF Progress, Panic, CommandDropped, Deadline, Disconnect, keyVars, processVars, envVars
<1>5. ASSUME NEW th \in Threads, \/ Cancel(th) \/ CancelRequest(th) \/ RunningExpires(th)
                                 \/ TaskLocks(th) \/ TaskSettles(th) \/ TaskUnlocks(th)
      PROVE  RestType'
  BY <1>5 DEF Cancel, CancelRequest, RunningExpires, TaskLocks, TaskSettles, TaskUnlocks,
              keyVars, processVars, envVars
<1>6. CASE Shutdown \/ Drained \/ Exit \/ Crash
  BY <1>6 DEF Shutdown, Drained, Exit, Crash, Restart, keyVars, processVars, envVars
<1> QED BY <1>1, <1>2, <1>3, <1>4, <1>5, <1>6 DEF Next

HandlerInv == HandlerTypeOK /\ SlotsInv

LEMMA HandlerInit == Init => HandlerInv
<1> SUFFICES ASSUME Init PROVE HandlerInv
  OBVIOUS
<1>1. Holders = {}
  BY DEF Init, Holders, HasSlot, SubmitPcs, WritePcs
<1>2. SlotsInv
  BY <1>1, FS_EmptySet DEF SlotsInv, Init
<1>3. HandlerTypeOK
  BY DEF Init, HandlerTypeOK, Statuses, Verdicts
<1> QED BY <1>2, <1>3 DEF HandlerInv

LEMMA HandlerStep == HandlerInv /\ [Next]_vars => HandlerInv'
<1> SUFFICES ASSUME HandlerInv, [Next]_vars PROVE HandlerInv'
  OBVIOUS
<1>1. TurnType /\ HistoryType /\ RestType
  BY DEF HandlerInv, HandlerTypeOK, TurnType, HistoryType, RestType
<1>2. SlotsInv' /\ sem' \in 0 .. MaxConcurrent
  BY <1>1, SlotsStay DEF HandlerInv, HandlerTypeOK
<1>3. TurnType'
  BY <1>1, TypeStays
<1>4. HistoryType' /\ RestType'
  BY <1>1, HistoryStays, RestStays
<1> QED BY <1>2, <1>3, <1>4 DEF HandlerInv, HandlerTypeOK, TurnType, HistoryType, RestType

\* Every reachable state is of the declared types: the count of slots stays
\* between none and MAX_CONCURRENT_REQUESTS, through every failure and restart.
THEOREM HandlerTyped == Spec => []HandlerTypeOK
<1>1. HandlerInv => HandlerTypeOK
  BY DEF HandlerInv
<1> QED BY HandlerInit, HandlerStep, <1>1, PTL DEF Spec

\* The slots in use are those of the requests that have one: no error path of
\* Submit, no end of a goroutine and no restart leaks or forges a slot.
THEOREM SlotsAreExact == Spec => []SlotsExact
<1>1. HandlerInv => SlotsExact
  BY DEF HandlerInv, SlotsInv, SlotsExact, Holders
<1> QED BY HandlerInit, HandlerStep, <1>1, PTL DEF Spec

-----------------------------------------------------------------------------
(* The mark of an answer, and the busy thread. *)

\* Only a client that disconnects is gone.
LEMMA GoneStays ==
  ASSUME [Next]_vars, gone = {}, "disconnect" \notin Env
  PROVE  gone' = {}
BY DEF Next, TakeSlot, Submit, CommandFails, ThreadExists, CreateThread, AcquireRequestLock, AppendRequest,
       ChooseSession, ReleaseRequestLock, ClearThreadComplete, IsThreadLocked, SetRunning, Register,
       RunSubprocess, StartAgent, CheckContext, AgentEnds, SetThreadComplete, AppendAnswer, LookAtLock,
       Settle, Cleanup, Unlock, Forget, Progress, Panic, CommandDropped, Deadline, Disconnect, Cancel,
       CancelRequest, RunningExpires, TaskLocks, TaskSettles, TaskUnlocks, Shutdown, Drained, Exit, Crash,
       Restart, vars, processVars, envVars

\* While Redis answers, a command of Submit is run and its reply arrives.
LEMMA Answered ==
  ASSUME "redisError" \notin Env, gone = {}
  PROVE  /\ \A r \in Requests : ~CommandFails(r) /\ ~CommandDropped(r)
         /\ \A r \in Requests : \A at, next : Ran(r, at, next) => Goto(r, at, next) /\ GiveBack(next)
BY DEF CommandFails, CommandDropped, Ran, Fault

\* The points at which the mark of the previous answer is gone.
Unmarked == {"lookup", "setRunning", "register", "start", "started", "agent"}

MarkInv == gone = {} /\ \A r \in Requests : pc[r] \in Unmarked => ThreadOf[r] \notin complete

LEMMA MarkStep ==
  ASSUME "disconnect" \notin Env, "redisError" \notin Env,
         TurnInv, Calm, MarkInv, [Next]_vars
  PROVE  MarkInv'
<1> USE DEF TurnInv, TurnType, MarkInv
<1>1. gone' = {}
  BY GoneStays
<1>a. ASSUME NEW r \in Requests, NEW from, NEW to, Goto(r, from, to), complete' \subseteq complete,
             from \in Unmarked \/ to \notin Unmarked
      PROVE  MarkInv'
  BY <1>1, <1>a DEF Goto
<1>2. ASSUME NEW r \in Requests, TakeSlot(r) \/ Submit(r) PROVE MarkInv'
  <2>1. CASE ClearThreadComplete(r)
    BY <1>1, <2>1, Answered DEF ClearThreadComplete, Goto
  <2>2. CASE ~ClearThreadComplete(r)
    <3>1. UNCHANGED complete
      BY <1>2, <2>2 DEF TakeSlot, Submit, ThreadExists, CreateThread, AcquireRequestLock, AppendRequest,
             ChooseSession, ReleaseRequestLock, IsThreadLocked, SetRunning, Register, keyVars
    <3>2. PICK from, to : Goto(r, from, to) /\ (from \in Unmarked \/ to \notin Unmarked)
      BY <1>2, <2>2, Answered
         DEF TakeSlot, Submit, ThreadExists, CreateThread, AcquireRequestLock, AppendRequest,
             ChooseSession, ReleaseRequestLock, IsThreadLocked, SetRunning, Register, Unmarked
    <3> QED BY <1>a, <3>1, <3>2
  <2> QED BY <2>1, <2>2
<1>3. ASSUME NEW r \in Requests, RunSubprocess(r) \/ Panic(r) PROVE MarkInv'
  <2>1. CASE SetThreadComplete(r)
    <3>1. pc[r] = "complete" /\ InTurn(r)
      BY <2>1 DEF SetThreadComplete, Goto, InTurn, WritePcs, Calm
    <3>2. \A u \in Requests : pc[u] \in Unmarked => InTurn(u)
      BY DEF Unmarked, InTurn
    <3>3. \A u \in Requests : pc'[u] \in Unmarked => pc[u] \in Unmarked /\ u # r
      BY <2>1 DEF SetThreadComplete, Goto, Unmarked
    <3>4. \A u \in Requests : pc'[u] \in Unmarked => ThreadOf[u] # ThreadOf[r]
      BY <3>1, <3>2, <3>3 DEF LockMine
    <3> QED BY <1>1, <2>1, <3>3, <3>4 DEF SetThreadComplete
  <2>2. CASE ~SetThreadComplete(r)
    <3>1. UNCHANGED complete
      BY <1>3, <2>2 DEF RunSubprocess, StartAgent, CheckContext, AgentEnds, AppendAnswer, LookAtLock, Settle,
                        Cleanup, Unlock, Forget, Panic, keyVars
    <3>2. CASE Panic(r)
      <4>1. Goto(r, pc[r], "cleanup") /\ "cleanup" \notin Unmarked
        BY <3>2 DEF Panic, Goto, Unmarked
      <4> QED BY <1>a, <3>1, <4>1
    <3>3. CASE RunSubprocess(r)
      <4>1. PICK from, to : Goto(r, from, to) /\ (from \in Unmarked \/ to \notin Unmarked)
        BY <3>3, <2>2 DEF RunSubprocess, StartAgent, CheckContext, AgentEnds, AppendAnswer, LookAtLock, Settle,
                          Cleanup, Unlock, Forget, Written, Unmarked
      <4> QED BY <1>a, <3>1, <4>1
    <3> QED BY <1>3, <3>2, <3>3
  <2> QED BY <2>1, <2>2
<1>4. CASE \/ \E r \in Requests : Progress(r) \/ Deadline(r) \/ Disconnect(r)
           \/ \E th \in Threads : \/ Cancel(th) \/ CancelRequest(th) \/ RunningExpires(th)
                                  \/ TaskLocks(th) \/ TaskSettles(th) \/ TaskUnlocks(th)
           \/ Shutdown \/ Drained \/ UNCHANGED vars
  BY <1>1, <1>4 DEF Progress, Deadline, Disconnect, Cancel, CancelRequest, RunningExpires, TaskLocks, TaskSettles,
                TaskUnlocks, Shutdown, Drained, vars, keyVars
<1>5. CASE Exit \/ Crash
  BY <1>1, <1>5 DEF Exit, Crash, Restart, keyVars, Unmarked, SubmitPcs, GoPcs
<1> QED BY <1>2, <1>3, <1>4, <1>5, Answered DEF Next

\* While the agent of a request works, its thread does not carry the mark of
\* an answer, through cancellations, stops and crashes; a failed command or a
\* disconnected client may leave the previous one in place.
THEOREM AgentIsUnmarked ==
  ASSUME Env \intersect {"shortTTL", "panic", "redisError", "disconnect"} = {}
  PROVE  Spec => []NotCompleteYet
<1>1. Init => TurnInv /\ Calm /\ MarkInv
  BY DEF Init, TurnInv, TurnType, LockMine, InTurn, WritePcs, Verdicts, Calm, HistoryType, MarkInv, Unmarked
<1>2. TurnInv /\ Calm /\ MarkInv /\ [Next]_vars => TurnInv' /\ Calm' /\ MarkInv'
  BY TurnStays, CalmStays, MarkStep
<1>3. MarkInv => NotCompleteYet
  BY DEF MarkInv, NotCompleteYet, Unmarked
<1> QED BY <1>1, <1>2, <1>3, PTL DEF Spec

\* The lock of a thread names a request of the thread that is in its turn.
BusyInv ==
  /\ gone = {} /\ server = "up"
  /\ \A th \in Threads : running[th] # NoRequest => ThreadOf[running[th]] = th /\ InTurn(running[th])

LEMMA BusyStep ==
  ASSUME Env \intersect {"redisError", "disconnect", "crash", "stop"} = {},
         TurnType, BusyInv, [Next]_vars
  PROVE  BusyInv'
<1> USE DEF TurnType, BusyInv
<1>1. gone' = {}
  BY GoneStays
<1>2. \A r \in Requests : ~CommandFails(r) /\ ~CommandDropped(r)
  BY Answered
<1>3. ~Shutdown /\ ~Exit /\ ~Crash /\ ~Drained
  BY DEF Shutdown, Exit, Crash, Drained, Fault
<1>4. server' = "up"
  BY <1>2, <1>3
     DEF Next, TakeSlot, Submit, ThreadExists, CreateThread, AcquireRequestLock, AppendRequest, ChooseSession,
       ReleaseRequestLock, ClearThreadComplete, IsThreadLocked, SetRunning, Register, RunSubprocess, StartAgent,
       CheckContext, AgentEnds, SetThreadComplete, AppendAnswer, LookAtLock, Settle, Cleanup, Unlock, Forget,
       Progress, Panic, Deadline, Disconnect, Cancel, CancelRequest, RunningExpires, TaskLocks, TaskSettles,
       TaskUnlocks, vars, processVars
\* A step of r after which r is in its turn if it was, or has deleted the lock.
<1>a. ASSUME NEW r \in Requests, OthersStay(r),
             \/ UNCHANGED running /\ (InTurn(r) => InTurn(r)')
             \/ running' = [running EXCEPT ![ThreadOf[r]] = NoRequest]
             \/ running' = [running EXCEPT ![ThreadOf[r]] = r] /\ InTurn(r)'
      PROVE  BusyInv'
  <2>1. \A u \in Requests \ {r} : InTurn(u)' <=> InTurn(u)
    BY <1>a DEF OthersStay, InTurn
  <2> QED BY <1>1, <1>4, <1>a, <2>1
<1>b. ASSUME NEW r \in Requests, NEW from, NEW to, Goto(r, from, to), UNCHANGED verdict PROVE OthersStay(r)
  BY <1>b DEF Goto, OthersStay
<1>5. ASSUME NEW r \in Requests, TakeSlot(r) \/ Submit(r) PROVE BusyInv'
  <2>1. CASE AcquireRequestLock(r)
    <3>1. CASE running[ThreadOf[r]] = NoRequest
      <4>1. /\ Goto(r, "acquire", "append") /\ UNCHANGED verdict
            /\ running' = [running EXCEPT ![ThreadOf[r]] = r]
        BY <2>1, <3>1, Answered DEF AcquireRequestLock
      <4>2. InTurn(r)'
        BY <4>1 DEF Goto, InTurn
      <4> QED BY <1>a, <1>b, <4>1, <4>2
    <3>2. CASE running[ThreadOf[r]] # NoRequest
      <4>1. Goto(r, "acquire", "refused") /\ UNCHANGED <<verdict, running>>
        BY <2>1, <3>2, Answered DEF AcquireRequestLock
      <4>2. ~InTurn(r)
        BY <4>1 DEF Goto, InTurn, WritePcs
      <4> QED BY <1>a, <1>b, <4>1, <4>2
    <3> QED BY <3>1, <3>2
  <2>2. CASE ReleaseRequestLock(r)
    BY <1>a, <1>b, <2>2, Answered DEF ReleaseRequestLock
  <2>3. CASE TakeSlot(r) \/ ThreadExists(r) \/ CreateThread(r) \/ Register(r)
    BY <1>a, <1>b, <2>3, Answered DEF TakeSlot, ThreadExists, CreateThread, Register, InTurn, WritePcs, Goto, keyVars
  <2>4. CASE AppendRequest(r) \/ ChooseSession(r) \/ ClearThreadComplete(r) \/ IsThreadLocked(r) \/ SetRunning(r)
    BY <1>a, <1>b, <2>4, Answered
       DEF AppendRequest, ChooseSession, ClearThreadComplete, IsThreadLocked, SetRunning, InTurn, Goto, keyVars
  <2> QED BY <1>5, <2>1, <2>2, <2>3, <2>4 DEF Submit
<1>6. ASSUME NEW r \in Requests, RunSubprocess(r) \/ Panic(r) PROVE BusyInv'
  <2>1. CASE Unlock(r)
    BY <1>a, <1>b, <2>1 DEF Unlock, processVars
  <2>2. CASE StartAgent(r) \/ CheckContext(r) \/ AgentEnds(r) \/ Panic(r)
    BY <1>a, <2>2 DEF StartAgent, CheckContext, AgentEnds, Panic, InTurn, WritePcs, Goto, OthersStay, keyVars, processVars
  <2>3. CASE SetThreadComplete(r) \/ AppendAnswer(r) \/ LookAtLock(r) \/ Settle(r)
    BY <1>a, <1>b, <2>3 DEF SetThreadComplete, AppendAnswer, LookAtLock, Settle, Written, InTurn, WritePcs, Goto,
                            keyVars, processVars
  <2>4. CASE Cleanup(r) \/ Forget(r)
    BY <1>a, <1>b, <2>4 DEF Cleanup, Forget, InTurn, WritePcs, Goto, keyVars, processVars
  <2> QED BY <1>6, <2>1, <2>2, <2>3, <2>4 DEF RunSubprocess
<1>7. CASE \/ \E r \in Requests : Progress(r) \/ Deadline(r) \/ Disconnect(r)
           \/ \E th \in Threads : \/ Cancel(th) \/ CancelRequest(th) \/ RunningExpires(th)
                                  \/ TaskLocks(th) \/ TaskSettles(th) \/ TaskUnlocks(th)
           \/ UNCHANGED vars
  <2>1. UNCHANGED <<pc, verdict>>
    BY <1>7 DEF Progress, Deadline, Disconnect, Cancel, CancelRequest, RunningExpires, TaskLocks, TaskSettles,
                TaskUnlocks, vars, processVars
  <2>2. \A th \in Threads : running'[th] # NoRequest => running'[th] = running[th]
    BY <1>7 DEF Progress, Deadline, Disconnect, Cancel, CancelRequest, RunningExpires, TaskLocks, TaskSettles,
                TaskUnlocks, vars, keyVars
  <2> QED BY <1>1, <1>4, <2>1, <2>2 DEF InTurn
<1> QED BY <1>2, <1>3, <1>5, <1>6, <1>7 DEF Next

\* A thread refuses a request (409) only while the request named by its lock
\* is between lock and clean-up, if commands reach Redis and the server stays
\* up: no end of a request leaves the lock behind.
THEOREM BusyIsRunning ==
  ASSUME Env \intersect {"redisError", "disconnect", "crash", "stop"} = {}
  PROVE  Spec => []BusyMeansRunning
<1>1. Init => TurnType /\ BusyInv
  BY DEF Init, TurnType, BusyInv, Verdicts
<1>2. TurnType /\ BusyInv /\ [Next]_vars => TurnType' /\ BusyInv'
  BY TypeStays, BusyStep
<1>3. BusyInv => BusyMeansRunning
  BY DEF BusyInv, BusyMeansRunning
<1> QED BY <1>1, <1>2, <1>3, PTL DEF Spec

-----------------------------------------------------------------------------
(* Who writes the status of a thread, while nothing fails: requests, their  *)
(* agents' tasks, cancellations and deadlines.                              *)

Undisturbed == Env \subseteq {"cancel", "deadline", "tasks", "runningExpiry"}

\* The request will write the status yet, or leave it to a task or a Cancel.
AtWork == {"register", "start", "started", "agent", "complete", "say", "look", "settle"}

RunningOwned ==
  \A th \in Threads :
    status[th] = "running" =>
      task[th] = "held" \/ th \in calls \/ \E r \in Requests : ThreadOf[r] = th /\ pc[r] \in AtWork

\* A task has written the status before it lets go of the thread.
SettledWritten == \A th \in Threads : task[th] = "settled" => status[th] # "running"

\* A cancel function is registered for a request whose goroutine was started.
CancelsKnown ==
  \A th \in Threads :
    cancels[th] # NoRequest => ThreadOf[cancels[th]] = th /\ pc[cancels[th]] \notin {"idle"} \union SubmitPcs

RequestKnows ==
  \A r \in Requests :
    /\ pc[r] \in {"setRunning", "settle"} => task[ThreadOf[r]] = "none"
    /\ pc[r] \in {"idle"} \union SubmitPcs => ctx[r] = "live"
    /\ pc[r] \in {"start", "started"} /\ ctx[r] # "live" =>
         ThreadOf[r] \in calls \/ status[ThreadOf[r]] # "running"

StatusInv == gone = {} /\ server = "up" /\ RunningOwned /\ SettledWritten /\ CancelsKnown /\ RequestKnows

LEMMA StatusStep ==
  ASSUME Undisturbed, TurnInv, Calm, RestType, StatusInv, [Next]_vars
  PROVE  StatusInv'
<1> USE DEF TurnInv, TurnType, RestType, StatusInv
<1>e. Env \intersect {"redisError", "disconnect", "crash", "stop", "panic", "handTasks", "shortTTL"} = {}
  BY DEF Undisturbed
<1>n. /\ \A r \in Requests : ~CommandFails(r) /\ ~CommandDropped(r) /\ ~Panic(r) /\ ~Disconnect(r)
      /\ ~Shutdown /\ ~Exit /\ ~Crash /\ ~Drained
  BY <1>e, Answered DEF Shutdown, Exit, Crash, Drained, Fault, Panic, Disconnect
<1>r. \A r \in Requests : \A at, next : Ran(r, at, next) => Goto(r, at, next)
  BY <1>e, Answered
\* Two requests of a thread are not in their turns together.
<1>o. \A r, u \in Requests : ThreadOf[r] = ThreadOf[u] /\ InTurn(r) /\ InTurn(u) => r = u
  BY DEF LockMine
\* A step of r that leaves the status, the tasks and the cancellations alone.
<1>a. ASSUME NEW r \in Requests, NEW from, NEW to, Goto(r, from, to),
             UNCHANGED <<status, task, calls, ctx, cancels, gone, server>>,
             from \in AtWork => \/ to \in AtWork \/ status[ThreadOf[r]] # "running"
                                \/ task[ThreadOf[r]] = "held" \/ ThreadOf[r] \in calls,
             to \in {"setRunning", "settle"} => task[ThreadOf[r]] = "none",
             to \in {"idle"} \union SubmitPcs => from \in {"idle"} \union SubmitPcs,
             to \in {"start", "started"} => ctx[r] = "live"
      PROVE  StatusInv'
  <2>1. pc[r] = from /\ pc'[r] = to /\ \A u \in Requests \ {r} : pc'[u] = pc[u]
    BY <1>a DEF Goto
  <2>2. RunningOwned'
    BY <1>a, <2>1 DEF RunningOwned
  <2>3. SettledWritten'
    BY <1>a DEF SettledWritten
  <2>4. CancelsKnown'
    BY <1>a, <2>1 DEF CancelsKnown
  <2>5. RequestKnows'
    BY <1>a, <2>1 DEF RequestKnows
  <2> QED BY <1>a, <2>2, <2>3, <2>4, <2>5
<1>1. ASSUME NEW r \in Requests, TakeSlot(r) \/ ThreadExists(r) \/ AcquireRequestLock(r) \/ AppendRequest(r)
                                 \/ ChooseSession(r) \/ ReleaseRequestLock(r) \/ ClearThreadComplete(r)
                                 \/ IsThreadLocked(r)
      PROVE  StatusInv'
  <2>1. UNCHANGED <<status, task, calls, ctx, cancels, gone, server>>
    BY <1>1 DEF TakeSlot, ThreadExists, AcquireRequestLock, AppendRequest, ChooseSession, ReleaseRequestLock,
                ClearThreadComplete, IsThreadLocked, keyVars, envVars
  <2>2. PICK from \in ({"idle"} \union SubmitPcs) \ {"register"}, to \in SubmitPcs \union {"refused", "failed"} :
          Goto(r, from, to) /\ (to = "setRunning" => task[ThreadOf[r]] = "none")
    BY <1>1, <1>r DEF TakeSlot, ThreadExists, AcquireRequestLock, AppendRequest, ChooseSession,
                      ReleaseRequestLock, ClearThreadComplete, IsThreadLocked, SubmitPcs
  <2> QED BY <1>a, <2>1, <2>2 DEF SubmitPcs, AtWork
<1>2. ASSUME NEW r \in Requests, CreateThread(r) PROVE StatusInv'
  <2>1. /\ Goto(r, "create", "acquire") /\ status' = [status EXCEPT ![ThreadOf[r]] = "initiated"]
        /\ UNCHANGED <<task, calls, ctx, cancels, gone, server>>
    BY <1>2, <1>r DEF CreateThread, SetStatus
  <2> QED BY <2>1 DEF Goto, RunningOwned, SettledWritten, CancelsKnown, RequestKnows, AtWork, SubmitPcs
<1>3. ASSUME NEW r \in Requests, SetRunning(r) PROVE StatusInv'
  <2>1. /\ Goto(r, "setRunning", "register") /\ status' = [status EXCEPT ![ThreadOf[r]] = "running"]
        /\ UNCHANGED <<task, calls, ctx, cancels, gone, server>>
    BY <1>3, <1>r DEF SetRunning, SetStatus
  <2>2. RunningOwned'
    BY <2>1 DEF Goto, RunningOwned, AtWork
  <2>3. SettledWritten' /\ CancelsKnown'
    BY <2>1 DEF Goto, SettledWritten, RequestKnows, CancelsKnown, SubmitPcs
  <2>4. \A u \in Requests : pc[u] \in {"start", "started"} => ThreadOf[u] # ThreadOf[r]
    BY <1>o, <2>1 DEF Goto, InTurn
  <2>5. RequestKnows'
    BY <2>1, <2>4 DEF Goto, RequestKnows, SubmitPcs
  <2> QED BY <2>1, <2>2, <2>3, <2>5
<1>4. ASSUME NEW r \in Requests, Register(r) PROVE StatusInv'
  <2>1. /\ Goto(r, "register", "start") /\ cancels' = [cancels EXCEPT ![ThreadOf[r]] = r]
        /\ UNCHANGED <<status, task, calls, ctx, gone, server>>
    BY <1>4 DEF Register, keyVars, envVars
  <2>2. RunningOwned' /\ SettledWritten'
    BY <2>1 DEF Goto, RunningOwned, SettledWritten, AtWork
  <2>3. CancelsKnown' /\ RequestKnows'
    BY <2>1 DEF Goto, CancelsKnown, RequestKnows, SubmitPcs
  <2> QED BY <2>1, <2>2, <2>3
<1>5. ASSUME NEW r \in Requests, StartAgent(r) \/ CheckContext(r) \/ AgentEnds(r) \/ SetThreadComplete(r)
                                 \/ AppendAnswer(r) \/ LookAtLock(r) \/ Cleanup(r) \/ Unlock(r)
      PROVE  StatusInv'
  <2>1. UNCHANGED <<status, task, calls, ctx, cancels, gone, server>>
    BY <1>5 DEF StartAgent, CheckContext, AgentEnds, SetThreadComplete, AppendAnswer, LookAtLock, Cleanup, Unlock,
                keyVars, processVars, envVars
  <2>2. Written(r) = "cleanup"
    BY DEF Calm, Written
  <2>3. CASE StartAgent(r) \/ AgentEnds(r) \/ SetThreadComplete(r) \/ AppendAnswer(r) \/ Cleanup(r) \/ Unlock(r)
    <3>1. CASE StartAgent(r)
      <4>1. PICK to \in {"started", "complete"} : Goto(r, "start", to) /\ (to = "started" => ctx[r] = "live")
        BY <3>1 DEF StartAgent
      <4> QED BY <1>a, <2>1, <4>1 DEF AtWork, SubmitPcs
    <3>2. CASE AgentEnds(r) \/ SetThreadComplete(r) \/ AppendAnswer(r)
      <4>1. PICK from \in {"agent", "complete", "say"}, to \in {"complete", "say", "look"} : Goto(r, from, to)
        BY <3>2 DEF AgentEnds, SetThreadComplete, AppendAnswer
      <4> QED BY <1>a, <2>1, <4>1 DEF AtWork, SubmitPcs
    <3>3. CASE Cleanup(r) \/ Unlock(r)
      <4>1. PICK from \in {"cleanup", "unlock"}, to \in {"unlock", "forget"} : Goto(r, from, to)
        BY <3>3 DEF Cleanup, Unlock
      <4> QED BY <1>a, <2>1, <4>1 DEF AtWork, SubmitPcs
    <3> QED BY <2>3, <3>1, <3>2, <3>3
  <2>4. CASE CheckContext(r)
    <3>1. CASE ctx[r] = "live"
      BY <1>a, <2>1, <2>4, <3>1 DEF CheckContext, AtWork, SubmitPcs
    <3>2. CASE ctx[r] # "live"
      <4>1. Goto(r, "started", "cleanup")
        BY <2>4, <3>2 DEF CheckContext
      <4>2. ThreadOf[r] \in calls \/ status[ThreadOf[r]] # "running"
        BY <3>2, <4>1 DEF Goto, RequestKnows
      <4> QED BY <1>a, <2>1, <4>1, <4>2 DEF SubmitPcs
    <3> QED BY <3>1, <3>2
  <2>5. CASE LookAtLock(r)
    <3>1. CASE task[ThreadOf[r]] = "none"
      BY <1>a, <2>1, <2>5, <3>1 DEF LookAtLock, AtWork, SubmitPcs
    <3>2. CASE task[ThreadOf[r]] # "none"
      <4>1. Goto(r, "look", "cleanup")
        BY <2>2, <2>5, <3>2 DEF LookAtLock
      <4>2. task[ThreadOf[r]] = "held" \/ status[ThreadOf[r]] # "running"
        BY <3>2 DEF SettledWritten
      <4> QED BY <1>a, <2>1, <4>1, <4>2 DEF SubmitPcs
    <3> QED BY <3>1, <3>2
  <2> QED BY <1>5, <2>3, <2>4, <2>5
<1>6. ASSUME NEW r \in Requests, Settle(r) PROVE StatusInv'
  <2>1. /\ Goto(r, "settle", "cleanup") /\ UNCHANGED <<task, calls, ctx, cancels, gone, server>>
        /\ \E s \in {"complete", "error"} : status' = [status EXCEPT ![ThreadOf[r]] = s]
    BY <1>6 DEF Settle, SetStatus, Calm, Written, processVars, envVars
  <2> QED BY <2>1 DEF Goto, RunningOwned, SettledWritten, CancelsKnown, RequestKnows, AtWork, SubmitPcs
<1>7. ASSUME NEW r \in Requests, Forget(r) PROVE StatusInv'
  <2>1. /\ Goto(r, "forget", "done") /\ cancels' = [cancels EXCEPT ![ThreadOf[r]] = NoRequest]
        /\ UNCHANGED <<status, task, calls, ctx, gone, server>>
    BY <1>7 DEF Forget, Calm, keyVars, envVars
  <2> QED BY <2>1 DEF Goto, RunningOwned, SettledWritten, CancelsKnown, RequestKnows, AtWork, SubmitPcs
<1>8. ASSUME NEW r \in Requests, Deadline(r) PROVE StatusInv'
  BY <1>8 DEF Deadline, keyVars, envVars, RunningOwned, SettledWritten, CancelsKnown, RequestKnows, SubmitPcs
<1>9. ASSUME NEW th \in Threads, Cancel(th) PROVE StatusInv'
  <2>1. /\ cancels[th] \in Requests /\ ThreadOf[cancels[th]] = th
        /\ pc[cancels[th]] \notin {"idle"} \union SubmitPcs
    BY <1>9 DEF Cancel, CancelsKnown
  <2>2. /\ UNCHANGED <<status, task, pc, gone, server>> /\ calls' = calls \union {th}
        /\ cancels' = [cancels EXCEPT ![th] = NoRequest]
        /\ \A r \in Requests \ {cancels[th]} : ctx'[r] = ctx[r]
    BY <1>9 DEF Cancel, keyVars, envVars
  <2> QED BY <2>1, <2>2 DEF RunningOwned, SettledWritten, CancelsKnown, RequestKnows
<1>10. ASSUME NEW th \in Threads, CancelRequest(th) PROVE StatusInv'
  <2>1. /\ calls' = calls \ {th} /\ status' = [status EXCEPT ![th] = "cancelled"]
        /\ UNCHANGED <<task, pc, gone, server, ctx, cancels>>
    BY <1>10, <1>e DEF CancelRequest, Fault, SetStatus
  <2> QED BY <2>1 DEF RunningOwned, SettledWritten, CancelsKnown, RequestKnows
<1>11. ASSUME NEW th \in Threads, TaskLocks(th) PROVE StatusInv'
  <2>1. PICK r \in Requests : ThreadOf[r] = th /\ pc[r] = "agent"
    BY <1>11, <1>e DEF TaskLocks
  <2>2. \A u \in Requests : pc[u] \in {"setRunning", "settle"} => ThreadOf[u] # th
    BY <1>o, <2>1 DEF InTurn, WritePcs, Calm
  <2>3. /\ task[th] = "none" /\ task' = [task EXCEPT ![th] = "held"]
        /\ UNCHANGED <<status, calls, ctx, cancels, gone, server, pc>>
    BY <1>11 DEF TaskLocks, keyVars, processVars
  <2> QED BY <2>2, <2>3 DEF RunningOwned, SettledWritten, CancelsKnown, RequestKnows
<1>12. ASSUME NEW th \in Threads, TaskSettles(th) PROVE StatusInv'
  <2>1. /\ task[th] = "held" /\ task' = [task EXCEPT ![th] = "settled"]
        /\ \E s \in {"complete", "error"} : status' = [status EXCEPT ![th] = s]
        /\ UNCHANGED <<calls, ctx, cancels, gone, server, pc>>
    BY <1>12 DEF TaskSettles, SetStatus, processVars
  <2> QED BY <2>1 DEF RunningOwned, SettledWritten, CancelsKnown, RequestKnows
<1>13. ASSUME NEW th \in Threads, TaskUnlocks(th) PROVE StatusInv'
  <2>1. /\ task[th] = "settled" /\ task' = [task EXCEPT ![th] = "none"]
        /\ UNCHANGED <<status, calls, ctx, cancels, gone, server, pc>>
    BY <1>13 DEF TaskUnlocks, keyVars, processVars
  <2> QED BY <2>1 DEF RunningOwned, SettledWritten, CancelsKnown, RequestKnows
<1>14. CASE \/ \E r \in Requests : Progress(r)
            \/ \E th \in Threads : RunningExpires(th)
            \/ UNCHANGED vars
  <2>1. UNCHANGED <<status, task, calls, ctx, cancels, gone, server, pc>>
    BY <1>14 DEF Progress, RunningExpires, vars, keyVars, processVars, envVars
  <2> QED BY <2>1 DEF RunningOwned, SettledWritten, CancelsKnown, RequestKnows
<1> QED BY <1>n, <1>1, <1>2, <1>3, <1>4, <1>5, <1>6, <1>7, <1>8, <1>9, <1>10, <1>11, <1>12, <1>13, <1>14
        DEF Next, Submit, RunSubprocess

LEMMA UndisturbedStatus ==
  ASSUME Undisturbed
  PROVE  Spec => [](TurnInv /\ Calm /\ RestType /\ StatusInv)
<1>1. Init => TurnInv /\ Calm /\ RestType /\ StatusInv
  BY DEF Init, TurnInv, TurnType, LockMine, InTurn, WritePcs, Verdicts, Calm, HistoryType, RestType, Statuses,
         StatusInv, RunningOwned, SettledWritten, CancelsKnown, RequestKnows
<1>2. TurnInv /\ Calm /\ RestType /\ StatusInv /\ [Next]_vars => (TurnInv /\ Calm /\ RestType /\ StatusInv)'
  BY TurnStays, CalmStays, RestStays, StatusStep DEF Undisturbed
<1> QED BY <1>1, <1>2, PTL DEF Spec

\* While nothing fails, a thread that says "running" has a request in its
\* turn, a task that holds it, or a Cancel call that has yet to write.
THEOREM StatusIsSettled ==
  ASSUME Undisturbed
  PROVE  Spec => []StatusSettles
<1>1. TurnInv /\ Calm /\ RestType /\ StatusInv => StatusSettles
  <2> SUFFICES ASSUME TurnInv, Calm, RestType, StatusInv, NEW th \in Threads,
                      NEW r \in Requests, ThreadOf[r] = th, pc[r] \in AtWork
               PROVE  Turn(th) # NoRequest
    BY DEF StatusSettles, StatusInv, RunningOwned
  <2>1. InTurn(r)
    BY DEF AtWork, InTurn, WritePcs, Calm
  <2>2. Turn(th) \in Requests
    BY <2>1 DEF Turn
  <2> QED BY <2>2
<1> QED BY UndisturbedStatus, <1>1, PTL

\* While nothing fails, the handler does not write the status of a thread on
\* which a task is between its lock and its unlock.
THEOREM StatusIsOwned ==
  ASSUME Undisturbed
  PROVE  Spec => StatusOwner
<1> DEFINE Owner == \A r \in Requests :
                      /\ pc[r] \in {"setRunning", "settle"} /\ pc'[r] # pc[r]
                      /\ task[ThreadOf[r]] # "none"
                      => status'[ThreadOf[r]] = status[ThreadOf[r]]
<1>1. TurnInv /\ Calm /\ RestType /\ StatusInv => [Owner]_vars
  BY DEF StatusInv, RequestKnows
<1> QED BY UndisturbedStatus, <1>1, PTL DEF StatusOwner

-----------------------------------------------------------------------------
(* The handler takes turns: the refinement of TurnTaking.                   *)

\* The points of a request before its message, and those from which it speaks.
Before == {"idle", "exists", "create", "acquire", "append"}
Asked  == {"session", "clear", "lookup", "setRunning", "register", "start", "started", "agent", "complete", "say"}

\* A request that has not written its message has written nothing; the last
\* message of a thread is that of the request that is about to speak.
AskInv ==
  \A r \in Requests :
    /\ pc[r] \in Before => \A i \in DOMAIN history[ThreadOf[r]] : history[ThreadOf[r]][i][1] # r
    /\ pc[r] \in Asked => /\ history[ThreadOf[r]] # << >>
                          /\ history[ThreadOf[r]][Len(history[ThreadOf[r]])][1] = r

\* The turn of a thread is named by the only request that is in it.
TurnsNamed ==
  \A th \in Threads :
    /\ Turn(th) = NoRequest \/ \E r \in Requests : Turn(th) = r /\ ThreadOf[r] = th /\ InTurn(r)
    /\ \A r \in Requests : ThreadOf[r] = th /\ InTurn(r) => Turn(th) = r

LEMMA TurnIsNamed ==
  ASSUME TurnInv
  PROVE  TurnsNamed
<1> SUFFICES ASSUME NEW th \in Threads
             PROVE  /\ \/ Turn(th) = NoRequest
                       \/ \E r \in Requests : Turn(th) = r /\ ThreadOf[r] = th /\ InTurn(r)
                    /\ \A r \in Requests : ThreadOf[r] = th /\ InTurn(r) => Turn(th) = r
  BY DEF TurnsNamed
<1>1. CASE \E r \in Requests : ThreadOf[r] = th /\ InTurn(r)
  <2>1. Turn(th) \in Requests /\ ThreadOf[Turn(th)] = th /\ InTurn(Turn(th))
    BY <1>1 DEF Turn
  <2> QED BY <2>1 DEF TurnInv, LockMine
<1>2. CASE ~\E r \in Requests : ThreadOf[r] = th /\ InTurn(r)
  BY <1>2 DEF Turn
<1> QED BY <1>1, <1>2

\* The message that a write leaves last is the one it wrote.
LEMMA LastWritten ==
  ASSUME HistoryType, NEW r \in Requests,
         NEW kind \in {"request", "plan", "response", "error"}, Write(r, kind)
  PROVE  /\ history'[ThreadOf[r]] # << >>
         /\ history'[ThreadOf[r]][Len(history'[ThreadOf[r]])] = <<r, kind>>
         /\ \A i \in DOMAIN history'[ThreadOf[r]] :
              \/ history'[ThreadOf[r]][i] = <<r, kind>>
              \/ i \in DOMAIN history[ThreadOf[r]] /\ history'[ThreadOf[r]][i] = history[ThreadOf[r]][i]
         /\ \A th \in Threads \ {ThreadOf[r]} : history'[th] = history[th]
<1> DEFINE Message == Requests \X {"request", "plan", "response", "error"}
           s == history[ThreadOf[r]]
           m == <<r, kind>>
<1>1. s \in Seq(Message) /\ m \in Message
  BY DEF HistoryType
<1>2. /\ history'[ThreadOf[r]] = Append(s, m)
      /\ \A th \in Threads \ {ThreadOf[r]} : history'[th] = history[th]
  BY DEF HistoryType, Write
<1> HIDE DEF Message, s, m
<1>3. /\ Append(s, m) \in Seq(Message)
      /\ Len(Append(s, m)) = Len(s) + 1
      /\ Append(s, m)[Len(s) + 1] = m
      /\ \A i \in 1 .. Len(s) : Append(s, m)[i] = s[i]
  BY <1>1
<1>4. /\ DOMAIN s = 1 .. Len(s)
      /\ DOMAIN Append(s, m) = 1 .. Len(s) + 1
      /\ Len(s) \in Nat
  BY <1>1, <1>3
<1>5. Append(s, m) # << >>
  BY <1>3, <1>4
<1>6. \A i \in DOMAIN Append(s, m) : Append(s, m)[i] = m \/ (i \in DOMAIN s /\ Append(s, m)[i] = s[i])
  BY <1>3, <1>4
<1> QED BY <1>2, <1>3, <1>5, <1>6 DEF s, m

\* A write by a request in its turn, at no point before its message.
LEMMA SpeakStep ==
  ASSUME TurnInv, Calm, AskInv, NEW r \in Requests, InTurn(r),
         NEW kind \in {"request", "plan", "response", "error"}, Write(r, kind),
         pc'[r] \notin Before, \A u \in Requests \ {r} : pc'[u] = pc[u]
  PROVE  AskInv'
<1> SUFFICES ASSUME NEW u \in Requests
             PROVE  /\ pc'[u] \in Before =>
                         \A i \in DOMAIN history'[ThreadOf[u]] : history'[ThreadOf[u]][i][1] # u
                    /\ pc'[u] \in Asked => /\ history'[ThreadOf[u]] # << >>
                                           /\ history'[ThreadOf[u]][Len(history'[ThreadOf[u]])][1] = u
  BY DEF AskInv
<1>1. CASE u = r
  BY <1>1, LastWritten DEF Calm
<1>2. CASE u # r /\ ThreadOf[u] # ThreadOf[r]
  BY <1>2, LastWritten DEF Calm, AskInv
<1>3. CASE u # r /\ ThreadOf[u] = ThreadOf[r]
  <2>1. pc'[u] = pc[u] /\ ~InTurn(u)
    BY <1>3 DEF TurnInv, LockMine
  <2>2. CASE pc[u] \in Before
    BY <1>3, <2>1, <2>2, LastWritten DEF Calm, AskInv, Before, Asked
  <2>3. CASE pc[u] \in Asked
    BY <2>1, <2>3 DEF InTurn, Asked, WritePcs, Calm
  <2> QED BY <2>1, <2>2, <2>3
<1> QED BY <1>1, <1>2, <1>3

\* A step after which nobody speaks who did not before.
Silent ==
  /\ UNCHANGED history
  /\ \A u \in Requests : (pc'[u] \in Before => pc[u] \in Before) /\ (pc'[u] \in Asked => pc[u] \in Asked)

NobodyEnters == \A u \in Requests : InTurn(u)' => InTurn(u)

\* Every step but the three that write is silent, and only SET NX brings a
\* request into its turn.
LEMMA SilentStep ==
  ASSUME TurnInv, Calm, "panic" \notin Env, [Next]_vars
  PROVE  \/ \E r \in Requests : AppendRequest(r) \/ Progress(r) \/ AppendAnswer(r)
         \/ Silent /\ (NobodyEnters \/ \E r \in Requests : AcquireRequestLock(r))
<1> USE DEF TurnInv, TurnType, Calm, Silent, NobodyEnters, Before, Asked
<1>a. \A r \in Requests : \A at, next : Ran(r, at, next) => \E to \in {next, OnError(at)} : Goto(r, at, to)
  BY DEF Ran
<1>1. CASE \E r \in Requests : TakeSlot(r) \/ ThreadExists(r) \/ CreateThread(r)
  BY <1>1, <1>a DEF TakeSlot, ThreadExists, CreateThread, Goto, OnError, InTurn, WritePcs, keyVars
<1>2. CASE \E r \in Requests : AcquireRequestLock(r)
  BY <1>2, <1>a DEF AcquireRequestLock, Goto, OnError
<1>3. CASE \E r \in Requests : ChooseSession(r) \/ ReleaseRequestLock(r) \/ ClearThreadComplete(r)
  BY <1>3, <1>a DEF ChooseSession, ReleaseRequestLock, ClearThreadComplete, Goto, OnError, InTurn, WritePcs, keyVars
<1>4. CASE \E r \in Requests : IsThreadLocked(r) \/ SetRunning(r) \/ Register(r)
  BY <1>4, <1>a DEF IsThreadLocked, SetRunning, Register, Goto, OnError, InTurn, WritePcs, keyVars
<1>5. CASE \E r \in Requests : CommandFails(r)
  BY <1>5 DEF CommandFails, SubmitPcs, Goto, OnError, InTurn, WritePcs, keyVars
<1>6. CASE \E r \in Requests : StartAgent(r) \/ CheckContext(r) \/ AgentEnds(r) \/ SetThreadComplete(r)
  BY <1>6 DEF StartAgent, CheckContext, AgentEnds, SetThreadComplete, Goto, InTurn, WritePcs, keyVars, processVars
<1>7. CASE \E r \in Requests : LookAtLock(r) \/ Settle(r) \/ Cleanup(r) \/ Unlock(r) \/ Forget(r)
  BY <1>7 DEF LookAtLock, Settle, Cleanup, Unlock, Forget, Written, Goto, InTurn, WritePcs, keyVars, processVars
<1>8. CASE \E r \in Requests : CommandDropped(r)
  BY <1>8 DEF CommandDropped, Written, Goto, InTurn, WritePcs, keyVars, processVars
<1>9. CASE Exit \/ Crash
  BY <1>9 DEF Exit, Crash, Restart, InTurn, WritePcs, SubmitPcs, GoPcs, keyVars
<1>10. CASE \/ \E r \in Requests : Deadline(r) \/ Disconnect(r)
            \/ \E th \in Threads : \/ Cancel(th) \/ CancelRequest(th) \/ RunningExpires(th)
                                   \/ TaskLocks(th) \/ TaskSettles(th) \/ TaskUnlocks(th)
            \/ Shutdown \/ Drained \/ UNCHANGED vars
  <2>1. UNCHANGED <<pc, verdict, history>>
    BY <1>10 DEF Deadline, Disconnect, Cancel, CancelRequest, RunningExpires, TaskLocks, TaskSettles, TaskUnlocks,
                 Shutdown, Drained, vars, keyVars, processVars
  <2> QED BY <2>1 DEF InTurn
<1>11. \A r \in Requests : ~Panic(r)
  BY DEF Panic, Fault
<1> QED BY <1>1, <1>2, <1>3, <1>4, <1>5, <1>6, <1>7, <1>8, <1>9, <1>10, <1>11 DEF Next, Submit, RunSubprocess

\* The three steps that write leave the turns as they are.
LEMMA SayStep ==
  ASSUME TurnInv, Calm, NEW r \in Requests, AppendRequest(r) \/ Progress(r) \/ AppendAnswer(r)
  PROVE  /\ InTurn(r)
         /\ \A u \in Requests : InTurn(u)' <=> InTurn(u)
         /\ pc'[r] \notin Before /\ \A u \in Requests \ {r} : pc'[u] = pc[u]
         /\ \/ pc[r] \in Before /\ Write(r, "request")
            \/ pc[r] \in Asked /\ \E kind \in {"plan", "response", "error"} : Write(r, kind)
<1> USE DEF TurnInv, TurnType, Calm, Before, Asked, Goto, InTurn, WritePcs
<1>1. CASE AppendRequest(r)
  BY <1>1 DEF AppendRequest, Ran, OnError
<1>2. CASE Progress(r)
  BY <1>2 DEF Progress, processVars
<1>3. CASE AppendAnswer(r)
  BY <1>3 DEF AppendAnswer, processVars
<1> QED BY <1>1, <1>2, <1>3

LEMMA AskStays ==
  ASSUME TurnInv, Calm, AskInv, "panic" \notin Env, [Next]_vars
  PROVE  AskInv'
<1>1. CASE Silent
  BY <1>1 DEF Silent, AskInv
<1>2. ASSUME NEW r \in Requests, AppendRequest(r) \/ Progress(r) \/ AppendAnswer(r)
      PROVE  AskInv'
  <2>1. PICK kind \in {"request", "plan", "response", "error"} : Write(r, kind)
    BY <1>2, SayStep
  <2> QED BY <1>2, <2>1, SayStep, SpeakStep
<1> QED BY <1>1, <1>2, SilentStep

\* Turns that no request enters can only end.
LEMMA EndStep ==
  ASSUME TurnsNamed, TurnsNamed', UNCHANGED history, NobodyEnters
  PROVE  Turns!End
<1>1. \A th \in Threads : Turn(th)' \in {NoRequest, Turn(th)}
  <2> SUFFICES ASSUME NEW th \in Threads, Turn(th)' # NoRequest
               PROVE  Turn(th)' = Turn(th)
    OBVIOUS
  <2>1. PICK u \in Requests : Turn(th)' = u /\ ThreadOf[u] = th /\ InTurn(u)'
    BY DEF TurnsNamed
  <2> QED BY <2>1 DEF TurnsNamed, NobodyEnters
<1> DEFINE ths == {th \in Threads : Turn(th)' = NoRequest}
<1>2. [th \in Threads |-> Turn(th)]' = [th \in Threads |-> IF th \in ths THEN NoRequest ELSE Turn(th)]
  BY <1>1
<1>3. ths \in SUBSET Threads
  OBVIOUS
<1> QED BY <1>2, <1>3 DEF Turns!End

\* SET NX of a free lock: nobody is in the turn that r takes.
LEMMA BeginStep ==
  ASSUME TurnInv, TurnInv', TurnsNamed, TurnsNamed', UNCHANGED history, NEW r \in Requests, AcquireRequestLock(r)
  PROVE  NobodyEnters \/ Turns!Begin(r)
<1> USE DEF TurnInv, TurnType
<1>a. \A at, next : Ran(r, at, next) => \E to \in {next, OnError(at)} : Goto(r, at, to)
  BY DEF Ran
<1>1. \A u \in Requests \ {r} : InTurn(u)' <=> InTurn(u)
  BY <1>a DEF AcquireRequestLock, Goto, InTurn
<1>2. CASE ~InTurn(r)'
  BY <1>1, <1>2 DEF NobodyEnters
<1>3. CASE InTurn(r)'
  <2>1. running[ThreadOf[r]] = NoRequest
    BY <1>3, <1>a DEF AcquireRequestLock, Goto, OnError, InTurn, WritePcs
  <2>2. Turn(ThreadOf[r]) = NoRequest
    BY <2>1 DEF TurnsNamed, LockMine
  <2>3. Turn(ThreadOf[r])' = r
    BY <1>3 DEF TurnsNamed
  <2>4. \A th \in Threads \ {ThreadOf[r]} : Turn(th)' = Turn(th)
    <3> SUFFICES ASSUME NEW th \in Threads \ {ThreadOf[r]} PROVE Turn(th)' = Turn(th)
      OBVIOUS
    <3>1. CASE Turn(th) = NoRequest
      BY <1>1, <3>1 DEF TurnsNamed
    <3>2. ASSUME NEW u \in Requests, Turn(th) = u, ThreadOf[u] = th, InTurn(u) PROVE Turn(th)' = Turn(th)
      <4>1. InTurn(u)'
        BY <1>1, <3>2
      <4> QED BY <3>2, <4>1 DEF TurnsNamed
    <3> QED BY <3>1, <3>2 DEF TurnsNamed
  <2>5. [th \in Threads |-> Turn(th)]' = [[th \in Threads |-> Turn(th)] EXCEPT ![ThreadOf[r]] = r]
    BY <2>3, <2>4
  <2> QED BY <2>2, <2>5 DEF Turns!Begin
<1> QED BY <1>2, <1>3

\* What a request in its turn writes is its question, once, or an answer to it.
LEMMA SpeaksInTurn ==
  ASSUME TurnInv, Calm, AskInv, TurnsNamed, TurnsNamed',
         NEW r \in Requests, AppendRequest(r) \/ Progress(r) \/ AppendAnswer(r)
  PROVE  Turns!Ask(r) \/ Turns!Say(r)
<1>1. \A th \in Threads : Turn(th)' = Turn(th)
  <2> SUFFICES ASSUME NEW th \in Threads PROVE Turn(th)' = Turn(th)
    OBVIOUS
  <2>1. \A u \in Requests : InTurn(u)' <=> InTurn(u)
    BY SayStep
  <2>2. CASE Turn(th)' = NoRequest
    BY <2>1, <2>2 DEF TurnsNamed
  <2>3. ASSUME NEW u \in Requests, Turn(th)' = u, ThreadOf[u] = th, InTurn(u)' PROVE Turn(th)' = Turn(th)
    BY <2>1, <2>3 DEF TurnsNamed
  <2> QED BY <2>2, <2>3 DEF TurnsNamed
<1>2. UNCHANGED [th \in Threads |-> Turn(th)]
  BY <1>1
<1>3. [th \in Threads |-> Turn(th)][ThreadOf[r]] = r
  BY SayStep DEF TurnsNamed
<1>4. CASE pc[r] \in Before /\ Write(r, "request")
  BY <1>2, <1>3, <1>4 DEF AskInv, Write, Turns!Ask, Turns!Turn
<1>5. CASE pc[r] \in Asked /\ \E kind \in {"plan", "response", "error"} : Write(r, kind)
  BY <1>2, <1>3, <1>5 DEF AskInv, Write, Turns!Say, Turns!Turn, Turns!Said
<1> QED BY <1>4, <1>5, SayStep

\* Whatever fails, stops, is cancelled or crashes, the histories of the threads
\* are written in turns: a request asks, once, and says its plans and its
\* answer with no message of another request between, provided the lock
\* outlives its request and no goroutine panics.
THEOREM HandlerTakesTurns ==
  ASSUME "shortTTL" \notin Env, "panic" \notin Env
  PROVE  Spec => TakesTurns
<1> DEFINE Inv == TurnInv /\ Calm /\ AskInv /\ TurnsNamed
<1>1. Init => Inv /\ Turns!Init
  <2> SUFFICES ASSUME Init PROVE Inv /\ Turns!Init
    OBVIOUS
  <2>1. TurnInv /\ Calm /\ AskInv /\ \A r \in Requests : ~InTurn(r)
    BY DEF Init, TurnInv, TurnType, LockMine, InTurn, WritePcs, Verdicts, Calm, HistoryType, AskInv, Asked
  <2>2. \A th \in Threads : Turn(th) = NoRequest
    BY <2>1 DEF Turn
  <2> QED BY <2>1, <2>2, TurnIsNamed DEF Init, Turns!Init
<1>2. Inv /\ [Next]_vars => TurnInv' /\ Calm' /\ AskInv'
  BY TurnStays, CalmStays, AskStays
<1>3. TurnInv => TurnsNamed
  BY TurnIsNamed
<1>4. Inv /\ Inv' /\ [Next]_vars => [Turns!Next]_<<[th \in Threads |-> Turn(th)], history>>
  <2> SUFFICES ASSUME Inv, Inv', [Next]_vars PROVE Turns!Next
    OBVIOUS
  <2>1. CASE \E r \in Requests : AppendRequest(r) \/ Progress(r) \/ AppendAnswer(r)
    BY <2>1, SpeaksInTurn DEF Turns!Next
  <2>2. CASE Silent /\ NobodyEnters
    BY <2>2, EndStep DEF Silent, Turns!Next
  <2>3. CASE Silent /\ \E r \in Requests : AcquireRequestLock(r)
    BY <2>3, EndStep, BeginStep DEF Silent, Turns!Next
  <2> QED BY <2>1, <2>2, <2>3, SilentStep
<1> QED BY <1>1, <1>2, <1>3, <1>4, PTL DEF Spec, TakesTurns, Turns!Spec

=============================================================================
