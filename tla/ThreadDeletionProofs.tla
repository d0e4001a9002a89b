------------------------ MODULE ThreadDeletionProofs -------------------------
(***************************************************************************)
(* Proofs about ThreadDeletion, for any threads, tasks and callers.        *)
(*                                                                         *)
(* The request lock: a turn holds it and a deletion that has deleted       *)
(* nothing yet holds it, unless a deletion from above has taken it away;   *)
(* so the two exclude each other.                                          *)
(*                                                                         *)
(* The tasks: an outcome is final, so a task that the loop has passed is   *)
(* over, and one that was under way before is met by the loop.             *)
(*                                                                         *)
(* The types, and the tree: the threads there are are finitely many, and   *)
(* of those OperatorProofs knows what discovery finds.                     *)
(***************************************************************************)
EXTENDS ThreadReads, OperatorProofs

Points == {"idle", "acquire", "release", "over"} \union Checking \union Deleting \union Workspace

\* What the arguments need of the types.
TypeInv ==
  /\ running \in [Threads -> {"free", "request", "deleting"}]
  /\ req \in [Threads -> {"idle", "submit", "turn"}]
  /\ status \in [Tasks -> {"none", "pending", "running", "done"}]
  /\ tpc \in [Tasks -> {"idle", "locked", "enqueued", "agent", "ended", "touched", "over"}]
  /\ dpc \in [Threads -> Points]
  /\ DOMAIN subtree = Threads
  /\ DOMAIN todo = Threads
  /\ DOMAIN earlier = Threads

\* Another deletion took thread r with its tree and has begun to delete, or
\* may have.
Covered(r) ==
  \E s \in Threads \ {r} : r \in subtree[s] /\ dpc[s] \in {"del", "clean", "release", "over"}

\* The loops stay within the tree.
TodoInTree == \A r \in Threads : todo[r] \subseteq Everything(r)

TurnHolds ==
  \A r \in Threads : req[r] = "turn" =>
    running[r] = "request" \/ Covered(r) \/ dpc[r] \in {"clean", "release", "over"}

DeletionHolds ==
  \A r \in Threads : dpc[r] \in Checking \union {"del", "remove"} => running[r] = "deleting" \/ Covered(r)

RootInv == TypeInv /\ TodoInTree /\ TurnHolds /\ DeletionHolds

USE DeletionAssumption

LEMMA RootInvInit == Init => RootInv
BY DEF Init, RootInv, TypeInv, TodoInTree, TurnHolds, DeletionHolds, Points, Checking, Deleting, Workspace

-----------------------------------------------------------------------------
(* How the steps change what these invariants speak of. *)

\* The deletions are where they were.
DeletionsStay == UNCHANGED <<dpc, subtree, todo>>

\* Deletion r goes on from one point to another, in a loop or behind it.
Moves(r, from, to) ==
  /\ dpc[r] = from /\ dpc' = [dpc EXCEPT ![r] = to]
  /\ UNCHANGED subtree
  /\ \/ UNCHANGED todo
     \/ \E th : todo' = [todo EXCEPT ![r] = @ \ {th}]
     \/ todo' = [todo EXCEPT ![r] = Everything(r)]
     \/ to = "over" /\ todo' = [x \in Threads |-> IF x = r THEN {} ELSE todo[x]]

LEMMA ReturnMoves ==
  ASSUME TypeInv, NEW r \in Threads, Return({r})
  PROVE  Moves(r, dpc[r], "over") /\ DOMAIN earlier' = Threads
<1>1. dpc' = [dpc EXCEPT ![r] = "over"]
  BY DEF TypeInv, Return
<1> QED BY <1>1 DEF TypeInv, Return, Moves

LEMMA MovesKeepTree ==
  ASSUME TypeInv, TodoInTree, NEW r \in Threads, NEW from, NEW to \in Points, Moves(r, from, to)
  PROVE  TodoInTree' /\ dpc' \in [Threads -> Points] /\ DOMAIN subtree' = Threads /\ DOMAIN todo' = Threads
BY DEF TypeInv, TodoInTree, Everything, Moves

-----------------------------------------------------------------------------
\* The steps of requests, tasks and create leave the deletions alone, but for
\* what they remember of the requests.
Surroundings ==
  \/ \E th \in Threads :
       \/ Submit(th) \/ AcquireRequestLock(th) \/ EndTurn(th) \/ Expire(th)
       \/ \E p \in Threads : CheckCreate(th, p) \/ CreateThread(th, p)
  \/ \E t \in Tasks : \/ LockThread(t) \/ Push(t) \/ RunTask(t) \/ StoreResult(t)
                      \/ TouchThread(t) \/ RemoveActiveTask(t) \/ WorkerCrash(t)
                      \/ UnlockThread(t)

LEMMA SurroundingsType ==
  ASSUME TypeInv, Surroundings
  PROVE  TypeInv' /\ DeletionsStay
<1> USE DEF TypeInv, DeletionsStay
<1>1. ASSUME NEW th \in Threads, Submit(th) \/ AcquireRequestLock(th) \/ Expire(th)
      PROVE  TypeInv' /\ DeletionsStay
  <2>1. CASE Submit(th)
    BY <2>1 DEF Submit, deleteVars
  <2>2. CASE AcquireRequestLock(th)
    BY <2>2 DEF AcquireRequestLock, deleteVars
  <2>3. CASE Expire(th)
    BY <2>3 DEF Expire, actorVars, deleteVars
  <2> QED BY <1>1, <2>1, <2>2, <2>3
<1>5. ASSUME NEW th \in Threads, EndTurn(th)
      PROVE  TypeInv' /\ DeletionsStay
  BY <1>5 DEF EndTurn
<1>2. ASSUME NEW th \in Threads, NEW p \in Threads, CheckCreate(th, p) \/ CreateThread(th, p)
      PROVE  TypeInv' /\ DeletionsStay
  BY <1>2 DEF CheckCreate, CreateThread, keyVars, deleteVars
<1>3. ASSUME NEW t \in Tasks, LockThread(t) \/ Push(t) \/ RunTask(t) \/ StoreResult(t)
      PROVE  TypeInv' /\ DeletionsStay
  BY <1>3 DEF LockThread, Push, RunTask, StoreResult, TaskStep, SetStatus, deleteVars
<1>4. ASSUME NEW t \in Tasks, TouchThread(t) \/ RemoveActiveTask(t) \/ WorkerCrash(t) \/ UnlockThread(t)
      PROVE  TypeInv' /\ DeletionsStay
  BY <1>4 DEF TouchThread, RemoveActiveTask, WorkerCrash, UnlockThread, TaskStep, keyVars, actorVars, deleteVars
<1> QED BY <1>1, <1>2, <1>3, <1>4, <1>5 DEF Surroundings

\* The steps of a deletion that hold its lock and take nobody else's.
Checks(r) ==
  \/ GetLockHolder(r) \/ HolderStatus(r) \/ ClearStale(r) \/ IsRequestRunning(r) \/ CleanUp(r)
  \/ \E th \in Threads : IsThreadLocked(r, th) \/ CheckTasks(r, th)

\* A check goes on to another check, to the deletion or to the end.
ChecksMoved(r) ==
  /\ UNCHANGED <<running, req, status, tpc, earlier>>
  /\ Moves(r, dpc[r], dpc'[r])
  /\ \/ dpc[r] \in Checking /\ dpc'[r] \in Checking \union {"release"}
     \/ dpc[r] = "tasks" /\ dpc'[r] = "del"
     \/ dpc[r] = "clean" /\ dpc'[r] = "release"

LEMMA ChecksMove ==
  ASSUME TypeInv, NEW r \in Threads, Checks(r)
  PROVE  ChecksMoved(r)
<1> USE DEF keyVars, actorVars, ChecksMoved, Checking
<1>0. DOMAIN dpc = Threads
  BY DEF TypeInv
<1>1. CASE GetLockHolder(r) \/ HolderStatus(r) \/ CleanUp(r)
  BY <1>0, <1>1 DEF GetLockHolder, HolderStatus, CleanUp, Goto, Moves
<1>2. ASSUME NEW th, NEW loop \in Points, NEW next \in Points,
             Behind(r, th, loop, next), UNCHANGED subtree
      PROVE  Moves(r, dpc[r], dpc'[r]) /\ dpc'[r] \in {loop, next}
  BY <1>0, <1>2 DEF Behind, Goto, Moves
<1>3. {"locked", "tasks", "del"} \subseteq Points
  BY DEF Points, Deleting
<1>4. CASE ClearStale(r)
  BY <1>2, <1>3, <1>4 DEF ClearStale
<1>5. CASE IsRequestRunning(r)
  <2>1. CASE Behind(r, at[r], "locked", "tasks")
    BY <1>2, <1>3, <1>5, <2>1 DEF IsRequestRunning
  <2>2. CASE Goto(r, "running", "release") /\ UNCHANGED todo
    BY <1>0, <1>5, <2>2 DEF IsRequestRunning, Goto, Moves
  <2> QED BY <1>5, <2>1, <2>2 DEF IsRequestRunning
<1>6. ASSUME NEW th \in Threads, IsThreadLocked(r, th) PROVE ChecksMoved(r)
  <2>1. CASE Behind(r, th, "locked", "tasks")
    BY <1>2, <1>3, <1>6, <2>1 DEF IsThreadLocked
  <2>2. CASE Goto(r, "locked", IF lock[th] # NoTask THEN "holder" ELSE "running") /\ UNCHANGED todo
    BY <1>0, <1>6, <2>2 DEF IsThreadLocked, Goto, Moves
  <2> QED BY <1>6, <2>1, <2>2 DEF IsThreadLocked
<1>7. ASSUME NEW th \in Threads, CheckTasks(r, th) PROVE ChecksMoved(r)
  <2>1. CASE Behind(r, th, "tasks", "del")
    BY <1>2, <1>3, <1>7, <2>1 DEF CheckTasks
  <2>2. CASE Goto(r, "tasks", "release") /\ UNCHANGED todo
    BY <1>0, <1>7, <2>2 DEF CheckTasks, Goto, Moves
  <2> QED BY <1>7, <2>1, <2>2 DEF CheckTasks
<1> QED BY <1>1, <1>4, <1>5, <1>6, <1>7 DEF Checks

-----------------------------------------------------------------------------
\* The steps of a handler that deletes a thread or its workspace.
Deletes(r) ==
  \/ StartDelete(r) \/ DeleteThread(r) \/ CommandFails(r)
  \/ StartWorkspace(r) \/ DeleteWorkspace(r)

\* What a step of a deletion does to its place and to the request locks.
LockEffect(r) ==
  \/ (Moves(r, "idle", "acquire") \/ Moves(r, "idle", "ask")) /\ UNCHANGED running
  \/ /\ Moves(r, "acquire", "discover") \/ Moves(r, "ask", "remove")
     /\ running[r] = "free" /\ running' = [running EXCEPT ![r] = "deleting"]
  \/ /\ dpc[r] = "discover" /\ dpc' = [dpc EXCEPT ![r] = "locked"]
     /\ \E below : /\ subtree' = [subtree EXCEPT ![r] = below]
                   /\ todo' = [todo EXCEPT ![r] = below \union {r}]
     /\ UNCHANGED running
  \/ ChecksMoved(r)
  \/ dpc[r] \in Checking /\ Moves(r, dpc[r], "release") /\ UNCHANGED running
  \/ /\ dpc'[r] \in {"del", "clean", "release"} /\ Moves(r, "del", dpc'[r])
     /\ \/ \E th \in Everything(r) : /\ th = r => dpc'[r] # "del"
                                    /\ running' = [running EXCEPT ![th] = "free"]
        \/ UNCHANGED running
  \/ Moves(r, "remove", "release") /\ UNCHANGED running
  \/ dpc[r] \in {"acquire", "ask"} /\ Moves(r, dpc[r], "over") /\ UNCHANGED running
  \/ /\ dpc[r] = "release" /\ Moves(r, dpc[r], "over")
     /\ running' = [running EXCEPT ![r] = "free"] \/ UNCHANGED running

LEMMA DeletionEffect ==
  ASSUME TypeInv, TodoInTree, NEW r \in Threads,
         Deletes(r)
  PROVE  LockEffect(r) /\ UNCHANGED <<req, status, tpc>> /\ DOMAIN earlier' = Threads
<1> DEFINE Goal == LockEffect(r) /\ UNCHANGED <<req, status, tpc>> /\ DOMAIN earlier' = Threads
<1> USE DEF keyVars, actorVars
<1>0. DOMAIN dpc = Threads /\ DOMAIN earlier = Threads
  BY DEF TypeInv
<1>1. CASE StartDelete(r)
  BY <1>0, <1>1 DEF StartDelete, Goto, LockEffect, Moves
<1>2. CASE Acquire(r)
  <2>1. CASE running[r] = "free"
    BY <1>0, <1>2, <2>1 DEF Acquire, Goto, LockEffect, Moves
  <2>2. CASE dpc[r] = "acquire" /\ Return({r}) /\ UNCHANGED running
    BY <1>0, <1>2, <2>2, ReturnMoves DEF Acquire, LockEffect
  <2> QED BY <1>2, <2>1, <2>2 DEF Acquire
<1>3. CASE Discover(r)
  BY <1>0, <1>3 DEF Discover, Goto, LockEffect, TypeInv
<1>4. CASE Checks(r)
  BY <1>0, <1>4, ChecksMove DEF LockEffect, ChecksMoved
<1>5. ASSUME NEW th \in Threads, DeleteKeys(r, th) PROVE Goal
  <2>1. th \in Everything(r)
    BY <1>5 DEF DeleteKeys, Among, TodoInTree
  <2>2. /\ dpc'[r] \in {"del", "clean", "release"} /\ Moves(r, "del", dpc'[r])
        /\ th = r => dpc'[r] # "del"
    BY <1>0, <1>5 DEF DeleteKeys, Behind, Goto, Moves
  <2>3. running' = [running EXCEPT ![th] = "free"] \/ UNCHANGED running
    BY <1>5 DEF DeleteKeys
  <2>4. UNCHANGED <<req, status, tpc, earlier>>
    BY <1>5 DEF DeleteKeys
  <2> QED BY <1>0, <2>1, <2>2, <2>3, <2>4 DEF LockEffect
<1>6. CASE Release(r)
  BY <1>6, ReturnMoves DEF Release, LockEffect
<1>7. CASE CommandFails(r)
  <2>1. CASE dpc[r] \in {"acquire", "ask", "release"} /\ Return({r})
    BY <1>7, <2>1, ReturnMoves DEF CommandFails, LockEffect
  <2>2. ASSUME NEW from \in Checking, Goto(r, from, "release"),
               UNCHANGED <<subtree, todo, at, holder, failed, blind, earlier>>
        PROVE  Goal
    BY <1>0, <1>7, <2>2 DEF CommandFails, Goto, LockEffect, Moves
  <2> QED BY <1>7, <2>1, <2>2 DEF CommandFails
<1>8. CASE StartWorkspace(r)
  BY <1>0, <1>8 DEF StartWorkspace, Goto, LockEffect, Moves
<1>9. CASE AcquireWorkspace(r)
  <2>1. CASE running[r] = "free"
    BY <1>0, <1>9, <2>1 DEF AcquireWorkspace, Goto, LockEffect, Moves
  <2>2. CASE dpc[r] = "ask" /\ Return({r}) /\ UNCHANGED running
    BY <1>0, <1>9, <2>2, ReturnMoves DEF AcquireWorkspace, LockEffect
  <2> QED BY <1>9, <2>1, <2>2 DEF AcquireWorkspace
<1>10. CASE RemoveWorkspace(r)
  BY <1>0, <1>10 DEF RemoveWorkspace, Goto, LockEffect, Moves
<1> QED BY <1>1, <1>2, <1>3, <1>4, <1>5, <1>6, <1>7, <1>8, <1>9, <1>10
        DEF Deletes, DeleteThread, DeleteWorkspace, Checks

\* Such a step keeps the types and the loops within the tree, ...
LEMMA EffectType ==
  ASSUME TypeInv, TodoInTree, NEW r \in Threads, LockEffect(r),
         UNCHANGED <<req, status, tpc>>, DOMAIN earlier' = Threads
  PROVE  TypeInv' /\ TodoInTree'
<1>1. running' \in [Threads -> {"free", "request", "deleting"}]
  BY DEF TypeInv, LockEffect, ChecksMoved
<1>2. ASSUME NEW from, NEW to \in Points, Moves(r, from, to) PROVE TypeInv' /\ TodoInTree'
  BY <1>1, <1>2, MovesKeepTree DEF TypeInv
<1>3. CASE \E below : /\ dpc' = [dpc EXCEPT ![r] = "locked"]
                      /\ subtree' = [subtree EXCEPT ![r] = below]
                      /\ todo' = [todo EXCEPT ![r] = below \union {r}]
  BY <1>1, <1>3 DEF TypeInv, TodoInTree, Everything, Points, Checking
<1> QED BY <1>2, <1>3 DEF LockEffect, ChecksMoved, Points, Checking, Deleting, Workspace

\* ... covers what was covered, ...
LEMMA EffectCovers ==
  ASSUME TypeInv, NEW r \in Threads, LockEffect(r), NEW x \in Threads, Covered(x)
  PROVE  Covered(x)'
<1>1. PICK s \in Threads \ {x} : x \in subtree[s] /\ dpc[s] \in {"del", "clean", "release", "over"}
  BY DEF Covered
<1>2. subtree'[s] = subtree[s]
  BY <1>1 DEF LockEffect, ChecksMoved, Moves, TypeInv
<1>3. dpc'[s] \in {"del", "clean", "release", "over"}
  BY <1>1 DEF LockEffect, ChecksMoved, Moves, TypeInv, Checking
<1> QED BY <1>1, <1>2, <1>3 DEF Covered

\* ... and takes no lock but a free one or its own, unless it covers.
LEMMA EffectHolds ==
  ASSUME RootInv, NEW r \in Threads, LockEffect(r), UNCHANGED <<req, status, tpc>>
  PROVE  TurnHolds' /\ DeletionHolds'
<1> USE DEF RootInv
<1>0. \A x \in Threads : Covered(x) => Covered(x)'
  BY EffectCovers
<1>1. ASSUME NEW x \in Threads \ {r} PROVE dpc'[x] = dpc[x]
  BY <1>1 DEF LockEffect, ChecksMoved, Moves, TypeInv
<1>2. ASSUME NEW x \in Threads \ {r}, running'[x] # running[x] PROVE Covered(x)'
  <2>1. /\ dpc[r] = "del" /\ dpc'[r] \in {"del", "clean", "release"}
        /\ x \in Everything(r) /\ UNCHANGED subtree
    BY <1>2 DEF LockEffect, ChecksMoved, Moves, TypeInv
  <2> QED BY <1>2, <2>1 DEF Covered, Everything
<1>3. ASSUME NEW x \in Threads, req'[x] = "turn"
      PROVE  running'[x] = "request" \/ Covered(x)' \/ dpc'[x] \in {"clean", "release", "over"}
  <2>0. running[x] = "request" \/ Covered(x) \/ dpc[x] \in {"clean", "release", "over"}
    BY <1>3 DEF TurnHolds
  <2>1. CASE x # r
    BY <1>0, <1>1, <1>2, <2>0, <2>1
  <2>2. CASE x = r /\ dpc[r] \in {"clean", "release", "over"}
    BY <2>2 DEF LockEffect, ChecksMoved, Moves, TypeInv, Checking
  <2>3. CASE x = r /\ running[r] = "request" /\ dpc[r] \notin {"clean", "release", "over"}
    <3>1. CASE UNCHANGED running
      BY <2>3, <3>1
    <3>2. CASE dpc[r] = "del"
      BY <1>0, <2>3, <3>2 DEF DeletionHolds
    <3> QED BY <2>3, <3>1, <3>2 DEF LockEffect, ChecksMoved, Moves
  <2> QED BY <1>0, <2>0, <2>1, <2>2, <2>3
<1>4. ASSUME NEW x \in Threads, dpc'[x] \in Checking \union {"del", "remove"}
      PROVE  running'[x] = "deleting" \/ Covered(x)'
  <2>1. CASE x # r
    BY <1>0, <1>1, <1>2, <1>4, <2>1 DEF DeletionHolds
  <2>2. CASE x = r /\ dpc[r] \in Checking
    BY <1>0, <2>2 DEF DeletionHolds, LockEffect, ChecksMoved, Moves, Checking
  <2>3. CASE x = r /\ dpc[r] \in {"acquire", "ask"}
    BY <1>4, <2>3 DEF LockEffect, ChecksMoved, Moves, TypeInv, Checking
  <2>4. CASE x = r /\ dpc[r] = "del"
    BY <1>0, <1>4, <2>4 DEF DeletionHolds, LockEffect, ChecksMoved, Moves, TypeInv, Checking
  <2> QED BY <1>4, <2>1, <2>2, <2>3, <2>4 DEF LockEffect, ChecksMoved, Moves, TypeInv, Checking
<1> QED BY <1>3, <1>4 DEF TurnHolds, DeletionHolds

\* Requests and tasks take no lock but a free one, and free one only at the end
\* of a turn or of its TTL.
LEMMA SurroundingsHold ==
  ASSUME RootInv, Surroundings
  PROVE  RootInv'
<1> USE DEF RootInv
<1>1. TypeInv' /\ DeletionsStay
  BY SurroundingsType
<1>2. TodoInTree' /\ \A x \in Threads : Covered(x)' <=> Covered(x)
  BY <1>1 DEF DeletionsStay, TodoInTree, Everything, Covered
<1>3. ASSUME UNCHANGED <<running, req>> PROVE TurnHolds' /\ DeletionHolds'
  BY <1>1, <1>2, <1>3 DEF DeletionsStay, TurnHolds, DeletionHolds
<1>4. ASSUME NEW th \in Threads, Submit(th) PROVE TurnHolds' /\ DeletionHolds'
  BY <1>1, <1>2, <1>4 DEF DeletionsStay, TurnHolds, DeletionHolds, Submit, TypeInv
<1>5. ASSUME NEW th \in Threads, AcquireRequestLock(th) PROVE TurnHolds' /\ DeletionHolds'
  BY <1>1, <1>2, <1>5 DEF DeletionsStay, TurnHolds, DeletionHolds, AcquireRequestLock, TypeInv
<1>6. ASSUME NEW th \in Threads, EndTurn(th) PROVE TurnHolds' /\ DeletionHolds'
  <2>1. dpc[th] \in Checking \union {"del", "remove"} => Covered(th)
    BY <1>6 DEF EndTurn, TurnHolds, DeletionHolds, Checking
  <2> QED BY <1>1, <1>2, <1>6, <2>1 DEF DeletionsStay, TurnHolds, DeletionHolds, EndTurn, TypeInv
<1>7. ASSUME NEW th \in Threads, Expire(th) PROVE TurnHolds' /\ DeletionHolds'
  <2>1. dpc[th] \in Checking \union {"del", "remove"} => Covered(th)
    BY <1>7 DEF Expire, DeletionHolds, Checking, TypeInv
  <2>2. req[th] = "turn" => Covered(th) \/ dpc[th] \in {"clean", "release", "over"}
    BY <1>7 DEF Expire, TurnHolds, TypeInv
  <2> QED BY <1>1, <1>2, <1>7, <2>1, <2>2
          DEF DeletionsStay, TurnHolds, DeletionHolds, Expire, actorVars, TypeInv
<1>8. ASSUME NEW th \in Threads, NEW p \in Threads, CheckCreate(th, p) \/ CreateThread(th, p)
      PROVE  TurnHolds' /\ DeletionHolds'
  BY <1>3, <1>8 DEF CheckCreate, CreateThread, keyVars
<1>9. ASSUME NEW t \in Tasks, LockThread(t) \/ Push(t) \/ RunTask(t) \/ StoreResult(t)
      PROVE  TurnHolds' /\ DeletionHolds'
  BY <1>3, <1>9 DEF LockThread, Push, RunTask, StoreResult
<1>10. ASSUME NEW t \in Tasks, TouchThread(t) \/ RemoveActiveTask(t) \/ WorkerCrash(t) \/ UnlockThread(t)
       PROVE  TurnHolds' /\ DeletionHolds'
  BY <1>3, <1>10 DEF TouchThread, RemoveActiveTask, WorkerCrash, UnlockThread, keyVars, actorVars
<1> QED BY <1>1, <1>2, <1>4, <1>5, <1>6, <1>7, <1>8, <1>9, <1>10 DEF Surroundings

\* The death of the web UI ends turns and deletions; their locks stay.
LEMMA CrashHolds ==
  ASSUME RootInv, Crash
  PROVE  RootInv'
<1> USE DEF RootInv
<1>1. /\ UNCHANGED <<running, status, tpc, subtree>>
      /\ \A r \in Threads : dpc'[r] = IF dpc[r] = "idle" THEN "idle" ELSE "over"
      /\ \A r \in Threads : todo'[r] = {} \/ todo'[r] = todo[r]
      /\ \A r \in Threads : req'[r] = "idle"
  BY DEF Crash, Return, keyVars, TypeInv
<1>2. TypeInv'
  BY <1>1 DEF Crash, Return, TypeInv, Points
<1>3. TodoInTree'
  BY <1>1 DEF TodoInTree, Everything
<1> QED BY <1>1, <1>2, <1>3 DEF TurnHolds, DeletionHolds, Checking

LEMMA RootInvStep == RootInv /\ [Next]_vars => RootInv'
<1> SUFFICES ASSUME RootInv, [Next]_vars PROVE RootInv'
  OBVIOUS
<1>1. ASSUME NEW r \in Threads, Deletes(r) PROVE RootInv'
  BY <1>1, DeletionEffect, EffectType, EffectHolds DEF RootInv
<1>2. CASE UNCHANGED vars
  BY <1>2 DEF vars, keyVars, actorVars, deleteVars, RootInv, TypeInv, TodoInTree, Everything,
     TurnHolds, DeletionHolds, Covered
<1> QED BY <1>1, <1>2, CrashHolds, SurroundingsHold DEF Next, Deletes, Surroundings

\* From the moment a deletion has the request lock of its thread no request
\* takes a turn there until its keys are deleted, unless a deletion from further
\* above has deleted the lock (deleteThread, Submit): for any tree of threads
\* and any number of requests and deletions.
THEOREM RootIsExclusive == Spec => []RootExclusive
<1>1. RootInv => RootExclusive
  <2> SUFFICES ASSUME RootInv, NEW r \in Threads,
                      dpc[r] \in Checking \union {"del", "remove"}, req[r] = "turn"
               PROVE  Covered(r)
    BY DEF RootExclusive, Covered
  <2> QED BY DEF RootInv, TurnHolds, DeletionHolds, Checking
<1> QED BY RootInvInit, RootInvStep, <1>1, PTL DEF Spec

-----------------------------------------------------------------------------
(* The tasks. *)

\* A task has a status once it was enqueued, and is under way until its worker
\* has stored the outcome; the outcome stays.
TaskStage ==
  \A t \in Tasks :
    /\ tpc[t] \in {"idle", "locked"} <=> status[t] = "none"
    /\ tpc[t] = "enqueued" => status[t] = "pending"
    /\ tpc[t] = "agent" => status[t] = "running"

\* What was under way when a deletion took its lock had a status.
EarlierHadStatus ==
  \A r \in Threads : \A t \in earlier[r] \intersect Tasks : status[t] # "none"

\* Of those tasks, the ones of the threads that are checked are over.
CheckedAreOver ==
  \A r \in Threads \ blind : \A t \in earlier[r] \intersect Tasks :
    /\ dpc[r] = "tasks" /\ TaskThread[t] \in Everything(r) \ todo[r] => ~Active(t)
    /\ dpc[r] \in Deleting /\ TaskThread[t] \in Everything(r) => ~Active(t)

TasksInv == TaskStage /\ EarlierHadStatus /\ CheckedAreOver

LEMMA TasksInvInit == Init => TasksInv
BY DEF Init, TasksInv, TaskStage, EarlierHadStatus, CheckedAreOver, Deleting

\* A task with a status keeps one, and none that is over is under way again.
OutcomesStay ==
  \A t \in Tasks : status[t] # "none" => status'[t] # "none" /\ (Active(t)' => Active(t))

\* What requests and tasks do to the tasks' statuses.
LEMMA SurroundingsTasks ==
  ASSUME TypeInv, TaskStage, Surroundings
  PROVE  /\ TaskStage' /\ OutcomesStay /\ UNCHANGED blind
         /\ \A r \in Threads : earlier'[r] \subseteq earlier[r]
<1> DEFINE Goal == /\ TaskStage' /\ OutcomesStay /\ UNCHANGED blind
                   /\ \A r \in Threads : earlier'[r] \subseteq earlier[r]
<1>0. ASSUME UNCHANGED <<status, tpc, blind>>, \A r \in Threads : earlier'[r] \subseteq earlier[r]
      PROVE  Goal
  BY <1>0 DEF TaskStage, OutcomesStay, Active
<1>1. ASSUME NEW th \in Threads, Submit(th) \/ AcquireRequestLock(th) \/ EndTurn(th) \/ Expire(th)
      PROVE  Goal
  <2>1. CASE EndTurn(th)
    BY <1>0, <2>1 DEF EndTurn, TypeInv
  <2>2. CASE Submit(th) \/ AcquireRequestLock(th) \/ Expire(th)
    BY <1>0, <2>2 DEF Submit, AcquireRequestLock, Expire, actorVars, deleteVars
  <2> QED BY <1>1, <2>1, <2>2
<1>2. ASSUME NEW th \in Threads, NEW p \in Threads, CheckCreate(th, p) \/ CreateThread(th, p)
      PROVE  Goal
  BY <1>0, <1>2 DEF CheckCreate, CreateThread, keyVars, deleteVars
<1>3. ASSUME NEW t \in Tasks, LockThread(t) \/ Push(t) \/ RunTask(t) \/ StoreResult(t)
      PROVE  Goal
  <2> USE DEF TypeInv, TaskStage, OutcomesStay, Active, TaskStep, SetStatus, deleteVars
  <2>1. CASE LockThread(t)
    BY <2>1 DEF LockThread
  <2>2. CASE Push(t)
    BY <2>2 DEF Push
  <2>3. CASE RunTask(t)
    BY <2>3 DEF RunTask
  <2>4. CASE StoreResult(t)
    BY <2>4 DEF StoreResult
  <2> QED BY <1>3, <2>1, <2>2, <2>3, <2>4
<1>4. ASSUME NEW t \in Tasks, TouchThread(t) \/ RemoveActiveTask(t) \/ WorkerCrash(t) \/ UnlockThread(t)
      PROVE  Goal
  <2> USE DEF TypeInv, TaskStage, OutcomesStay, Active, TaskStep, deleteVars
  <2>1. CASE TouchThread(t)
    BY <2>1 DEF TouchThread
  <2>2. CASE RemoveActiveTask(t)
    BY <2>2 DEF RemoveActiveTask
  <2>3. CASE WorkerCrash(t)
    BY <2>3 DEF WorkerCrash, keyVars
  <2>4. CASE UnlockThread(t)
    BY <2>4 DEF UnlockThread, actorVars
  <2> QED BY <1>4, <2>1, <2>2, <2>3, <2>4
<1> QED BY <1>1, <1>2, <1>3, <1>4 DEF Surroundings

LEMMA SurroundingsTasksInv ==
  ASSUME TypeInv, TasksInv, Surroundings
  PROVE  TasksInv'
<1>1. DeletionsStay
  BY SurroundingsType
<1>2. /\ TaskStage' /\ OutcomesStay /\ UNCHANGED blind
      /\ \A r \in Threads : earlier'[r] \subseteq earlier[r]
  BY SurroundingsTasks DEF TasksInv
<1>3. EarlierHadStatus'
  BY <1>2 DEF TasksInv, EarlierHadStatus, OutcomesStay
<1>4. ASSUME NEW r \in Threads \ blind, NEW t \in earlier'[r] \intersect Tasks, Active(t)'
      PROVE  Active(t) /\ t \in earlier[r]
  BY <1>2, <1>4 DEF TasksInv, EarlierHadStatus, OutcomesStay
<1> QED BY <1>1, <1>2, <1>3, <1>4 DEF TasksInv, CheckedAreOver, DeletionsStay, Everything

\* Deletion r, and no other, takes a step that leaves the tasks alone.
OnlyThis(r) ==
  /\ UNCHANGED <<status, tpc>>
  /\ blind \ {r} \subseteq blind'
  /\ \A x \in Threads \ {r} :
       /\ dpc'[x] = dpc[x] /\ subtree'[x] = subtree[x] /\ todo'[x] = todo[x]
       /\ earlier'[x] = earlier[x]

LEMMA OnlyThisKeeps ==
  ASSUME TasksInv, NEW r \in Threads, OnlyThis(r),
         \A t \in earlier'[r] \intersect Tasks : status[t] # "none",
         r \notin blind' =>
           \A t \in earlier'[r] \intersect Tasks :
             /\ dpc'[r] = "tasks" /\ TaskThread[t] \in Everything(r)' \ todo'[r] => ~Active(t)
             /\ dpc'[r] \in Deleting /\ TaskThread[t] \in Everything(r)' => ~Active(t)
  PROVE  TasksInv'
<1>1. TaskStage'
  BY DEF OnlyThis, TasksInv, TaskStage
<1>2. EarlierHadStatus'
  BY DEF OnlyThis, TasksInv, EarlierHadStatus
<1>3. CheckedAreOver'
  BY DEF OnlyThis, TasksInv, CheckedAreOver, Everything, Active
<1> QED BY <1>1, <1>2, <1>3 DEF TasksInv

\* The loop over the tasks passes a thread only if none of its tasks is under
\* way, or is blind.
LEMMA CheckTasksKeeps ==
  ASSUME TypeInv, TasksInv, NEW r \in Threads, NEW th \in Threads, CheckTasks(r, th)
  PROVE  TasksInv'
<1> USE DEF TypeInv
<1>1. OnlyThis(r)
  BY DEF CheckTasks, Behind, Goto, OnlyThis, keyVars, actorVars
<1>2. \A t \in earlier'[r] \intersect Tasks : status[t] # "none"
  BY DEF CheckTasks, TasksInv, EarlierHadStatus
<1>3. ASSUME r \notin blind', NEW t \in earlier'[r] \intersect Tasks,
             Active(t), TaskThread[t] \in Everything(r)',
             \/ dpc'[r] = "tasks" /\ TaskThread[t] \notin todo'[r]
             \/ dpc'[r] \in Deleting
      PROVE  FALSE
  <2>1. /\ Behind(r, th, "tasks", "del") /\ UNCHANGED <<subtree, earlier, blind>>
        /\ ~ \E u \in Tasks : TaskThread[u] = th /\ Listed(u) \in {"pending", "running"}
    BY <1>3 DEF CheckTasks, Goto, Deleting
  <2>2. dpc[r] = "tasks" /\ (th = r => todo[r] = {r})
    BY DEF CheckTasks, Among
  <2>3. TaskThread[t] # th
    BY <1>3, <2>1 DEF Listed, Active
  <2>4. TaskThread[t] \in Everything(r) /\ TaskThread[t] \notin todo[r]
    <3>1. CASE th = r
      BY <1>3, <2>1, <2>2, <2>3, <3>1 DEF Everything
    <3>2. CASE th # r
      BY <1>3, <2>1, <2>2, <2>3, <3>2 DEF Behind, Goto, Everything, Deleting
    <3> QED BY <3>1, <3>2
  <2> QED BY <1>3, <2>1, <2>2, <2>4 DEF TasksInv, CheckedAreOver
<1> QED BY <1>1, <1>2, <1>3, OnlyThisKeeps

LEMMA DeletionTasks ==
  ASSUME TypeInv, TasksInv, NEW r \in Threads,
         Deletes(r)
  PROVE  TasksInv'
<1> USE DEF TypeInv, keyVars, actorVars
<1>1. ASSUME OnlyThis(r), \A t \in earlier'[r] \intersect Tasks : status[t] # "none",
             dpc'[r] \notin {"tasks"} \union Deleting
      PROVE  TasksInv'
  BY <1>1, OnlyThisKeeps
<1>2. \A t \in earlier[r] \intersect Tasks : status[t] # "none"
  BY DEF TasksInv, EarlierHadStatus
<1>3. ASSUME Return({r}), UNCHANGED <<status, tpc>> PROVE TasksInv'
  BY <1>1, <1>3 DEF Return, OnlyThis, Deleting
<1>4. ASSUME NEW from \in {"idle"} \union Checking, NEW to \in {"acquire", "discover", "locked", "holder",
                "status", "unlock", "running", "release"}, Goto(r, from, to),
             UNCHANGED <<status, tpc, subtree, todo, earlier>>, blind \subseteq blind'
      PROVE  TasksInv'
  BY <1>1, <1>2, <1>4 DEF Goto, OnlyThis, Deleting
<1>5. ASSUME NEW th, Behind(r, th, "locked", "tasks"), dpc[r] \in Checking \ {"tasks"},
             UNCHANGED <<status, tpc, subtree, earlier, blind>>
      PROVE  TasksInv'
  <2>1. OnlyThis(r)
    BY <1>5 DEF Behind, Goto, OnlyThis
  <2>2. dpc'[r] = "locked" \/ (dpc'[r] = "tasks" /\ todo'[r] = Everything(r))
    BY <1>5 DEF Behind, Goto
  <2>3. Everything(r)' = Everything(r)
    BY <1>5 DEF Everything
  <2> QED BY <1>2, <1>5, <2>1, <2>2, <2>3, OnlyThisKeeps DEF Deleting
<1>6. CASE StartDelete(r)
  BY <1>4, <1>6 DEF StartDelete, Checking
<1>7. CASE Acquire(r)
  <2>1. CASE Goto(r, "acquire", "discover") /\ earlier' = [earlier EXCEPT ![r] = UnderWay] /\ UNCHANGED <<subtree, todo, blind>>
    <3>1. \A t \in earlier'[r] \intersect Tasks : status[t] # "none"
      BY <2>1 DEF UnderWay, Active
    <3> QED BY <1>1, <1>7, <2>1, <3>1 DEF Acquire, Goto, OnlyThis, Deleting
  <2>2. CASE Return({r})
    BY <1>3, <1>7, <2>2 DEF Acquire
  <2> QED BY <1>7, <2>1, <2>2 DEF Acquire
<1>8. CASE Discover(r)
  BY <1>1, <1>2, <1>8 DEF Discover, Goto, OnlyThis, Deleting
<1>9. CASE GetLockHolder(r) \/ HolderStatus(r)
  BY <1>4, <1>9 DEF GetLockHolder, HolderStatus, Checking
<1>10. CASE ClearStale(r)
  BY <1>5, <1>10 DEF ClearStale, Checking
<1>11. CASE IsRequestRunning(r)
  BY <1>4, <1>5, <1>11 DEF IsRequestRunning, Checking
<1>12. ASSUME NEW th \in Threads, IsThreadLocked(r, th) PROVE TasksInv'
  BY <1>4, <1>5, <1>12 DEF IsThreadLocked, Checking
<1>13. ASSUME NEW th \in Threads, DeleteKeys(r, th) PROVE TasksInv'
  <2>1. OnlyThis(r) /\ UNCHANGED <<subtree, earlier, blind>> /\ dpc[r] = "del"
    BY <1>13 DEF DeleteKeys, Behind, Goto, OnlyThis
  <2>2. dpc'[r] \in {"del", "clean", "release"}
    BY <1>13 DEF DeleteKeys, Behind, Goto
  <2> QED BY <1>2, <2>1, <2>2, OnlyThisKeeps DEF TasksInv, CheckedAreOver, Everything, Deleting
<1>14. CASE CleanUp(r)
  BY <1>1, <1>2, <1>14 DEF CleanUp, Goto, OnlyThis, Deleting
<1>15. CASE Release(r)
  BY <1>3, <1>15 DEF Release
<1>16. CASE CommandFails(r)
  <2>1. CASE Return({r})
    BY <1>3, <1>16, <2>1 DEF CommandFails
  <2>2. ASSUME NEW from \in Checking, Goto(r, from, "release"),
               UNCHANGED <<subtree, todo, at, holder, failed, blind, earlier>>
        PROVE  TasksInv'
    BY <1>4, <1>16, <2>2 DEF CommandFails
  <2> QED BY <1>16, <2>1, <2>2 DEF CommandFails
<1>17. CASE StartWorkspace(r)
  BY <1>1, <1>2, <1>17 DEF StartWorkspace, Goto, OnlyThis, Deleting
<1>18. CASE AcquireWorkspace(r)
  <2>1. CASE Goto(r, "ask", "remove") /\ UNCHANGED <<subtree, todo, blind, earlier>>
    BY <1>1, <1>2, <1>18, <2>1 DEF AcquireWorkspace, Goto, OnlyThis, Deleting
  <2>2. CASE Return({r})
    BY <1>3, <1>18, <2>2 DEF AcquireWorkspace
  <2> QED BY <1>18, <2>1, <2>2 DEF AcquireWorkspace
<1>19. CASE RemoveWorkspace(r)
  BY <1>1, <1>2, <1>19 DEF RemoveWorkspace, Goto, OnlyThis, Deleting
<1> QED BY <1>6, <1>7, <1>8, <1>9, <1>10, <1>11, <1>12, <1>13, <1>14, <1>15, <1>16, <1>17, <1>18,
           <1>19, CheckTasksKeeps
        DEF Deletes, DeleteThread, DeleteWorkspace

LEMMA CrashTasks ==
  ASSUME TypeInv, TasksInv, Crash
  PROVE  TasksInv'
<1>1. /\ UNCHANGED <<status, tpc>>
      /\ \A r \in Threads : dpc'[r] \in {"idle", "over"} /\ earlier'[r] \subseteq earlier[r]
  BY DEF Crash, Return, keyVars, TypeInv
<1> QED BY <1>1 DEF TasksInv, TaskStage, EarlierHadStatus, CheckedAreOver, Deleting

LEMMA TasksInvStep == RootInv /\ TasksInv /\ [Next]_vars => TasksInv'
<1> SUFFICES ASSUME RootInv, TasksInv, [Next]_vars PROVE TasksInv'
  OBVIOUS
<1> USE DEF RootInv
<1>1. ASSUME NEW r \in Threads, Deletes(r) PROVE TasksInv'
  BY <1>1, DeletionTasks
<1>2. CASE UNCHANGED vars
  BY <1>2 DEF vars, keyVars, actorVars, deleteVars, TasksInv, TaskStage, EarlierHadStatus,
     CheckedAreOver, Active, Everything
<1> QED BY <1>1, <1>2, CrashTasks, SurroundingsTasksInv DEF Next, Deletes, Surroundings

\* No task that was under way below a thread when its deletion took the lock is
\* still under way when the first key goes, whatever happens to the locks
\* meanwhile and as long as no read is blind (deleteThread, "Validate no active
\* tasks in any subtree thread").
THEOREM ActiveTaskIsKept == Spec => []ActiveTaskKept
<1>1. TasksInv => ActiveTaskKept
  BY DEF TasksInv, CheckedAreOver, ActiveTaskKept
<1> QED BY RootInvInit, RootInvStep, TasksInvInit, TasksInvStep, <1>1, PTL DEF Spec

-----------------------------------------------------------------------------
(* Types, and the tree of the threads there are. *)

\* What TypeInv leaves out: the keys, ...
KeysTyped ==
  /\ exists \subseteq Threads
  /\ parent \in [Threads -> Threads \union {NoThread}]
  /\ lock \in [Threads -> Tasks \union {NoTask}]
  /\ creating \subseteq Threads \X Threads
  /\ active \subseteq Tasks
  /\ events \in 0 .. MaxEvents

\* ... and the variables of the handlers.
HandlersTyped ==
  /\ subtree \in [Threads -> SUBSET Threads]
  /\ todo \in [Threads -> SUBSET Threads]
  /\ at \in [Threads -> Threads \union {NoThread}]
  /\ holder \in [Threads -> Tasks \union {NoTask}]
  /\ \A r \in Threads :
       /\ dpc[r] \in {"holder", "status", "unlock", "running"} => at[r] \in Threads
       /\ dpc[r] \in {"status", "unlock"} => holder[r] \in Tasks
  /\ failed \subseteq Threads
  /\ blind \subseteq Threads
  /\ earlier \in [Threads -> SUBSET (Tasks \union Threads)]

FullType == RootInv /\ KeysTyped /\ HandlersTyped

LEMMA FullTypeIsType == FullType => DeletionTypeOK
BY DEF FullType, RootInv, TypeInv, KeysTyped, HandlersTyped, DeletionTypeOK, Points

LEMMA FullTypeInit == Init => FullType
<1> SUFFICES ASSUME Init PROVE FullType
  OBVIOUS
<1>1. KeysTyped
  BY DEF Init, KeysTyped
<1>2. HandlersTyped
  BY DEF Init, HandlersTyped
<1> QED BY <1>1, <1>2, RootInvInit DEF FullType

LEMMA EventCounts ==
  ASSUME NEW kind, Event(kind), events \in 0 .. MaxEvents
  PROVE  events' \in 0 .. MaxEvents
BY DEF Event

LEMMA SurroundingsKeys ==
  ASSUME KeysTyped, Surroundings
  PROVE  KeysTyped'
<1> USE DEF KeysTyped, Hset, keyVars, threadVars, actorVars
<1>1. ASSUME NEW th \in Threads, Submit(th) PROVE KeysTyped'
  BY <1>1 DEF Submit
<1>2. ASSUME NEW th \in Threads, AcquireRequestLock(th) \/ EndTurn(th) \/ Expire(th)
      PROVE  KeysTyped'
  BY <1>2 DEF AcquireRequestLock, EndTurn, Expire
<1>3. ASSUME NEW th \in Threads, NEW p \in Threads, CheckCreate(th, p) PROVE KeysTyped'
  BY <1>3, EventCounts DEF CheckCreate
<1>4. ASSUME NEW th \in Threads, NEW p \in Threads, CreateThread(th, p) PROVE KeysTyped'
  BY <1>4 DEF CreateThread
<1>5. ASSUME NEW t \in Tasks, LockThread(t) \/ Push(t) \/ RunTask(t) \/ StoreResult(t)
      PROVE  KeysTyped'
  BY <1>5 DEF LockThread, Push, RunTask, StoreResult, TaskStep
<1>6. ASSUME NEW t \in Tasks, TouchThread(t) \/ RemoveActiveTask(t) \/ UnlockThread(t)
      PROVE  KeysTyped'
  BY <1>6 DEF TouchThread, RemoveActiveTask, UnlockThread, TaskStep
<1>7. ASSUME NEW t \in Tasks, WorkerCrash(t) PROVE KeysTyped'
  BY <1>7, EventCounts DEF WorkerCrash, TaskStep
<1> QED BY <1>1, <1>2, <1>3, <1>4, <1>5, <1>6, <1>7 DEF Surroundings

LEMMA SurroundingsHandlers ==
  ASSUME HandlersTyped, Surroundings
  PROVE  HandlersTyped'
<1>1. /\ UNCHANGED <<dpc, subtree, todo, at, holder, failed, blind>>
      /\ UNCHANGED earlier \/ \E th : earlier' = [r \in Threads |-> earlier[r] \ {th}]
  BY DEF Surroundings, Submit, AcquireRequestLock, EndTurn, Expire, CheckCreate, CreateThread,
         LockThread, Push, RunTask, StoreResult, TouchThread, RemoveActiveTask, WorkerCrash,
         UnlockThread, deleteVars
<1> QED BY <1>1 DEF HandlersTyped

LEMMA DeletionKeys ==
  ASSUME KeysTyped, HandlersTyped, NEW r \in Threads, Deletes(r)
  PROVE  KeysTyped'
<1> USE DEF KeysTyped, keyVars, threadVars, actorVars
<1>1. CASE StartDelete(r) \/ Acquire(r) \/ Discover(r) \/ GetLockHolder(r) \/ IsRequestRunning(r)
           \/ CleanUp(r) \/ Release(r) \/ StartWorkspace(r) \/ DeleteWorkspace(r)
  BY <1>1 DEF StartDelete, Acquire, Discover, GetLockHolder, IsRequestRunning, CleanUp, Release,
     StartWorkspace, DeleteWorkspace, AcquireWorkspace, RemoveWorkspace
<1>2. CASE HolderStatus(r) \/ CommandFails(r)
  BY <1>2, EventCounts DEF HolderStatus, CommandFails
<1>3. CASE ClearStale(r)
  BY <1>3 DEF ClearStale
<1>4. ASSUME NEW th \in Threads, IsThreadLocked(r, th) \/ CheckTasks(r, th) PROVE KeysTyped'
  BY <1>4, EventCounts DEF IsThreadLocked, CheckTasks
<1>5. ASSUME NEW th \in Threads, DeleteKeys(r, th) PROVE KeysTyped'
  BY <1>5, EventCounts DEF DeleteKeys
<1> QED BY <1>1, <1>2, <1>3, <1>4, <1>5 DEF Deletes, DeleteThread

\* The handlers that return give up their variables.
LEMMA ReturnTyped ==
  ASSUME HandlersTyped, NEW rs, Return(rs)
  PROVE  HandlersTyped'
BY DEF HandlersTyped, Return

\* A point at which nothing was read is typed, whatever at and holder are.
LEMMA BehindTyped ==
  ASSUME HandlersTyped, DOMAIN dpc = Threads, NEW r \in Threads, NEW th \in Threads, NEW loop, NEW next,
         {loop, next} \intersect {"holder", "status", "unlock", "running"} = {},
         Behind(r, th, loop, next), UNCHANGED <<subtree, earlier>>,
         at' \in [Threads -> Threads \union {NoThread}], \A x \in Threads \ {r} : at'[x] = at[x],
         holder' \in [Threads -> Tasks \union {NoTask}], \A x \in Threads \ {r} : holder'[x] = holder[x],
         failed' \subseteq Threads, blind' \subseteq Threads
  PROVE  HandlersTyped'
<1>1. todo' \in [Threads -> SUBSET Threads]
  BY DEF HandlersTyped, Behind, Everything
<1>2. (\A x \in Threads \ {r} : dpc'[x] = dpc[x]) /\ dpc'[r] \in {loop, next}
  BY DEF Behind, Goto
<1>3. dpc'[r] \notin {"holder", "status", "unlock", "running"}
  BY <1>2
<1> QED BY <1>1, <1>2, <1>3 DEF HandlersTyped

LEMMA DeletionHandlers ==
  ASSUME TypeInv, KeysTyped, HandlersTyped, NEW r \in Threads, Deletes(r)
  PROVE  HandlersTyped'
<1>b. ASSUME NEW th \in Threads, NEW loop \in {"locked", "tasks", "del"},
             NEW next \in {"tasks", "del", "clean", "release"},
             Behind(r, th, loop, next), UNCHANGED <<subtree, earlier>>,
             at' \in [Threads -> Threads \union {NoThread}], \A x \in Threads \ {r} : at'[x] = at[x],
             holder' \in [Threads -> Tasks \union {NoTask}], \A x \in Threads \ {r} : holder'[x] = holder[x],
             failed' \subseteq Threads, blind' \subseteq Threads
      PROVE  HandlersTyped'
  BY <1>b, BehindTyped DEF TypeInv
<1> USE DEF TypeInv, HandlersTyped, Goto
<1>1. CASE StartDelete(r) \/ CleanUp(r) \/ StartWorkspace(r) \/ RemoveWorkspace(r)
  BY <1>1 DEF StartDelete, CleanUp, StartWorkspace, RemoveWorkspace
<1>2. CASE Acquire(r)
  <2>1. CASE Return({r})
    BY <2>1, ReturnTyped
  <2>2. CASE earlier' = [earlier EXCEPT ![r] = UnderWay] /\ Goto(r, "acquire", "discover")
             /\ UNCHANGED <<subtree, todo, at, holder, failed, blind>>
    BY <2>2 DEF UnderWay
  <2> QED BY <1>2, <2>1, <2>2 DEF Acquire
<1>3. CASE Discover(r)
  <2>1. IsFiniteSet(exists)
    BY FS_Subset, DeletionAssumption DEF KeysTyped
  <2>2. Descendants(exists, parent, r) \subseteq Threads
    BY <2>1, Discovered DEF KeysTyped
  <2> QED BY <1>3, <2>2 DEF Discover
<1>4. CASE GetLockHolder(r)
  BY <1>4 DEF GetLockHolder, KeysTyped
<1>5. CASE HolderStatus(r)
  BY <1>5 DEF HolderStatus
<1>6. CASE ClearStale(r)
  <2>1. at[r] \in Threads
    BY <1>6 DEF ClearStale
  <2>2. /\ at' = [at EXCEPT ![r] = NoThread] /\ holder' = [holder EXCEPT ![r] = NoTask]
        /\ Behind(r, at[r], "locked", "tasks") /\ UNCHANGED <<subtree, failed, blind, earlier>>
    BY <1>6 DEF ClearStale
  <2>3. /\ at' \in [Threads -> Threads \union {NoThread}] /\ \A x \in Threads \ {r} : at'[x] = at[x]
        /\ holder' \in [Threads -> Tasks \union {NoTask}] /\ \A x \in Threads \ {r} : holder'[x] = holder[x]
        /\ failed' \subseteq Threads /\ blind' \subseteq Threads
    BY <2>2
  <2>4. DOMAIN dpc = Threads /\ HandlersTyped
    OBVIOUS
  <2> QED BY <2>1, <2>2, <2>3, <2>4, <1>b
<1>7. CASE IsRequestRunning(r)
  <2>1. at[r] \in Threads
    BY <1>7 DEF IsRequestRunning
  <2>2. CASE Behind(r, at[r], "locked", "tasks")
    <3>1. at' = [at EXCEPT ![r] = NoThread] /\ UNCHANGED <<subtree, holder, failed, blind, earlier>>
      BY <1>7 DEF IsRequestRunning
    <3>2. /\ at' \in [Threads -> Threads \union {NoThread}] /\ \A x \in Threads \ {r} : at'[x] = at[x]
          /\ holder' = holder /\ failed' \subseteq Threads /\ blind' \subseteq Threads
      BY <3>1
    <3> QED BY <2>1, <2>2, <3>1, <3>2, <1>b
  <2>3. CASE Goto(r, "running", "release") /\ UNCHANGED todo
    BY <1>7, <2>3 DEF IsRequestRunning
  <2> QED BY <1>7, <2>2, <2>3 DEF IsRequestRunning
<1>8. ASSUME NEW th \in Threads, IsThreadLocked(r, th) PROVE HandlersTyped'
  <2>1. CASE Behind(r, th, "locked", "tasks") /\ UNCHANGED at
    BY <1>8, <2>1, <1>b DEF IsThreadLocked
  <2>2. CASE /\ Goto(r, "locked", IF lock[th] # NoTask THEN "holder" ELSE "running")
             /\ at' = [at EXCEPT ![r] = th]
             /\ UNCHANGED todo
    BY <1>8, <2>2 DEF IsThreadLocked
  <2> QED BY <1>8, <2>1, <2>2 DEF IsThreadLocked
<1>9. ASSUME NEW th \in Threads, CheckTasks(r, th) PROVE HandlersTyped'
  <2>1. CASE Behind(r, th, "tasks", "del")
    BY <1>9, <2>1, <1>b DEF CheckTasks
  <2>2. CASE Goto(r, "tasks", "release") /\ UNCHANGED todo
    BY <1>9, <2>2 DEF CheckTasks
  <2> QED BY <1>9, <2>1, <2>2 DEF CheckTasks
<1>10. ASSUME NEW th \in Threads, DeleteKeys(r, th) PROVE HandlersTyped'
  <2>1. failed' \subseteq Threads
    BY <1>10 DEF DeleteKeys
  <2>2. Behind(r, th, "del", IF r \in failed' THEN "release" ELSE "clean")
    BY <1>10 DEF DeleteKeys
  <2> QED BY <1>10, <2>1, <2>2, <1>b DEF DeleteKeys
<1>11. CASE Release(r) \/ AcquireWorkspace(r)
  <2>1. CASE Return({r})
    BY <2>1, ReturnTyped
  <2> QED BY <1>11, <2>1 DEF Release, AcquireWorkspace
<1>12. CASE CommandFails(r)
  <2>1. CASE Return({r})
    BY <2>1, ReturnTyped
  <2> QED BY <1>12, <2>1 DEF CommandFails
<1> QED BY <1>1, <1>2, <1>3, <1>4, <1>5, <1>6, <1>7, <1>8, <1>9, <1>10, <1>11, <1>12
        DEF Deletes, DeleteThread, DeleteWorkspace

LEMMA FullTypeStep == FullType /\ [Next]_vars => FullType'
<1> SUFFICES ASSUME FullType, [Next]_vars PROVE KeysTyped' /\ HandlersTyped'
  BY RootInvStep DEF FullType
<1> USE DEF FullType, RootInv
<1>1. ASSUME NEW r \in Threads, Deletes(r) PROVE KeysTyped' /\ HandlersTyped'
  BY <1>1, DeletionKeys, DeletionHandlers
<1>2. CASE Crash
  <2>1. KeysTyped'
    BY <1>2, EventCounts DEF Crash, KeysTyped, keyVars, threadVars
  <2>2. HandlersTyped'
    BY <1>2, ReturnTyped DEF Crash
  <2> QED BY <2>1, <2>2
<1>3. CASE UNCHANGED vars
  BY <1>3 DEF vars, keyVars, threadVars, actorVars, deleteVars, KeysTyped, HandlersTyped
<1> QED BY <1>1, <1>2, <1>3, SurroundingsKeys, SurroundingsHandlers DEF Next, Deletes, Surroundings

\* Every variable keeps to its range, and a deletion that looks at a thread or
\* at the holder of its lock has one to look at: GetLockHolder stops on a lock
\* that has gone, and DiscoverDescendants finds threads only.
THEOREM DeletionTyped == Spec => []DeletionTypeOK
BY FullTypeInit, FullTypeStep, FullTypeIsType, PTL DEF Spec

\* Whatever creations, deletions and writes of workers have made of the parents,
\* orphans and cycles included: discovery takes exactly the threads below its
\* root, and the page hides exactly those below a cycle.
THEOREM TreeStaysRight == Spec => []TreeRight
<1>1. FullType => TreeRight
  <2> SUFFICES ASSUME FullType PROVE TreeRight
    OBVIOUS
  <2>1. IsFiniteSet(exists)
    BY FS_Subset, DeletionAssumption DEF FullType, KeysTyped
  <2> QED BY <2>1, TreeIsRight DEF TreeRight
<1> QED BY FullTypeInit, FullTypeStep, <1>1, PTL DEF Spec

-----------------------------------------------------------------------------
\* ListTasks finds of a thread the tasks that CheckTasks finds.
Registered == [t \in active |-> [status |-> "running", thread |-> TaskThread[t]]]
Keys == [t \in {t \in Tasks : status[t] # "none"} |-> [status |-> status[t], thread |-> TaskThread[t]]]
ReadAsListed(registered, keys, s, th) ==
  {row.id : row \in Rows(registered, keys, s, th)} = {t \in Tasks : TaskThread[t] = th /\ Listed(t) = s}

LEMMA ListedAreRead ==
  ASSUME DeletionTypeOK, NEW th \in Threads, NEW s \in {"pending", "running"}
  PROVE  ReadAsListed(Registered, Keys, s, th)
<1> DEFINE registered == Registered
           keys == Keys
<1>0. /\ registered = [t \in active |-> [status |-> "running", thread |-> TaskThread[t]]]
      /\ keys = [t \in {t \in Tasks : status[t] # "none"} |-> [status |-> status[t], thread |-> TaskThread[t]]]
  BY DEF Registered, Keys
<1> HIDE DEF registered, keys
<1> DEFINE D == DOMAIN registered \union DOMAIN keys
           row(t) == Row(registered, keys, t)
<1>1. /\ active \subseteq Tasks
      /\ \A t \in Tasks : status[t] \in {"none", "pending", "running", "done"}
      /\ \A t \in Tasks : TaskThread[t] \in Threads
      /\ "" \notin Threads
  BY DeletionAssumption, ReadsAssumption DEF DeletionTypeOK
<1>2. D = {t \in Tasks : t \in active \/ status[t] # "none"}
  BY <1>0, <1>1
<1>3. ASSUME NEW t \in D PROVE row(t) = [id |-> t, status |-> Listed(t), thread |-> TaskThread[t]]
  <2>1. t \in Tasks /\ TaskThread[t] # "" /\ status[t] # ""
    BY <1>1, <1>2
  <2>2. CASE t \in active
    <3>1. t \in DOMAIN registered /\ registered[t].status = "running" /\ registered[t].thread = TaskThread[t]
      BY <1>0, <2>2
    <3>2. Field(registered, keys, t, "status", "unknown") = "running"
      BY <3>1 DEF Field
    <3>3. Field(registered, keys, t, "thread", "-") = TaskThread[t]
      BY <2>1, <3>1 DEF Field
    <3> QED BY <2>2, <3>2, <3>3 DEF Row, Listed
  <2>3. CASE t \notin active
    <3>1. /\ t \notin DOMAIN registered
          /\ t \in DOMAIN keys /\ keys[t].status = status[t] /\ keys[t].thread = TaskThread[t]
      BY <1>0, <1>2, <2>3
    <3>2. Field(registered, keys, t, "status", "unknown") = status[t]
      BY <2>1, <3>1 DEF Field
    <3>3. Field(registered, keys, t, "thread", "-") = TaskThread[t]
      BY <2>1, <3>1 DEF Field
    <3> QED BY <2>3, <3>2, <3>3 DEF Row, Listed
  <2> QED BY <2>2, <2>3
<1>4. Rows(registered, keys, s, th) = {r \in {row(t) : t \in D} : r.status = s /\ r.thread = th}
  <2>1. s # "" /\ th # ""
    BY <1>1
  <2> QED BY <2>1 DEF Rows
<1> HIDE DEF D, row
<1>5. {r.id : r \in {r \in {row(t) : t \in D} : r.status = s /\ r.thread = th}}
        = {t \in D : Listed(t) = s /\ TaskThread[t] = th}
  BY <1>3
<1>6. {t \in D : Listed(t) = s /\ TaskThread[t] = th} = {t \in Tasks : TaskThread[t] = th /\ Listed(t) = s}
  BY <1>1, <1>2 DEF Listed
<1> QED BY <1>4, <1>5, <1>6 DEF ReadAsListed, registered, keys

\* What is read of the lists is what is in them, whatever the lists: a worker
\* sees the last messages that are for it, pages show every message and every
\* task once, the first page of tasks has one that is under way, ListTasks finds
\* what CheckTasks finds, and discovery takes the threads below its root.
THEOREM ReadsStayRight == Spec => []ReadsRight
<1>0. /\ \A list \in Histories : list \in Seq([worker : STRING, id : Int])
      /\ Sizes \subseteq Nat \ {0}
  BY ReadsAssumption, Zenon
<1>1. HistoryFacts
  <2> SUFFICES ASSUME NEW list \in Histories, NEW size \in Sizes, NEW tail \in Sizes \union {0}
               PROVE  HistoryFact(list, tail, "w1", "", size, tail)
    BY DEF HistoryFacts
  <2>1. /\ list \in Seq([worker : STRING, id : Int])
        /\ size \in Nat \ {0} /\ tail \in Int
    BY <1>0
  <2>2. AllPages(list, tail) = list
    BY <2>1, PagesAreComplete
  <2> DEFINE me == "w1"
             nobody == ""
  <2> HIDE DEF me, nobody
  <2>3. GetThreadHistoryTailForWorker(list, tail, me, nobody, size) = LastForWorker(list, tail, me, nobody)
    BY <2>1, WorkerSeesItsLast
  <2> QED BY <2>2, <2>3, Zenon DEF HistoryFact, me, nobody
<1>2. ListFacts
  <2> SUFFICES ASSUME NEW store \in Stores, NEW limit \in Sizes, NEW asc \in BOOLEAN
               PROVE  ListFact(store.registered, store.keys, "a", limit, asc)
    BY DEF ListFacts
  <2> DEFINE registered == store.registered
             keys == store.keys
             thread == "a"
  <2>1. /\ IsFiniteSet(DOMAIN registered) /\ IsFiniteSet(DOMAIN keys)
        /\ DOMAIN registered \subseteq Int /\ DOMAIN keys \subseteq Int
        /\ limit \in Nat \ {0}
    BY ReadsAssumption
  <2> HIDE DEF registered, keys, thread
  <2>2. PagesFact(registered, keys, thread, limit, asc)
    BY <2>1, PagesShowAll
  <2>3. FirstPageFact(registered, keys, thread, limit)
    BY <2>1, FirstPageShowsBusy
  <2> QED BY <2>2, <2>3, Zenon DEF ListFact, registered, keys, thread
<1>3. TreeFacts
  BY ReadsAssumption, TreeIsRight DEF TreeFacts
<1>4. DeletionTypeOK => ReadsRight
  <2> SUFFICES ASSUME DeletionTypeOK, NEW th \in Threads, NEW s \in {"pending", "running"}
               PROVE  LET registered == [t \in active |-> [status |-> "running", thread |-> TaskThread[t]]]
                          keys       == [t \in {t \in Tasks : status[t] # "none"} |->
                                           [status |-> status[t], thread |-> TaskThread[t]]]
                      IN {row.id : row \in Rows(registered, keys, s, th)}
                           = {t \in Tasks : TaskThread[t] = th /\ Listed(t) = s}
    BY <1>1, <1>2, <1>3, Zenon DEF ReadsRight
  <2> QED BY ListedAreRead, Zenon DEF ReadAsListed, Registered, Keys
<1> QED BY <1>4, DeletionTyped, PTL
=============================================================================
