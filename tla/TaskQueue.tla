------------------------------ MODULE TaskQueue ------------------------------
(***************************************************************************)
(* Clients and workers on the shared keys, without the requeue-stale       *)
(* command, which an operator runs by hand (module TaskRecovery adds it).  *)
(***************************************************************************)
EXTENDS TaskClient, WorkerLoop

vars == <<redisVars, clientVars, workerVars>>

Init == KeysInit /\ ClientInit /\ WorkerInit

Next == \/ ClientNext /\ UNCHANGED workerVars
        \/ WorkerNext /\ UNCHANGED clientVars

Spec == Init /\ [][Next]_vars

-----------------------------------------------------------------------------
TypeOK == KeysTypeOK /\ ClientTypeOK /\ WorkerTypeOK

Sequential == Tasks \ Grouped

\* The payload is in Redis and no outcome has been stored.
InFlight(t) == result[t] = "none" /\ (InQueue(t) \/ processing[t] > 0)

\* Enqueue has pushed the payload.
Pushed(t) == pc[t] \in {"init", "enqueued", "left", "waited"} \union Waiting

Held(t) == \E w \in Workers : hand[w] = t

\* What the queue promises about a task, read off the keys.
Phase(t) ==
  IF result[t] # "none" THEN result[t]
  ELSE IF InQueue(t) THEN "queued"
  ELSE IF processing[t] > 0 THEN "claimed"
  ELSE "absent"

Promise == INSTANCE TaskPromise WITH phase <- [t \in Tasks |-> Phase(t)]

\* The keys, the client steps and the worker steps implement the promise: no
\* crash of a worker, no lost BLMOVE reply, no failed command and no cancelled
\* or refused call makes a pushed payload disappear (Enqueue's LPUSH, the
\* worker's BLMOVE and LREM), hands it out again or stores a second outcome.
KeepsPromise == Promise!Spec

\* A payload that was pushed stays in the queue or the processing list until
\* the worker has stored the outcome (main.go: the result pipeline comes
\* before LREM; BLMOVE leaves no moment in which neither list has it).
PayloadKept == \A t \in Tasks : Pushed(t) /\ result[t] = "none" => InFlight(t)

\* Without requeue-stale the agent is started at most once for a task, even
\* if the worker crashes, stops or loses a reply on the way.
AtMostOnce == \A t \in Tasks : starts[t] <= 1

\* A cancel flag that is set while no worker holds the task keeps its agent
\* from ever being started (CancelTask: "workers check it before starting").
CancelHonoured ==
  \A t \in Tasks :
    []((t \in cancel /\ ~Held(t) /\ starts[t] = 0) => [](starts[t] = 0))

\* The worker that builds the prompt finds the instruction in the thread's
\* history, and the reply never precedes it: Enqueue appends before it pushes.
InstructionFirst ==
  \A t \in Tasks :
    InQueue(t) \/ Held(t) \/ <<t, "result">> \in messages => <<t, "instruction">> \in messages

\* A group task a worker can take is a member of its group and carries its
\* label, so GroupWait counts it and WaitTask leaves the lock alone.
GroupBeforeQueue ==
  \A t \in Grouped : InQueue(t) \/ processing[t] > 0 => t \in members \intersect labelled

\* Two sequential tasks of one thread are never in flight together (Enqueue:
\* "serialize tasks on the same thread").
ThreadSerial ==
  \A t, u \in Sequential :
    t # u /\ ThreadOf[t] = ThreadOf[u] => ~(InFlight(t) /\ InFlight(u))

\* While a sequential task is in flight its thread's lock names it.
LockCovers == \A t \in Sequential : InFlight(t) => lock[ThreadOf[t]] = t

\* Once every call on a thread has been waited for, its lock is free.
LockReturned ==
  \A th \in Threads :
    (\A t \in Tasks : ThreadOf[t] = th => pc[t] \in {"idle", "waited"}) => lock[th] = NoTask

\* No task joins a group of a thread while a sequential task of the thread is
\* in flight (the gate of EnqueueGroup).
GroupGated ==
  [][\A t \in members' \ members, u \in Sequential :
       ThreadOf[t] = ThreadOf[u] => ~InFlight(u)]_vars

\* A payload that is pushed is taken and its outcome stored, and so is what was
\* pushed meanwhile: there comes a time with nothing in flight.
EveryTaskEnds == Promise!Delivered

\* A held thread lock is given up: the holder is waited for or its wait times out.
\* Only a command that fails or a client that dies leaves it to the TTL.
LockGivenUp ==
  \A t \in Sequential :
    pc[t] \in Waiting ~>
      \/ lock[ThreadOf[t]] # t
      \/ faults > 0 /\ pc[t] \in {"waited", "error", "dead"}
      \/ "contextDone" \in Env /\ pc[t] = "error"
=============================================================================
