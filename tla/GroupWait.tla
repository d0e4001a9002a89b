------------------------------ MODULE GroupWait ------------------------------
(***************************************************************************)
(* The task queue with GroupWait of tasklib, which the orchestrator calls  *)
(* (task group-wait) after it has fanned out the tasks of a group.  It     *)
(* reads the members once and then polls their statuses until none is      *)
(* under way or the deadline is over.                                      *)
(***************************************************************************)
EXTENDS TaskQueue

CONSTANTS MaxCalls,  \* bound on the tasks that are enqueued
          MaxCancels \* bound on the cancel flags that are set

ASSUME BoundsAssumption == MaxCalls \in Nat /\ MaxCancels \in Nat

VARIABLES gpc,      \* where GroupWait is; once it has returned, its Status
          gids,     \* taskIDs, the members it read
          reported, \* statuses, the snapshot of the last poll
          overdue   \* time.Now().After(deadline)

groupWaitVars == <<gpc, gids, reported, overdue>>
groupAllVars  == <<vars, groupWaitVars>>

Verdicts == {"complete", "error", "cancelled"}

GroupInit ==
  /\ gpc = "idle"
  /\ gids = {}
  /\ reported = << >>
  /\ overdue = FALSE

-----------------------------------------------------------------------------
\* The orchestrator waits once its calls of EnqueueGroup have returned.
FannedOut ==
  /\ \E t \in Grouped : pc[t] # "idle"
  /\ \A t \in Grouped : pc[t] \in {"idle", "enqueued", "left", "waited"} \union Stopped

\* SMEMBERS: an empty group is an error.
Start ==
  /\ gpc = "idle" /\ FannedOut
  /\ gids' = members
  /\ gpc' = IF members = {} THEN "fail" ELSE "poll"
  /\ reported' = [t \in gids' |-> "none"]
  /\ overdue' = FALSE
  /\ UNCHANGED vars

\* Mutant: one failure among the results is outvoted by a result.
AggregateLenient(s) ==
  LET some(outcome) == \E t \in DOMAIN s : s[t] = outcome
  IN IF some("done") THEN "complete" ELSE IF some("failed") THEN "error" ELSE "cancelled"

\* Status of the GroupResult.
Aggregate(s) ==
  LET some(outcome) == \E t \in DOMAIN s : s[t] = outcome
  IN IF some("failed") THEN "error"
     ELSE IF some("cancelled") /\ ~some("done") THEN "cancelled"
     ELSE "complete"

\* Anything but these ends the wait, a missing status ("unknown") included.
UnderWay(s) == s \in {"pending", "running", "queued"}

\* Mutant: the deadline ends the wait only once every task has started.
PollWaitsForStart ==
  /\ gpc = "poll"
  /\ reported' = [t \in gids |-> status[t]]
  /\ gpc' = IF \A t \in gids : ~UnderWay(status[t]) THEN Aggregate(reported')
            ELSE IF overdue /\ \A t \in gids : status[t] # "pending" THEN "timeout" ELSE "poll"
  /\ UNCHANGED <<vars, gids, overdue>>

\* The pipeline of GETs and what follows from it; the select that waits for the
\* ticker returns an error if the context is done.
Poll ==
  /\ gpc = "poll"
  /\ reported' = [t \in gids |-> status[t]]
  /\ gpc' \in IF \A t \in gids : ~UnderWay(status[t]) THEN {Aggregate(reported')}
              ELSE IF overdue THEN {"timeout"}
              ELSE {"poll"} \union {end \in {"fail"} : "contextDone" \in Env}
  /\ UNCHANGED <<vars, gids, overdue>>

\* The pipeline fails: "continue" tries again at once and looks neither at the
\* deadline nor at the ticker.  A failed SMEMBERS ends the wait.
GroupCommandFails ==
  /\ Fault("redisError")
  /\ \/ gpc = "poll" /\ UNCHANGED gpc
     \/ gpc = "idle" /\ FannedOut /\ gpc' = "fail"
  /\ UNCHANGED <<lockVars, taskVars, groupVars, listVars, messages, clientVars, workerVars,
                 gids, reported, overdue>>

\* The deadline passes.
Deadline ==
  /\ "waitTimeout" \in Env
  /\ gpc = "poll" /\ ~overdue
  /\ overdue' = TRUE
  /\ UNCHANGED <<vars, gpc, gids, reported>>

GroupWaitStep == Start \/ Poll \/ GroupCommandFails \/ Deadline

\* The orchestrator waits for group tasks with GroupWait only, leaves them when
\* it has returned, starts no other command in between, and what it fans out
\* later is another group.
CallerWaits ==
  "parallelCalls" \notin Env =>
    \A t \in Tasks : pc'[t] # pc[t] =>
      /\ gpc = "poll" => pc[t] \notin {"idle", "enqueued"}
      /\ t \in Grouped /\ pc[t] = "idle" => gpc = "idle"
      /\ t \in Grouped /\ pc[t] = "enqueued" => gpc # "idle" /\ pc'[t] = "left"

WithinBounds ==
  /\ Cardinality({t \in Tasks : pc'[t] # "idle"}) <= MaxCalls
  /\ Cardinality(cancel') <= MaxCancels

QueueStep == Next /\ UNCHANGED groupWaitVars /\ CallerWaits /\ WithinBounds

GroupWaitInit == Init /\ GroupInit
GroupWaitNext == QueueStep \/ GroupWaitStep
GroupWaitSpec == GroupWaitInit /\ [][GroupWaitNext]_groupAllVars

\* What the orchestrator does next in a command on a task it has begun.
Command(t) ==
  /\ pc[t] # "idle"
  /\ Enqueue(t) \/ WaitTask(t) \/ PollTimeout(t)
  /\ UNCHANGED <<workerVars, groupWaitVars>>
  /\ CallerWaits

\* A worker process keeps working and is restarted after a stop; an orchestrator
\* that began a command finishes it, polls until its deadline and then gives up.
GroupWaitFairSpec ==
  /\ GroupWaitSpec
  /\ \A w \in Workers :
       WF_groupAllVars((Take(w) \/ ProcessOneTask(w) \/ Restart(w)) /\ UNCHANGED <<clientVars, groupWaitVars>>)
  /\ WF_groupAllVars(\E t \in Tasks : Command(t))
  /\ WF_groupAllVars(Poll \/ Deadline)

-----------------------------------------------------------------------------
\* GroupWait answers with a verdict only once every task of the group whose
\* enqueue succeeded has its outcome, and reports that outcome.  Unless a
\* failed enqueue left something in the group, the verdict is that of the
\* outcomes the workers stored: "error" if one failed, "cancelled" if all were
\* cancelled, "complete" otherwise.  Nothing that happens later unsays it.
VerdictFinal ==
  gpc \in Verdicts =>
    LET group == {t \in Grouped : Pushed(t) /\ pc[t] # "init"}
        stored(outcome) == \E t \in group : result[t] = outcome
    IN /\ \A t \in group : t \in gids /\ reported[t] = result[t] /\ result[t] \in Outcomes
       /\ gids \subseteq group =>
            /\ (gpc = "error") <=> stored("failed")
            /\ (gpc = "cancelled") <=> ~stored("failed") /\ ~stored("done")

\* A wait for a group ends, whatever the workers do, as long as Redis answers
\* in the end: with a verdict, at its deadline, or with its context.
GroupWaitEnds ==
  gpc = "poll" ~> gpc \in Verdicts \union {"timeout"} \union {end \in {"fail"} : "contextDone" \in Env}
=============================================================================
