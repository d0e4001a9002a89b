------------------------------ MODULE TokenUsage -----------------------------
(***************************************************************************)
(* Token accounting: what the output of an agent says it used, which       *)
(* tasklib/tokens.go reads of a task and the web UI of a turn of the       *)
(* master, and the counters in Redis that add it up.                       *)
(*                                                                         *)
(* Usage is a record of two of the five counts, which are all treated      *)
(* alike; an event of an output stream is its type with the usage it       *)
(* carries.                                                                *)
(***************************************************************************)
EXTENDS Naturals, Sequences

Usage == [input : Nat, output : Nat]

NoTokens == [input |-> 0, output |-> 0]

Plus(u, v) == [input |-> u.input + v.input, output |-> u.output + v.output]

-----------------------------------------------------------------------------
OutputEvent == [type : STRING, usage : Usage]

\* extractClaudeTokens: a report replaces what the earlier ones said.
ClaudeReads(stats, event) ==
  IF event.type \in {"result", "usage"} THEN event.usage ELSE stats

\* extractCodexTokens, extractOpenCodeTokens: every turn is added.
CodexReads(stats, event) ==
  IF event.type = "turn.completed" THEN Plus(stats, event.usage) ELSE stats

OpenCodeReads(stats, event) ==
  IF event.type = "step_finish" THEN Plus(stats, event.usage) ELSE stats

\* processStreamJSON of the web UI: every report is added.
StreamReads(stats, event) ==
  IF event.type \in {"result", "usage"} THEN Plus(stats, event.usage) ELSE stats

\* NewStatsProvider: a type it does not know has no tokens.  (Those of Copilot,
\* which stand in its stderr, are left out.)
TaskReads(agent, stats, event) ==
  CASE agent = "claude"   -> ClaudeReads(stats, event)
    [] agent = "codex"    -> CodexReads(stats, event)
    [] agent = "opencode" -> OpenCodeReads(stats, event)
    [] OTHER              -> stats

\* A run is one of a task or a turn of the master on a thread, whose output the
\* web UI reads itself.
Reads(run, stats, event) ==
  IF run.what = "task" THEN TaskReads(run.agent, stats, event) ELSE StreamReads(stats, event)

\* What a run used, by its output.
Used(run) ==
  LET stats[n \in 0 .. Len(run.output)] ==
        IF n = 0 THEN NoTokens ELSE Reads(run, stats[n - 1], run.output[n])
  IN stats[Len(run.output)]

-----------------------------------------------------------------------------
\* The counters: stats:total_tokens and its task_count, stats:total_tokens:<agent>,
\* the fields of each task, the master fields of each thread.
NoCounters(agents, tasks, threads) ==
  [total |-> NoTokens, runs |-> 0,
   agent  |-> [a \in agents |-> NoTokens],
   task   |-> [t \in tasks |-> NoTokens],
   thread |-> [th \in threads |-> NoTokens]]

CountFor(c, agent, used) ==
  [c EXCEPT !.total = Plus(@, used), !.runs = @ + 1, !.agent[agent] = Plus(@, used)]

\* A field of a task is only written when it is not 0.
Written(old, used) ==
  [input  |-> IF used.input > 0 THEN used.input ELSE old.input,
   output |-> IF used.output > 0 THEN used.output ELSE old.output]

PersistTokenStats(c, task, agent, used) ==
  [CountFor(c, agent, used) EXCEPT !.task[task] = Written(@, used)]

\* PersistMasterTokenStats of a turn on a thread; master is the orchestrator's
\* name, which may be that of an agent.
PersistMasterTokenStats(c, thread, master, used) ==
  [CountFor(c, master, used) EXCEPT !.thread[thread] = Plus(@, used)]

Persist(c, run) ==
  IF run.what = "task" THEN PersistTokenStats(c, run.id, run.agent, Used(run))
                       ELSE PersistMasterTokenStats(c, run.id, run.agent, Used(run))

\* The counters after a sequence of runs.
Counters(runs, agents, tasks, threads) ==
  LET after[n \in 0 .. Len(runs)] ==
        IF n = 0 THEN NoCounters(agents, tasks, threads) ELSE Persist(after[n - 1], runs[n])
  IN after[Len(runs)]

-----------------------------------------------------------------------------
Names(list) == {list[i] : i \in DOMAIN list}

\* The sum of the counters of all names of a list.
Total(list, counter) ==
  LET sum[n \in 0 .. Len(list)] == IF n = 0 THEN NoTokens ELSE Plus(sum[n - 1], counter[list[n]])
  IN sum[Len(list)]

\* The books balance: the total is the sum over the agents, and also the sum
\* over the tasks and threads, as long as no task is run twice.  The lists name
\* each agent, task and thread once.
LedgerFact(runs, agents, tasks, threads) ==
  LET c == Counters(runs, Names(agents), Names(tasks), Names(threads))
      once == \A i, j \in DOMAIN runs :
                runs[i].what = "task" /\ runs[j].what = "task" /\ runs[i].id = runs[j].id => i = j
  IN /\ c.runs = Len(runs)
     /\ c.total = Total(agents, c.agent)
     /\ once => c.total = Plus(Total(tasks, c.task), Total(threads, c.thread))
=============================================================================
