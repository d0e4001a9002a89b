--------------------------- MODULE MCWorkerHealth ----------------------------
(* An instance of WorkerHealth for TLC.  The other services of the web UI    *)
(* that watch and count, the rate limiter and the token counters, share no   *)
(* state with it; what their operators should give is evaluated here once,   *)
(* on every input up to a size.                                              *)
EXTENDS WorkerHealth, RateLimiter, TokenUsage, Functions

CONSTANTS t1, t2

\* Up to five events, each up to two ticks behind the one before.
MCTraffic ==
  LET at(gap) == [n \in 1 .. 5 |-> FoldFunctionOnSet(+, 0, gap, 1 .. n)]
  IN {[n \in 1 .. 5 |-> [now |-> at(gap)[n], sweep |-> sweep[n]]] :
        gap \in [1 .. 5 -> 0 .. 2], sweep \in [1 .. 5 -> BOOLEAN]}

ASSUME LimiterChecked ==
  \A events \in MCTraffic, limit \in {1, 2}, interval \in {2, 3} : RateFact(events, limit, interval)

\* An output of up to two reports, in the formats the parsers tell apart.
MCOutput(type) ==
  UNION {[1 .. n -> [type : {type, "other"}, usage : [input : {0, 1}, output : {1}]]] : n \in 0 .. 2}

MCAgents == <<"claude", "codex", "opencode", "master">>
MCType   == [claude |-> "result", codex |-> "turn.completed", opencode |-> "step_finish"]

MCRuns ==
  LET task == UNION {[what : {"task"}, id : {"t1", "t2"}, agent : {a}, output : MCOutput(MCType[a])] :
                       a \in {"claude", "codex", "opencode"}}
      turn == [what : {"turn"}, id : {"a"}, agent : {"claude", "master"}, output : MCOutput("usage")]
  IN UNION {[1 .. n -> task \union turn] : n \in 0 .. 2}

ASSUME LedgerChecked ==
  \A runs \in MCRuns : LedgerFact(runs, MCAgents, <<"t1", "t2">>, <<"a">>)
=============================================================================
