----------------------------- MODULE TaskPromise -----------------------------
(***************************************************************************)
(* What the task queue promises about each task, with nothing said of      *)
(* Redis lists or processes: once sent it is not lost, it is handed out    *)
(* once, and it ends once, with one outcome.                               *)
(***************************************************************************)
CONSTANT Tasks
VARIABLE phase

Outcomes == {"done", "failed", "cancelled"}

TypeOK == phase \in [Tasks -> {"absent", "queued", "claimed"} \union Outcomes]

Init == phase = [t \in Tasks |-> "absent"]

Move(t, from, to) == phase[t] = from /\ phase' = [phase EXCEPT ![t] = to]

Send(t)   == Move(t, "absent", "queued")
Claim(t)  == Move(t, "queued", "claimed")
Finish(t) == \E o \in Outcomes : Move(t, "claimed", o)

Next == \E t \in Tasks : Send(t) \/ Claim(t) \/ Finish(t)

Spec == Init /\ [][Next]_phase

Open == {t \in Tasks : phase[t] \in {"queued", "claimed"}}

\* Once no more is sent, all that was sent ends: the part of the promise that
\* needs a live worker.
Delivered == Open # {} ~> Open = {}
=============================================================================
