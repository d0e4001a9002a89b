----------------------------- MODULE MCTaskQueue -----------------------------
(* Instances of TaskQueue for TLC. *)
EXTENDS TaskQueue

CONSTANTS t1, t2, t3, th1, w1, w2

\* One worker serves every task.
MCOneWorker == [t \in Tasks |-> w1]
\* The last task goes to another worker.
MCTwoWorkers == [t \in Tasks |-> IF t = t2 THEN w2 ELSE w1]
MCOneThread == [t \in Tasks |-> th1]
=============================================================================
