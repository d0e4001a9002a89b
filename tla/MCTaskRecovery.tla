--------------------------- MODULE MCTaskRecovery ---------------------------
(* Instances of TaskRecovery for TLC. *)
EXTENDS TaskRecovery

CONSTANTS t1, t2, th1, w1

MCOneWorker == [t \in Tasks |-> w1]
MCOneThread == [t \in Tasks |-> th1]
=============================================================================
