----------------------------- MODULE MCGroupWait -----------------------------
(* An instance of GroupWait for TLC. *)
EXTENDS GroupWait

CONSTANTS t1, t2, t3, th1, w1

MCOneWorker == [t \in Tasks |-> w1]
MCOneThread == [t \in Tasks |-> th1]
=============================================================================
