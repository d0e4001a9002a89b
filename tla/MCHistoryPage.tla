---------------------------- MODULE MCHistoryPage ----------------------------
(* An instance of HistoryPage for TLC. *)
EXTENDS HistoryPage

CONSTANTS r1, th1

MCOneThread == [r \in Requests |-> th1]
=============================================================================
