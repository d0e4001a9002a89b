-------------------------- MODULE MCRequestHandler --------------------------
(* Instances of RequestHandler for TLC. *)
EXTENDS RequestHandler, TLC

CONSTANTS r1, r2, r3, th1, th2

MCOneThread == [r \in Requests |-> th1]
\* The last request goes to another thread.
MCTwoThreads == [r \in Requests |-> IF r = r3 THEN th2 ELSE th1]

\* Requests of one thread are interchangeable.
MCSymmetry == Permutations(Requests)
=============================================================================
