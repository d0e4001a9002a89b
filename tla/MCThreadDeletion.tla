-------------------------- MODULE MCThreadDeletion ---------------------------
(* Instances of ThreadReads for TLC.                                         *)
EXTENDS ThreadReads

CONSTANTS t1, root, child

\* A thread below another, and a task on it.
MCChain == [th \in Threads |-> IF th = root THEN NoThread ELSE root]
MCTaskBelow == [t \in Tasks |-> child]

\* Every forest, cycle and orphan over four threads, 0 for no parent (a thread is never its own
\* parent: create and UpdateThread refuse that).
MCNodes == 1 .. 4
MCTrees ==
  [threads : SUBSET MCNodes,
   parent  : {par \in [MCNodes -> 0 .. 4] : \A th \in MCNodes : par[th] # th}]

\* Every history of up to seven messages to this worker, another or nobody.
MCHistories ==
  UNION {{[i \in 1 .. n |-> Message(to[i], i)] : to \in [1 .. n -> {"", "w1", "w2"}]} : n \in 0 .. 7}

\* Up to three tasks: what active_tasks says of one, and what its keys say.
MCActive == [1 .. 3 -> {"absent", "running"}]
MCKeys   == [1 .. 3 -> {[status |-> "", thread |-> ""]} \union
                       [status : {"failed", "running", "pending", "done"}, thread : {"a", ""}]]

MCStores ==
  {[registered |-> [t \in {t \in 1 .. 3 : a[t] # "absent"} |-> [status |-> a[t], thread |-> "a"]],
    keys       |-> [t \in {t \in 1 .. 3 : k[t].status # ""} |-> k[t]]] : a \in MCActive, k \in MCKeys}
=============================================================================
