----------------------------- MODULE ThreadTree ------------------------------
(***************************************************************************)
(* The tree of threads: parent_thread_id of every thread:<id>:current_state *)
(* that exists, what DiscoverDescendants (tasklib/threads.go) makes of it, *)
(* and what the list of threads of the web UI shows.                       *)
(***************************************************************************)
EXTENDS Naturals, FiniteSets

\* children[p] of the index DiscoverDescendants and buildThreadTree build from
\* the threads of the scan.
Children(ths, par, p) == {c \in ths : par[c] = p}

\* The walk from the root, level by level; visited stops cycles and the root is
\* not in the result.
Descendants(ths, par, root) ==
  LET visited[n \in 0 .. Cardinality(ths)] ==
        IF n = 0 THEN {root}
        ELSE visited[n - 1] \union UNION {Children(ths, par, p) : p \in visited[n - 1]}
  IN visited[Cardinality(ths)] \ {root}

\* Mutant: a thread whose parent is gone is not a root.
RootsWithoutParent(ths, par) == {th \in ths : par[th] \notin DOMAIN par}

\* filterRootThreads: no parent, or one that is not in the list.
Roots(ths, par) == {th \in ths : par[th] \notin ths}

\* The threads of the page: the roots and what hangs below them.
Shown(ths, par) ==
  LET roots == Roots(ths, par)
  IN roots \union UNION {Descendants(ths, par, r) : r \in roots}

-----------------------------------------------------------------------------
\* The ancestors of a thread by the definition: parents, and their parents, as
\* long as they exist.
Ancestors(ths, par, th) ==
  LET up[n \in 0 .. Cardinality(ths)] ==
        IF n = 0 THEN {th}
        ELSE up[n - 1] \union {par[x] : x \in up[n - 1] \intersect ths}
  IN {par[x] : x \in up[Cardinality(ths)] \intersect ths}

\* What a deletion takes are the threads that have its root above them, and the
\* page of threads hides those whose way up runs into a cycle.
TreeFact(ths, par) ==
  /\ \A th \in ths :
       Descendants(ths, par, th) = {x \in ths \ {th} : th \in Ancestors(ths, par, x)}
  /\ ths \ Shown(ths, par) =
       {x \in ths : \E y \in Ancestors(ths, par, x) : y \in Ancestors(ths, par, y)}
=============================================================================
