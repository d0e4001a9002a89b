----------------------------- MODULE ThreadReads -----------------------------
(***************************************************************************)
(* ThreadDeletion with what the page of a thread, its workers and a        *)
(* deletion read of the store: histories, lists of tasks, trees of         *)
(* threads, as they may have come about in any way.                        *)
(***************************************************************************)
EXTENDS ThreadDeletion, ThreadHistory, TaskList

CONSTANTS
  Histories,   \* histories of a thread
  Sizes,       \* of tails, batches and pages
  Stores,      \* what active_tasks and the keys say of tasks
  Trees        \* threads and their parents

\* A status and a thread may be missing, which is "".
TaskFields == [status : STRING, thread : STRING]

ASSUME ReadsAssumption ==
  /\ "" \notin Threads
  /\ \A list \in Histories : list \in Seq([worker : STRING, id : Int])
  /\ Sizes \subseteq Nat \ {0}
  /\ \A store \in Stores :
       \A fields \in {store.registered, store.keys} :
         /\ DOMAIN fields \subseteq Int
         /\ IsFiniteSet(DOMAIN fields)
         /\ \A t \in DOMAIN fields : fields[t] \in TaskFields
  /\ \A tree \in Trees : IsFiniteSet(tree.threads)

HistoryFacts ==
  \A list \in Histories :
    \A size \in Sizes, tail \in Sizes \union {0} : HistoryFact(list, tail, "w1", "", size, tail)

ListFacts ==
  \A store \in Stores, limit \in Sizes, asc \in BOOLEAN :
    ListFact(store.registered, store.keys, "a", limit, asc)

TreeFacts == \A tree \in Trees : TreeFact(tree.threads, tree.parent)

\* What is read of the lists is what is in them.  A worker of a group sees the
\* last messages that are for it, however many others lie between
\* (GetThreadHistoryTailForWorker), and a reader who asks for page after page
\* gets every message once and in order (GetThreadHistory).  The list of tasks
\* that a deletion looks at has one that is under way on its first page, unless
\* failed tasks fill it ("limit=1000 ... covers threads with large task
\* histories"), its pages have each task once, in either order, and they find of
\* a thread, in any state, what CheckTasks of ThreadDeletion finds.  The threads
\* that are read make a tree (DiscoverDescendants).
ReadsRight ==
  /\ exists # {} => HistoryFacts
  /\ TreeFacts
  /\ ListFacts
  /\ \A th \in Threads, s \in {"pending", "running"} :
       LET registered == [t \in active |-> [status |-> "running", thread |-> TaskThread[t]]]
           keys       == [t \in {t \in Tasks : status[t] # "none"} |->
                            [status |-> status[t], thread |-> TaskThread[t]]]
       IN {row.id : row \in Rows(registered, keys, s, th)}
            = {t \in Tasks : TaskThread[t] = th /\ Listed(t) = s}
=============================================================================
