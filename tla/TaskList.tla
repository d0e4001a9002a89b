------------------------------- MODULE TaskList ------------------------------
(***************************************************************************)
(* ListTasks (tasklib/tasks.go): the tasks of active_tasks and of every    *)
(* key task:<id>:status, merged, filtered, sorted and cut to a page.       *)
(*                                                                         *)
(* registered (the hash) and keys are functions from task ids, which are   *)
(* numbers in the order of the ids, to records with a status and a thread; *)
(* "" is a field that is not there or that could not be read.              *)
(***************************************************************************)
EXTENDS Integers, Sequences, FiniteSets

\* taskStatusOrder; Go answers 0 for a status that is not in it.
StatusOrder == [failed |-> 0, running |-> 1, pending |-> 2, done |-> 3,
                cancelled |-> 4, queued |-> 5, unknown |-> 6]

Priority(s) == IF s \in DOMAIN StatusOrder THEN StatusOrder[s] ELSE 0

\* What active_tasks says comes first; what it lacks is read from the task's
\* keys, and what they lack has a stand-in.
Field(registered, keys, t, name, standin) ==
  IF t \in DOMAIN registered /\ registered[t][name] # "" THEN registered[t][name]
  ELSE IF t \in DOMAIN keys /\ keys[t][name] # "" THEN keys[t][name]
  ELSE standin

Row(registered, keys, t) ==
  [id     |-> t,
   status |-> Field(registered, keys, t, "status", "unknown"),
   thread |-> Field(registered, keys, t, "thread", "-")]

\* The rows that pass the filters; "" filters nothing.
Rows(registered, keys, wanted, thread) ==
  {row \in {Row(registered, keys, t) : t \in DOMAIN registered \union DOMAIN keys} :
     /\ wanted # "" => row.status = wanted
     /\ thread # "" => row.thread = thread}

\* The order by status, which is also the default; desc is the reverse.
Before(r, s, asc) ==
  asc = (IF Priority(r.status) # Priority(s.status) THEN Priority(r.status) < Priority(s.status)
                                                    ELSE r.id < s.id)

\* Mutant: the page is cut before the offset is applied.
PageCutFirst(list, limit, offset) ==
  LET cut == SubSeq(list, 1, IF Len(list) > limit THEN limit ELSE Len(list))
  IN IF offset >= Len(cut) THEN << >> ELSE SubSeq(cut, offset + 1, Len(cut))

\* Offset, then limit; an offset behind the end leaves nothing.
Page(list, limit, offset) ==
  LET rest == IF offset > 0 /\ offset < Len(list) THEN SubSeq(list, offset + 1, Len(list))
              ELSE IF offset >= Len(list) THEN << >> ELSE list
  IN SubSeq(rest, 1, IF Len(rest) > limit THEN limit ELSE Len(rest))

\* sort.Slice: each row behind those that come before it.
Sorted(rows, asc) ==
  LET ahead(row) == Cardinality({r \in rows : r # row /\ Before(r, row, asc)})
  IN [i \in 1 .. Cardinality(rows) |-> CHOOSE row \in rows : ahead(row) = i - 1]

ListTasks(registered, keys, wanted, thread, limit, offset, asc) ==
  Page(Sorted(Rows(registered, keys, wanted, thread), asc), IF limit <= 0 THEN 50 ELSE limit, offset)

-----------------------------------------------------------------------------
\* The pages of a reader who moves the offset by the limit, and the places on
\* them.
Pages(registered, keys, thread, limit, asc) ==
  [n \in 1 .. Cardinality(Rows(registered, keys, "", thread)) + 1 |->
     ListTasks(registered, keys, "", thread, limit, (n - 1) * limit, asc)]

Places(pages) == UNION {{n} \X DOMAIN pages[n] : n \in DOMAIN pages}

\* Page after page shows every task of the thread, none twice, in order.
PagesFact(registered, keys, thread, limit, asc) ==
  LET pages == Pages(registered, keys, thread, limit, asc)
      shown(p) == pages[p[1]][p[2]]
  IN /\ {shown(p) : p \in Places(pages)} = Rows(registered, keys, "", thread)
     /\ \A p, q \in Places(pages) :
          p[1] < q[1] \/ (p[1] = q[1] /\ p[2] < q[2])
            => shown(p) # shown(q) /\ Before(shown(p), shown(q), asc)

\* What the deletion of a thread relies on: the first page has a task of the
\* thread that is running or pending if there is one, unless tasks that failed,
\* or whose status has no place in the order, fill it.
FirstPageFact(registered, keys, thread, limit) ==
  LET list  == ListTasks(registered, keys, "", thread, limit, 0, TRUE)
      busy(row) == row.status \in {"running", "pending"}
  IN (\E row \in Rows(registered, keys, "", thread) : busy(row)) =>
       \/ \E i \in DOMAIN list : busy(list[i])
       \/ Len(list) = limit /\ \A i \in DOMAIN list : Priority(list[i].status) = 0

ListFact(registered, keys, thread, limit, asc) ==
  /\ PagesFact(registered, keys, thread, limit, asc)
  /\ FirstPageFact(registered, keys, thread, limit)
=============================================================================
