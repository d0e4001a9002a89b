---------------------------- MODULE ThreadHistory ----------------------------
(***************************************************************************)
(* Reading thread:<id>:messages (tasklib/threads.go).  The list only grows *)
(* at its end.  A message is an addressee and an id: the instruction of a  *)
(* group task names its worker, all others nobody.                         *)
(***************************************************************************)
EXTENDS Integers, Sequences, FiniteSets

Message(worker, id) == [worker |-> worker, id |-> id]

\* LRANGE: bounds count from 0, negative ones from the end, and are clipped.
LRange(list, start, stop) ==
  LET from == IF start >= 0 THEN start ELSE IF Len(list) + start >= 0 THEN Len(list) + start ELSE 0
      to   == IF stop >= 0 THEN stop ELSE Len(list) + stop
  IN SubSeq(list, from + 1, IF to < Len(list) THEN to + 1 ELSE Len(list))

\* Without a limit it is all that follows, or all there is.
GetThreadHistory(list, offset, limit) ==
  IF limit > 0 THEN LRange(list, offset, offset + limit - 1)
               ELSE LRange(list, IF offset > 0 THEN offset ELSE 0, -1)

GetThreadHistoryTail(list, tail) == IF tail <= 0 THEN << >> ELSE LRange(list, -tail, -1)

Addressed(m, worker, nobody) == m.worker \in {worker, nobody}

\* The loop over the messages of a batch: filtered.
Filtered(batch, worker, nobody) ==
  LET filtered[k \in 0 .. Len(batch)] ==
        IF k = 0 THEN << >>
        ELSE IF Addressed(batch[k], worker, nobody) THEN Append(filtered[k - 1], batch[k])
        ELSE filtered[k - 1]
  IN filtered[Len(batch)]

\* Mutant: the walk ends with the first batch.
TailOfLastBatch(list, tail, worker, nobody, batchSize) ==
  GetThreadHistoryTail(Filtered(LRange(list, -batchSize, -1), worker, nobody), tail)

\* Batches from the end of the list, until enough messages are for the worker.
\* Their bounds count from the front of a list that only grows at its end: what
\* is appended after LLEN is in none of them, and moves none.
GetThreadHistoryTailForWorker(list, tail, worker, nobody, batchSize) ==
  LET end(k)  == Len(list) - 1 - (k - 1) * batchSize
      start(k) == IF end(k) - batchSize + 1 < 0 THEN 0 ELSE end(k) - batchSize + 1
      collected[k \in 0 .. Len(list)] ==
        IF k = 0 THEN << >>
        ELSE IF end(k) < 0 \/ Len(collected[k - 1]) >= tail THEN collected[k - 1]
        ELSE Filtered(LRange(list, start(k), end(k)), worker, nobody) \o collected[k - 1]
      all == collected[Len(list)]
  IN IF tail <= 0 THEN << >>
     ELSE IF Len(all) > tail THEN SubSeq(all, Len(all) - tail + 1, Len(all))
     ELSE all

-----------------------------------------------------------------------------
\* What a worker is to see: of the messages that are for it the last ones, in
\* order.
LastForWorker(list, tail, worker, nobody) ==
  LET mine == {i \in DOMAIN list : Addressed(list[i], worker, nobody)}
      upto(i) == Cardinality({j \in mine : j <= i})
      count == IF tail <= 0 THEN 0 ELSE IF Cardinality(mine) < tail THEN Cardinality(mine) ELSE tail
  IN [k \in 1 .. count |-> list[CHOOSE i \in mine : upto(i) = Cardinality(mine) - count + k]]

\* A client that asks for page after page, each behind the messages it has.
AllPages(list, limit) ==
  LET shown[k \in 0 .. Len(list)] ==
        IF k = 0 THEN << >>
        ELSE shown[k - 1] \o GetThreadHistory(list, Len(shown[k - 1]), limit)
  IN shown[Len(list)]

\* A worker of a group sees the last messages that are for it, however many
\* others lie between; page after page gives every message once and in order.
HistoryFact(list, tail, worker, nobody, batchSize, limit) ==
  /\ GetThreadHistoryTailForWorker(list, tail, worker, nobody, batchSize)
       = LastForWorker(list, tail, worker, nobody)
  /\ AllPages(list, limit) = list
=============================================================================
