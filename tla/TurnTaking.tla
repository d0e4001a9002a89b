----------------------------- MODULE TurnTaking -----------------------------
(***************************************************************************)
(* What the request lock promises about the histories of the threads: one  *)
(* request at a time has the turn of its thread, it is opened by the       *)
(* user's message, and what is said on a thread is said by the request     *)
(* that has the turn.                                                      *)
(***************************************************************************)
EXTENDS Sequences

CONSTANTS Requests, Threads, ThreadOf, NoRequest

VARIABLES turn,   \* the request that has the turn of a thread
          history \* what was said on a thread, and by which request

Said == {"plan", "response", "error"}

Init ==
  /\ turn = [th \in Threads |-> NoRequest]
  /\ history = [th \in Threads |-> << >>]

Turn(r) == turn[ThreadOf[r]] = r

Begin(r) ==
  /\ turn[ThreadOf[r]] = NoRequest
  /\ turn' = [turn EXCEPT ![ThreadOf[r]] = r]
  /\ UNCHANGED history

Ask(r) ==
  /\ Turn(r)
  /\ \A i \in DOMAIN history[ThreadOf[r]] : history[ThreadOf[r]][i][1] # r
  /\ history' = [history EXCEPT ![ThreadOf[r]] = Append(@, <<r, "request">>)]
  /\ UNCHANGED turn

\* A request says something only after its question, and nothing of another
\* request has come between: the last message of the thread is its own.
Say(r) ==
  /\ Turn(r)
  /\ history[ThreadOf[r]] # << >>
  /\ history[ThreadOf[r]][Len(history[ThreadOf[r]])][1] = r
  /\ \E kind \in Said : history' = [history EXCEPT ![ThreadOf[r]] = Append(@, <<r, kind>>)]
  /\ UNCHANGED turn

\* The turn ends, on some threads together when the server stops.
End ==
  /\ \E ths \in SUBSET Threads :
       turn' = [th \in Threads |-> IF th \in ths THEN NoRequest ELSE turn[th]]
  /\ UNCHANGED history

Next == End \/ \E r \in Requests : Begin(r) \/ Ask(r) \/ Say(r)

Spec == Init /\ [][Next]_<<turn, history>>
=============================================================================
