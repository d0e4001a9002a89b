----------------------------- MODULE HistoryPage -----------------------------
(***************************************************************************)
(* The page of a thread while a request is at work on it: the history      *)
(* handler (internal/api/threads.go) and the poller in _history.html.  A   *)
(* page loads the tail of the history, then asks for what follows every    *)
(* few seconds for as long as the thread has a running request.            *)
(*                                                                         *)
(* Each answer is built from two Redis commands, LRANGE of the messages    *)
(* and then EXISTS of the request lock; the request goes on between them.  *)
(***************************************************************************)
EXTENDS RequestHandler, ThreadHistory

CONSTANTS Viewed,  \* the thread of the page
          PageTail \* messages the page loads at first

VARIABLES page,    \* where the page is
          offset,  \* what the poller asks for next
          shown    \* the messages it shows

pageVars == <<page, offset, shown>>

PageInit == Init /\ page = "closed" /\ offset = 0 /\ shown = << >>

\* LRANGE of history?tail=N; the poller will begin behind as many messages as
\* came (MsgCount).
LoadTail ==
  /\ page = "closed"
  /\ LET messages == GetThreadHistoryTail(history[Viewed], PageTail)
     IN /\ page' = IF messages = << >> THEN "empty" ELSE "loaded"
        /\ offset' = Len(messages)
        /\ shown' = messages
  /\ UNCHANGED vars

\* LRANGE of history?offset=N&poll=1, from the offset to the end.
Poll ==
  /\ page = "polling"
  /\ LET messages == GetThreadHistory(history[Viewed], offset, 0)
     IN /\ offset' = offset + Len(messages)
        /\ shown' = shown \o messages
  /\ page' = "loaded"
  /\ UNCHANGED vars

\* IsRequestRunning decides whether the answer carries a poller; without one
\* the page stays as it is.  An error of the lookup reads as "not running".
IsRequestRunning ==
  /\ page = "loaded"
  /\ \/ /\ page' = IF running[Viewed] # NoRequest THEN "polling" ELSE "final"
        /\ UNCHANGED vars
     \/ /\ page' = "final"
        /\ Fault("redisError")
        /\ UNCHANGED <<keyVars, processVars, gone, task, pc>>
  /\ UNCHANGED <<offset, shown>>

Browser == LoadTail \/ Poll \/ IsRequestRunning

PageNext == Browser \/ (Next /\ UNCHANGED pageVars)

PageSpec == PageInit /\ [][PageNext]_<<vars, pageVars>>

-----------------------------------------------------------------------------
\* A page that stops polling because no request is running shows the answer of
\* the request it followed ("message history updating in real time via HTMX
\* polling, with a response banner when the master finishes").
AnswerShown ==
  page = "final" =>
    \A i \in DOMAIN history[Viewed] :
      history[Viewed][i][2] = "response" => \E k \in DOMAIN shown : shown[k] = history[Viewed][i]
=============================================================================
