----------------------------- MODULE RateLimiter -----------------------------
(***************************************************************************)
(* The rate limiter of the web UI (internal/api/middleware.go), for one    *)
(* client address: a sliding window of the times at which requests were    *)
(* admitted.  allow and the sweep of cleanup run under a mutex and look at *)
(* the clock inside, so what happens to a window is a sequence of events,  *)
(* requests and sweeps, at times that never go back.                       *)
(*                                                                         *)
(* A window is the set of the events whose times are in the list; nothing  *)
(* depends on the order of the list.                                       *)
(***************************************************************************)
EXTENDS Naturals, Sequences, FiniteSets

\* The events whose time t has t.After(cutoff), cutoff = now - interval.
Valid(window, events, now, interval) == {k \in window : events[k].now + interval > now}

\* allow of the n-th event: a request that is refused leaves no trace.
Allow(window, events, n, limit, interval) ==
  LET valid == Valid(window, events, events[n].now, interval)
  IN IF Cardinality(valid) >= limit THEN [ok |-> FALSE, window |-> valid]
                                    ELSE [ok |-> TRUE, window |-> valid \union {n}]

\* One sweep of cleanup; an address without a window has the empty one.
Cleanup(window, events, now, interval) == Valid(window, events, now, interval)

\* The window and the requests admitted so far, after the n-th event.
After(before, events, n, limit, interval) ==
  LET answer == Allow(before.window, events, n, limit, interval)
  IN IF events[n].sweep
       THEN [before EXCEPT !.window = Cleanup(@, events, events[n].now, interval)]
       ELSE [window   |-> answer.window,
             admitted |-> before.admitted \union (IF answer.ok THEN {n} ELSE {})]

\* The requests the limiter admits; it starts without a window.
Admissions(events, limit, interval) ==
  LET after[n \in 0 .. Len(events)] ==
        IF n = 0 THEN [window |-> {}, admitted |-> {}]
        ELSE After(after[n - 1], events, n, limit, interval)
  IN after[Len(events)].admitted

-----------------------------------------------------------------------------
\* The admitted requests of the interval that ends with event n, and those
\* that event n finds.
Recent(events, admitted, n, interval) ==
  {k \in admitted : k <= n /\ events[k].now + interval > events[n].now}
Found(events, admitted, n, interval) == Recent(events, admitted, n, interval) \ {n}

\* No interval holds more admitted requests than the limit, wherever it begins,
\* and a request is refused only when the interval before it is full.  This
\* settles what is admitted, so when the sweeps come makes no difference.
RateFact(events, limit, interval) ==
  LET admitted == Admissions(events, limit, interval)
  IN \A n \in DOMAIN events :
       /\ Cardinality(Recent(events, admitted, n, interval)) <= limit
       /\ n \in admitted <=> /\ ~events[n].sweep
                             /\ Cardinality(Found(events, admitted, n, interval)) < limit
=============================================================================
