------------------------------ MODULE WorkQueue ------------------------------
(***************************************************************************)
(* The rate-limiting work queue of client-go, as pkg/controller/worker.go  *)
(* uses it.  An item waiting in the queue is not queued twice; one added   *)
(* while it is being processed is queued again when it is done; one added  *)
(* with a rate limit waits in a timer before it is added.                  *)
(***************************************************************************)
EXTENDS Naturals, Sequences

EmptyQueue == [order |-> <<>>, dirty |-> {}, running |-> {}, later |-> {}]

Add(q, e) ==
  IF e \in q.dirty THEN q
  ELSE [q EXCEPT !.dirty = @ \cup {e},
                 !.order = IF e \in q.running THEN @ ELSE Append(@, e)]

\* Adding the items E one by one; order has those that do not wait or run already.
AddAll(q, E, order) == [q EXCEPT !.dirty = @ \cup E, !.order = @ \o order]

\* Adding up to two events in turn.
AddEach(q, events) ==
  IF events = <<>> THEN q
  ELSE IF Len(events) = 1 THEN Add(q, events[1])
  ELSE Add(Add(q, events[1]), events[2])

Get(q) ==
  [q EXCEPT !.order = Tail(@), !.dirty = @ \ {Head(q.order)}, !.running = @ \cup {Head(q.order)}]

Done(q, e) ==
  [q EXCEPT !.running = @ \ {e}, !.order = IF e \in q.dirty THEN Append(@, e) ELSE @]

AddRateLimited(q, e) == [q EXCEPT !.later = @ \cup {e}]

\* The timer of a rate-limited item runs out.
Expire(q, e) == Add([q EXCEPT !.later = @ \ {e}], e)

\* Slips in handler: Done is forgotten; a failed item is forgotten, not retried.
HandledNotDone(q, e, failed) == IF failed THEN AddRateLimited(q, e) ELSE q
HandledNoRetry(q, e, failed) == Done(q, e)

\* handler: the item is done, and comes back after a delay if its sync failed.
Handled(q, e, failed) == Done(IF failed THEN AddRateLimited(q, e) ELSE q, e)

Pending(q) == q.dirty \cup q.running \cup q.later
=============================================================================
