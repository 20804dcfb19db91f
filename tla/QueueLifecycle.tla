--------------------------- MODULE QueueLifecycle ---------------------------
(***************************************************************************)
(* DedicatedQueueLifecycle: the states of one queue with a server of its   *)
(* own, as functions on a record.  A closed queue finishes its own line in *)
(* place; a queue that is to rest first empties, marked break_pending.     *)
(***************************************************************************)
EXTENDS Integers, Sequences

Nobody == 0

States == {"ACTIVE", "DRAINING", "INACTIVE", "ON_BREAK"}

\* Customers are positive numbers.
Lifecycle == [state : States, pending : BOOLEAN, waiting : Seq(Nat), serving : Nat]

New(state) == [state |-> state, pending |-> FALSE, waiting |-> <<>>, serving |-> Nobody]

Occupied(l) == l.waiting # <<>> \/ l.serving # Nobody

AcceptsArrivals(l) == l.state = "ACTIVE"

FinishIfEmpty(l) ==
  IF l.state = "DRAINING" /\ ~l.pending /\ ~Occupied(l)
  THEN [l EXCEPT !.state = "INACTIVE"] ELSE l

\* transition_for_segment raises for these.
Refuses(l, active) == active /\ l.state = "DRAINING"

TransitionForSegment(l, active) ==
  CASE active /\ l.state = "INACTIVE" -> [l EXCEPT !.state = "ACTIVE"]
    [] active /\ l.state # "INACTIVE" -> l
    [] ~active /\ l.state = "ACTIVE" -> FinishIfEmpty([l EXCEPT !.state = "DRAINING"])
    [] OTHER -> FinishIfEmpty(l)

Enqueue(l, c) == [l EXCEPT !.waiting = Append(@, c)]

BeginService(l) ==
  IF l.serving # Nobody \/ l.waiting = <<>> THEN l
  ELSE [l EXCEPT !.serving = Head(l.waiting), !.waiting = Tail(@)]

CompleteService(l) == FinishIfEmpty([l EXCEPT !.serving = Nobody])

BeginDraining(l) ==
  IF l.state = "ACTIVE" THEN [l EXCEPT !.state = "DRAINING", !.pending = TRUE] ELSE l

BeginBreak(l) == [l EXCEPT !.state = "ON_BREAK"]

EndBreak(l) ==
  IF l.state = "ON_BREAK" THEN [l EXCEPT !.state = "ACTIVE", !.pending = FALSE] ELSE l
=============================================================================
