----------------------------- MODULE SharedDay -----------------------------
(***************************************************************************)
(* One simulated day of a shared line (simulate_prescribed): customers     *)
(* come and wait in one line, the staffing schedule opens and closes       *)
(* counters, any free counter takes a break that is due, and at closing    *)
(* the line is drained or cut off.                                         *)
(*                                                                         *)
(* The program pops the first event of a heap, handles it, starts due      *)
(* breaks and then services on free counters, and pops the next.  Each     *)
(* action is one turn of that loop; the closing is one action.             *)
(***************************************************************************)
EXTENDS Integers, Sequences, FiniteSets, Functions

CONSTANTS
  N,              \* customers
  B,              \* breaks
  Closing,        \* the closing time: the end of the horizon
  SegmentStarts,  \* when the staffing segments start; a segment is named by its start
  Staff,          \* server counts a segment may have
  Works,          \* how long a service may take
  Lengths,        \* how long a break may be
  Policies        \* closing policies in play

ASSUME ConstantsAssumption ==
  /\ N \in Nat /\ B \in Nat /\ Closing \in Nat \ {0}
  /\ 0 \in SegmentStarts
  /\ SegmentStarts \subseteq 0 .. Closing - 1
  /\ Staff \subseteq Nat
  /\ Works \subseteq Nat \ {0}
  /\ Lengths \subseteq Nat \ {0}
  /\ Policies \subseteq {"DRAIN", "HARD_CUTOFF"}

Customers == 1 .. N
Breaks == 1 .. B

VARIABLES
  day,     \* the arguments of the run
  clock,   \* the time, the segment in force, and whether the day is closed
  sim      \* counters, line, due breaks, the rows reported, and the heap

vars == <<day, clock, sim>>

-----------------------------------------------------------------------------
(* Types *)

Never == -1

Completion == 0
BreakEnd == 1
Capacity == 2
BreakDue == 3
Arrival == 4

InOrder(f) == \A i, j \in DOMAIN f : i < j => f[i] <= f[j]

\* validate_timeline: the segments follow one another over the whole day, so that each is known by its start; each has
\* a whole number of counters, none at all included.
Schedules == [SegmentStarts -> Staff]

\* The breaks are listed by the time they are due.
Days ==
  [arrival : {a \in [Customers -> 0 .. Closing - 1] : InOrder(a)},
   work : [Customers -> Works],
   staff : Schedules,
   due : {d \in [Breaks -> 0 .. Closing - 1] : InOrder(d)},
   length : [Breaks -> Lengths],
   policy : Policies]

Events == [time : Nat, order : 0 .. 4, of : Nat]

Server == [state : {"CLOSED", "IDLE", "BUSY", "DRAINING", "ON_BREAK"},
           customer : Customers \cup {0}, rest : Breaks \cup {0}]

Customer == [start : Nat \cup {Never}, server : Nat, departed : BOOLEAN,
             unserved : {"no", "hard_cutoff", "no_eligible_server"}]

Outcomes == {"completed", "staffing_change", "truncated_by_closing", "cancelled_at_closing"}

Rest == [server : Nat, start : Nat \cup {Never}, finish : Nat \cup {Never},
         outcome : Outcomes \cup {"none"}]

Sim == [server : Seq(Server), line : Seq(Customers), pending : Seq(Breaks),
        customer : [Customers -> Customer], rest : [Breaks -> Rest], heap : SUBSET Events]

-----------------------------------------------------------------------------
(* The heap *)

Before(e, f) ==
  \/ e.time < f.time
  \/ e.time = f.time /\ e.order < f.order
  \/ e.time = f.time /\ e.order = f.order /\ e.of < f.of

\* The event popped next, if there is one.
First == {e \in sim.heap : \A f \in sim.heap \ {e} : Before(e, f)}

At(time, order, of) == [time |-> time, order |-> order, of |-> of]

-----------------------------------------------------------------------------
(* Counters *)

With(s, state) == {v \in DOMAIN s.server : s.server[v].state = state}

Closed == [state |-> "CLOSED", customer |-> 0, rest |-> 0]
Idle == [state |-> "IDLE", customer |-> 0, rest |-> 0]

Rank(v, S) == Cardinality({u \in S : u <= v})

\* Which of the free counters takes what: the lowest the first in the queue, and so on.
Turns(free, queue) ==
  [v \in {u \in free : Rank(u, free) <= Len(queue)} |-> queue[Rank(v, free)]]

\* complete, for each of the customers C
Complete(s, C) ==
  LET freed == {s.customer[c].server : c \in C}
  IN [s EXCEPT
        !.customer = [c \in Customers |-> IF c \in C THEN [@[c] EXCEPT !.departed = TRUE] ELSE @[c]],
        !.server = [v \in DOMAIN @ |->
           IF v \notin freed THEN @[v]
           ELSE IF @[v].state = "DRAINING" THEN Closed ELSE Idle]]

\* mutant: a break ends its length after it was due.
EndOfBreakDue(b, now) == At(day.due[b] + day.length[b], BreakEnd, b)

EndOfBreak(b, now) == At(now + day.length[b], BreakEnd, b)

EndOfService(c, now) == At(now + day.work[c], Completion, c)

\* start_due_breaks: free counters, the lowest first, take the breaks that are due, the first first.
StartDueBreaks(s, now) ==
  LET takes == Turns(With(s, "IDLE"), s.pending)
  IN [s EXCEPT
        !.server = [v \in DOMAIN @ |->
           IF v \in DOMAIN takes THEN [state |-> "ON_BREAK", customer |-> 0, rest |-> takes[v]]
           ELSE @[v]],
        !.pending = SubSeq(@, Cardinality(DOMAIN takes) + 1, Len(@)),
        !.rest = [b \in Breaks |->
           IF b \in Range(takes)
             THEN [@[b] EXCEPT !.server = CHOOSE v \in DOMAIN takes : takes[v] = b, !.start = now]
             ELSE @[b]],
        !.heap = @ \cup {EndOfBreak(b, now) : b \in Range(takes)}]

\* assign: free counters, the lowest first, take the customers in line, the first first.
Assign(s, now) ==
  LET takes == Turns(With(s, "IDLE"), s.line)
  IN [s EXCEPT
        !.server = [v \in DOMAIN @ |->
           IF v \in DOMAIN takes THEN [state |-> "BUSY", customer |-> takes[v], rest |-> 0]
           ELSE @[v]],
        !.line = SubSeq(@, Cardinality(DOMAIN takes) + 1, Len(@)),
        !.customer = [c \in Customers |->
           IF c \in Range(takes)
             THEN [@[c] EXCEPT !.server = CHOOSE v \in DOMAIN takes : takes[v] = c, !.start = now]
             ELSE @[c]],
        !.heap = @ \cup {EndOfService(c, now) : c \in Range(takes)}]

\* end_break: the breaks of the counters V end; only a completed one reopens its counter.
EndBreaks(s, V, now, outcome) ==
  [s EXCEPT
     !.server = [v \in DOMAIN @ |->
        IF v \in V THEN (IF outcome = "completed" THEN Idle ELSE Closed) ELSE @[v]],
     !.rest = [b \in Breaks |->
        IF \E v \in V : s.server[v].rest = b
          THEN [@[b] EXCEPT !.finish = now, !.outcome = outcome] ELSE @[b]]]

\* Counters on break still count as staffed.
Staffed(s) == With(s, "IDLE") \cup With(s, "BUSY") \cup With(s, "ON_BREAK")

-----------------------------------------------------------------------------
(* Staffing *)

\* Idle counters go first, then those on break, then busy ones; the highest number first.
ReleasedBefore(s, u, v) ==
  LET class == [IDLE |-> 1, ON_BREAK |-> 2, BUSY |-> 3]
      cu == class[s.server[u].state]
      cv == class[s.server[v].state]
  IN cu < cv \/ (cu = cv /\ u >= v)

Decrease(s, excess, now) ==
  LET released == {v \in Staffed(s) :
        Cardinality({u \in Staffed(s) : ReleasedBefore(s, u, v)}) <= excess}
      ended == EndBreaks(s, released \cap With(s, "ON_BREAK"), now, "staffing_change")
  IN [ended EXCEPT !.server = [v \in DOMAIN @ |->
        IF v \in released
          THEN IF @[v].state = "BUSY" THEN [@[v] EXCEPT !.state = "DRAINING"] ELSE Closed
          ELSE @[v]]]

\* Draining counters are kept on first, then closed ones reopen, the lowest number first; new
\* numbers are made only when these do not suffice.
Increase(s, needed) ==
  LET draining == With(s, "DRAINING")
      closed == With(s, "CLOSED")
      kept == {v \in draining : Rank(v, draining) <= needed}
      reopened == {v \in closed : Rank(v, closed) <= needed - Cardinality(draining)}
      made == needed - Cardinality(kept) - Cardinality(reopened)
  IN [s EXCEPT !.server = [v \in 1 .. Len(@) + made |->
        IF v > Len(@) \/ v \in reopened THEN Idle
        ELSE IF v \in kept THEN [@[v] EXCEPT !.state = "BUSY"]
        ELSE @[v]]]

\* apply_capacity
ApplyCapacity(s, target, now) ==
  LET staffed == Cardinality(Staffed(s))
  IN IF target < staffed THEN Decrease(s, staffed - target, now)
     ELSE Increase(s, target - staffed)

-----------------------------------------------------------------------------
(* The day *)

Init ==
  /\ day \in Days
  /\ clock = [now |-> 0, segment |-> 0, closed |-> FALSE]
  /\ sim =
       [server |-> <<>>, line |-> <<>>, pending |-> <<>>,
        customer |-> [c \in Customers |->
          [start |-> Never, server |-> 0, departed |-> FALSE, unserved |-> "no"]],
        rest |-> [b \in Breaks |->
          [server |-> 0, start |-> Never, finish |-> Never, outcome |-> "none"]],
        heap |-> {At(t, Capacity, t) : t \in SegmentStarts}
                 \cup {At(day.arrival[c], Arrival, c) : c \in Customers}
                 \cup {At(day.due[b], BreakDue, b) : b \in Breaks}]

Popped(e) == [sim EXCEPT !.heap = @ \ {e}]

Tick(e) == clock' = [clock EXCEPT !.now = e.time]

\* After each event due breaks, then waiting customers, get the free counters.
Settle(handled, e) ==
  \E s \in {handled} : \E t \in {StartDueBreaks(s, e.time)} :
    sim' = Assign(t, e.time) /\ UNCHANGED day

\* The event popped is of this order, and before closing.
Handles(e, order) == e.order = order /\ e.time < Closing /\ ~clock.closed

CompleteService(e) ==
  /\ Handles(e, Completion)
  /\ Settle(Complete(Popped(e), {e.of}), e)
  /\ Tick(e)

\* A break that staffing ended early still has its event: it is ignored.
FinishBreak(e) ==
  LET running == {v \in {sim.rest[e.of].server} : sim.server[v].rest = e.of}
  IN /\ Handles(e, BreakEnd)
     /\ Settle(EndBreaks(Popped(e), running, e.time, "completed"), e)
     /\ Tick(e)

ChangeCapacity(e) ==
  /\ Handles(e, Capacity)
  /\ Settle(ApplyCapacity(Popped(e), day.staff[e.of], e.time), e)
  /\ clock' = [clock EXCEPT !.now = e.time, !.segment = e.of]

BreakIsDue(e) ==
  /\ Handles(e, BreakDue)
  /\ Settle([Popped(e) EXCEPT !.pending = Append(@, e.of)], e)
  /\ Tick(e)

\* mutant: appendleft
ArriveInFront(e) ==
  /\ Handles(e, Arrival)
  /\ Settle([Popped(e) EXCEPT !.line = <<e.of>> \o @], e)
  /\ Tick(e)

Arrive(e) ==
  /\ Handles(e, Arrival)
  /\ Settle([Popped(e) EXCEPT !.line = Append(@, e.of)], e)
  /\ Tick(e)

-----------------------------------------------------------------------------
(* Closing *)

\* Services that end at closing time end first, and nobody is assigned.
LastCompletions ==
  LET ending == {c \in Customers : At(Closing, Completion, c) \in sim.heap}
  IN Complete([sim EXCEPT !.heap = {e \in @ : e.order = Completion /\ e.time > Closing}], ending)

\* Breaks in progress end, and those due are cancelled.
BreaksCut(s) ==
  [EndBreaks(s, With(s, "ON_BREAK"), Closing, "truncated_by_closing") EXCEPT
     !.pending = <<>>,
     !.rest = [b \in Breaks |->
        IF b \in Range(s.pending) THEN [@[b] EXCEPT !.outcome = "cancelled_at_closing"] ELSE @[b]]]

SentAway(s, reason) ==
  [s EXCEPT !.line = <<>>,
            !.customer = [c \in Customers |->
               IF c \in Range(s.line) THEN [@[c] EXCEPT !.unserved = reason] ELSE @[c]]]

\* release_idle
ReleaseIdle(s) ==
  IF s.line # <<>> THEN s
  ELSE [s EXCEPT !.server = [v \in DOMAIN @ |-> IF @[v].state = "IDLE" THEN Closed ELSE @[v]]]

\* mutant: a counter on break counts.
CrewStaffed(s) == Staffed(s)

\* The counters on duty at closing.
Crew(s) == With(s, "IDLE") \cup With(s, "BUSY")

CloseDay ==
  /\ ~clock.closed
  /\ \A e \in sim.heap : e.time >= Closing
  /\ \E last \in {LastCompletions} : \E cut \in {BreaksCut(last)} :
       \E s \in {IF day.policy = "HARD_CUTOFF" THEN SentAway(cut, "hard_cutoff")
                 ELSE IF Crew(last) = {} THEN SentAway(cut, "no_eligible_server")
                 ELSE Assign(cut, Closing)} :
         sim' = ReleaseIdle(s)
  /\ clock' = [clock EXCEPT !.now = Closing, !.closed = TRUE]
  /\ UNCHANGED day

\* mutant: a counter freed after closing takes nobody.
CompleteAfterClosingOnly(e) ==
  /\ clock.closed
  /\ sim' = ReleaseIdle(Complete(Popped(e), {e.of}))
  /\ Tick(e)
  /\ UNCHANGED day

CompleteAfterClosing(e) ==
  /\ clock.closed
  /\ \E done \in {Complete(Popped(e), {e.of})} :
       \E s \in {IF day.policy = "DRAIN" THEN Assign(done, e.time) ELSE done} :
         sim' = ReleaseIdle(s)
  /\ Tick(e)
  /\ UNCHANGED day

Next ==
  \/ CloseDay
  \/ \E e \in First :
       \/ CompleteService(e) \/ FinishBreak(e) \/ ChangeCapacity(e) \/ BreakIsDue(e) \/ Arrive(e)
       \/ CompleteAfterClosing(e)

Spec == Init /\ [][Next]_vars

\* One process runs the loop to its end.
FairSpec == Spec /\ WF_vars(Next)

-----------------------------------------------------------------------------
(* Where everyone is *)

Coming == {c \in Customers : At(day.arrival[c], Arrival, c) \in sim.heap}
Started == {c \in Customers : sim.customer[c].start # Never}
Departed == {c \in Customers : sim.customer[c].departed}
Serving == Started \ Departed
Unserved == {c \in Customers : sim.customer[c].unserved # "no"}

\* The breaks under way.
Resting == {b \in Breaks : sim.rest[b].start # Never /\ sim.rest[b].outcome = "none"}
Due(b) == At(day.due[b], BreakDue, b) \in sim.heap

Increasing(s) == \A i, j \in DOMAIN s : i < j => s[i] < s[j]

\* Every variable has its type, and no event in the heap is in the past.
TypeOK ==
  /\ day \in Days
  /\ clock \in [now : Nat, segment : SegmentStarts, closed : BOOLEAN]
  /\ sim \in Sim
  /\ \A e \in sim.heap : e.time >= clock.now

\* Between events no counter is free while a customer waits or a break is due, before and, under
\* DRAIN, after closing.
NobodyWaitsForAFreeCounter ==
  sim.line # <<>> \/ sim.pending # <<>> => With(sim, "IDLE") = {}

\* Breaks are taken in the order they are due, never early; a completed one lasted its full
\* length, and one cut short by staffing or closing did not; none ends after closing.
BreaksAreTakenInTurn ==
  /\ \A a, b \in Breaks :
       a < b /\ sim.rest[b].start # Never =>
         sim.rest[a].start # Never /\ sim.rest[a].start <= sim.rest[b].start
  /\ \A b \in Breaks :
       LET r == sim.rest[b]
       IN /\ r.start # Never => r.start >= day.due[b]
          /\ r.outcome = "completed" => r.finish = r.start + day.length[b]
          /\ r.outcome \in {"staffing_change", "truncated_by_closing"} =>
               r.finish <= r.start + day.length[b] /\ r.finish <= Closing
          /\ r.outcome = "cancelled_at_closing" => r.start = Never
  /\ clock.closed => \A b \in Breaks : sim.rest[b].outcome # "none"

\* The schedule that is in force at closing.
FinalStaff == day.staff[CHOOSE t \in SegmentStarts : \A u \in SegmentStarts : u <= t]

\* The run ends with every customer departed or unserved, every counter closed and every break
\* given one outcome, whatever it was asked to simulate: its closing assertions hold.
Finished ==
  /\ clock.closed /\ sim.heap = {} /\ sim.line = <<>>
  /\ \A v \in DOMAIN sim.server : sim.server[v].state = "CLOSED"
  /\ Departed \cup Unserved = Customers

TheDayEnds == <>[]Finished

-----------------------------------------------------------------------------
(* The promise of a line *)

Line == INSTANCE ServiceLine WITH
  coming <- Coming, line <- sim.line, serving <- Serving, departed <- Departed,
  unserved <- Unserved, closed <- clock.closed

\* Breaks, staffing changes and the closing keep the promise of ServiceLine.
KeepsThePromise == Line!Spec
=============================================================================
