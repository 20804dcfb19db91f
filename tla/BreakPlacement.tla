--------------------------- MODULE BreakPlacement ---------------------------
(***************************************************************************)
(* place_breaks: the configured breaks of separate cashiers are moved to   *)
(* start times that lower the day's busiest slot.  A pass places every     *)
(* break anew, longest first, each at the best start its anchor allows;    *)
(* passes repeat while the peak falls.  A break keeps its cashier and its  *)
(* length.  Time is counted in units of which a slot has SlotLength.       *)
(***************************************************************************)
EXTENDS Integers, Sequences, FiniteSets, FiniteSetsExt

CONSTANTS
  Cashiers,       \* queue_ids, numbered in the configured order
  Segments,       \* the start times of the operating segments
  SegmentLength,
  SlotLength,     \* SLOT_MINUTES, also the step of a move
  Edge,           \* EDGE_MINUTES
  Scale           \* a common multiple of every number of working units of a slot

PlacementConstants ==
  /\ Cashiers \subseteq Nat \ {0} /\ IsFiniteSet(Cashiers) /\ Cashiers # {}
  /\ Segments \subseteq Nat /\ IsFiniteSet(Segments) /\ Segments # {}
  /\ SlotLength \in Nat \ {0} /\ SegmentLength \in Nat \ {0} /\ SegmentLength % SlotLength = 0
  /\ Edge \in Nat /\ Scale \in Nat
  /\ \A n \in 1 .. SlotLength * Cardinality(Cashiers) : Scale % n = 0

ASSUME PlacementAssumption == PlacementConstants

\* No original_start_time.
NoTime == -1

\* A cashier's shift: one continuous run of segments.
IsOneShift(worked) ==
  \A low, high \in worked : \A s \in Segments : low <= s /\ s <= high => s \in worked

ShiftOf(staffing, c) ==
  LET worked == {s \in Segments : c \in staffing[s]} IN [low |-> Min(worked), high |-> Max(worked) + SegmentLength]

Slots == {s + k * SlotLength : s \in Segments, k \in 0 .. SegmentLength \div SlotLength - 1}

SegmentOf(slot) == Max({s \in Segments : s <= slot})

\* Beyond every utilization: demand that meets nobody working.
Infinite == 1000000

\* slot_rho: for how long the slot loses those on shift to their breaks, unit by unit.
Away(day, at, slot, onShift) ==
  Cardinality({lost \in (DOMAIN at) \X (slot .. slot + SlotLength - 1) :
                 LET b == day.breaks[lost[1]]
                 IN b.cashier \in onShift /\ at[lost[1]] <= lost[2] /\ lost[2] < at[lost[1]] + b.duration})

\* slot_rho of one slot, as a multiple of 1 / Scale; load is lambda / mu per unit of time.
SlotRho(day, at, slot) ==
  LET load == day.load[SegmentOf(slot)]
      onShift == {c \in Cashiers : ShiftOf(day.staffing, c).low <= slot /\ slot + SlotLength <= ShiftOf(day.staffing, c).high}
      working == Cardinality(onShift) * SlotLength - Away(day, at, slot, onShift)
  IN CASE load = 0 -> 0
       [] load > 0 /\ working <= 0 -> Infinite
       [] OTHER -> (load * Scale) \div working

\* The day's peak with the breaks of DOMAIN at placed.
Peak(day, at) == Max({SlotRho(day, at, slot) : slot \in Slots})

BreakStarts(day) == [i \in DOMAIN day.breaks |-> day.breaks[i].start]

\* The mutant of BreaksSettleWithinTheRules: the window follows the break.
AnchorAtStart(b) == b.start

\* _parse_breaks: the centre of a break's window.
Anchor(b) == IF b.original = NoTime THEN b.start ELSE b.original

Lexicographic(p, q) ==
  \E k \in DOMAIN p : p[k] < q[k] /\ \A j \in 1 .. k - 1 : p[j] = q[j]

\* The order in which a pass places the breaks: longest first, then by cashier, start and place in the list.
PlacingOrder(day, from) ==
  LET key(i) == <<0 - day.breaks[i].duration, day.breaks[i].cashier, from[i], i>>
      ahead(i) == {j \in DOMAIN day.breaks : Lexicographic(key(j), key(i))}
  IN [n \in DOMAIN day.breaks |-> CHOOSE i \in DOMAIN day.breaks : Cardinality(ahead(i)) = n - 1]

\* The starts that keep break i within its shift, away from the edges, and in order with its cashier's others.
Allowed(day, from, placed, move, i) ==
  LET b == day.breaks[i]
      shift == ShiftOf(day.staffing, b.cashier)
      others == {j \in DOMAIN placed : day.breaks[j].cashier = b.cashier}
      precedes(j) == from[j] < from[i] \/ (from[j] = from[i] /\ j < i)
  IN {s \in {Anchor(b) + k * SlotLength : k \in -(move \div SlotLength) .. move \div SlotLength} :
        /\ shift.low + Edge <= s /\ s + b.duration <= shift.high - Edge
        /\ \A j \in others : IF precedes(j) THEN placed[j] + day.breaks[j].duration <= s
                                            ELSE s + b.duration <= placed[j]}

\* A break that is not placed yet is placed at s.
With(placed, i, s) == [j \in (DOMAIN placed) \cup {i} |-> IF j \in DOMAIN placed THEN placed[j] ELSE s]

\* _better: the lowest peak, then the smallest move, then the earlier start.
Best(day, from, placed, i, starts) ==
  LET distance(s) == IF s < from[i] THEN from[i] - s ELSE s - from[i]
      score(s) == <<Peak(day, With(placed, i, s)), distance(s), s>>
  IN CHOOSE s \in starts : \A t \in starts \ {s} : Lexicographic(score(s), score(t))

\* The best of the starts of break i; a break without an allowed start is left out.
Place(day, from, move, placed, i) ==
  LET starts == Allowed(day, from, placed, move, i)
  IN IF starts = {} THEN placed ELSE With(placed, i, Best(day, from, placed, i, starts))

\* _placement_pass; with a break left out, the pass is no schedule.
Pass(day, from, move) ==
  LET order == PlacingOrder(day, from)
      placed[n \in 0 .. Len(day.breaks)] ==
        IF n = 0 THEN <<>> ELSE Place(day, from, move, placed[n - 1], order[n])
  IN placed[Len(day.breaks)]
=============================================================================
