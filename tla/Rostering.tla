----------------------------- MODULE Rostering -----------------------------
(***************************************************************************)
(* The integer program of the two roster optimisers, and the exact         *)
(* evaluation its answers must pass.  The program is over shift patterns   *)
(* and looks at the day only where some pattern's activity turns; the      *)
(* evaluation is over rosters and looks at every minute.                   *)
(*                                                                         *)
(* A problem p has the registers, the minute from which each employee is   *)
(* available, each employee's pay, and what its caller left out.           *)
(***************************************************************************)
EXTENDS Workforce, Capacity, SequencesExt

CONSTANTS
  BreakGrid,     \* break_start_granularity_minutes
  Opening,       \* the horizon
  Closing

ASSUME RosteringAssumption ==
  /\ BreakGrid \in Nat \ {0}
  /\ Opening \in Nat /\ Closing \in Nat /\ Opening < Closing /\ Closing <= LastMinute

\* The shift lengths with a break rule: the caller may have left out the shortest.
Ruled(p) == IF p.lacking = "break rule" THEN Lengths \ {Min(Lengths)} ELSE Lengths

-----------------------------------------------------------------------------
(* Patterns *)

\* The admissible shifts of enumerate_patterns, before their breaks are placed.
Spans(p, e) ==
  {s \in [start : p.opens[e] .. LastMinute, end : 0 .. LastMinute] :
     s.start % Grid = 0 /\ s.end % Grid = 0 /\ s.end - s.start \in Lengths}

Apart(b, c) == IF b <= c THEN c - (b + BreakLength) >= Gap ELSE b - (c + BreakLength) >= Gap

\* _break_placements: the sets of minutes at which the breaks may start.
Placements(s) ==
  LET minutes == {b \in s.start + Earliest .. Min({s.start + Latest, s.end - BreakLength}) : b % BreakGrid = 0}
  IN {B \in kSubset(Required(s.end - s.start), minutes) : \A b, c \in B : b # c => Apart(b, c)}

Patterns(p, e) ==
  UNION {{[start |-> s.start, end |-> s.end, breaks |-> B] : B \in Placements(s)} :
           s \in {s \in Spans(p, e) : s.end - s.start \in Ruled(p)}}

\* _active; outside Opening .. Closing - 1 too.
Active(q, m) == q.start <= m /\ m < q.end /\ \A b \in q.breaks : m < b \/ m >= b + BreakLength

\* Breaks are unpaid.
Paid(q) == q.end - q.start - BreakLength * Cardinality(q.breaks)

\* The mutant of VerdictsAreTrue: a shift that starts exactly one rest after another is not
\* counted with it (bisect_left).
MaxPaidApart(patterns) ==
  LET shifts == {[start |-> q.start, end |-> q.end, paid |-> Paid(q)] : q \in patterns}
      Rank(s) == Cardinality({r \in shifts : r.end < s.end \/ (r.end = s.end /\ r.start <= s.start)})
      order == [i \in 1 .. Cardinality(shifts) |-> CHOOSE s \in shifts : Rank(s) = i]
      Compatible(s) == Cardinality({r \in shifts : r.end < s.start - RestBetween})
      best[n \in 0 .. MaxShifts, i \in 0 .. Cardinality(shifts)] ==
        IF n = 0 \/ i = 0 THEN 0
        ELSE Max({best[n, i - 1], order[i].paid + best[n - 1, Compatible(order[i])]})
  IN best[MaxShifts, Cardinality(shifts)]

\* max_paid_minutes: the most paid minutes of n shifts among the i that end first.
MaxPaid(patterns) ==
  LET shifts == {[start |-> q.start, end |-> q.end, paid |-> Paid(q)] : q \in patterns}
      Rank(s) == Cardinality({r \in shifts : r.end < s.end \/ (r.end = s.end /\ r.start <= s.start)})
      order == [i \in 1 .. Cardinality(shifts) |-> CHOOSE s \in shifts : Rank(s) = i]
      Compatible(s) == Cardinality({r \in shifts : r.end <= s.start - RestBetween})
      best[n \in 0 .. MaxShifts, i \in 0 .. Cardinality(shifts)] ==
        IF n = 0 \/ i = 0 THEN 0
        ELSE Max({best[n, i - 1], order[i].paid + best[n - 1, Compatible(order[i])]})
  IN best[MaxShifts, Cardinality(shifts)]

-----------------------------------------------------------------------------
(* Pay *)

\* _labor_case; most is max_paid_minutes, 0 of no patterns too.
LaborCase(pay, most) ==
  CASE most = 0 -> "ZERO_PAID"
    [] most > 0 /\ pay.threshold = None -> "THRESHOLD_MISSING"
    [] most > 0 /\ pay.threshold = 0 -> "OVERTIME_ONLY"
    [] most > 0 /\ pay.threshold >= most -> "REGULAR_ONLY"
    [] OTHER -> "SPLIT"

\* The pay values an employee's case needs.
Needed(case) ==
  CASE case = "ZERO_PAID" -> {}
    [] case = "OVERTIME_ONLY" -> {"overtime"}
    [] case = "REGULAR_ONLY" -> {"regular"}
    [] case = "SPLIT" -> {"regular", "overtime"}
    [] case = "THRESHOLD_MISSING" -> {"regular", "overtime", "threshold"}

MissingPay(pay, patterns) == {f \in Needed(LaborCase(pay, MaxPaid(patterns))) : pay[f] = None}

\* The regular and overtime minutes the rows on R, O and w leave for so many paid minutes.
Splits(pay, most, paid) ==
  {rot \in (0 .. pay.threshold) \X (0 .. most - pay.threshold) :
     /\ rot[1] + rot[2] = paid
     /\ \E w \in {0, 1} : rot[1] >= pay.threshold * w /\ rot[2] <= (most - pay.threshold) * w}

\* The terms of the objective, and the minutes of the split columns where there are some.
Labor(pay, most, paid) ==
  LET case == LaborCase(pay, most)
  IN CASE case = "ZERO_PAID" -> {[cost |-> 0, split |-> <<>>]}
       [] case = "OVERTIME_ONLY" -> {[cost |-> pay.overtime * paid, split |-> <<>>]}
       [] case = "REGULAR_ONLY" -> {[cost |-> pay.regular * paid, split |-> <<>>]}
       [] case = "SPLIT" -> {[cost |-> pay.regular * rot[1] + pay.overtime * rot[2], split |-> rot] :
                               rot \in Splits(pay, most, paid)}

-----------------------------------------------------------------------------
(* The rows of the program *)

\* The minutes at which a pattern's activity turns.
Turns(q) == {q.start, q.end} \cup UNION {{b, b + BreakLength} : b \in q.breaks}

\* _interval_cover: the ends of the elementary intervals.
Points(p, starts) ==
  {Opening, Closing} \cup starts \cup UNION {UNION {Turns(q) : q \in Patterns(p, e)} : e \in Employees}

IntervalEnd(points, m) == Min({n \in points : n > m})

Inside(m) == Opening <= m /\ m < Closing

\* At most max_shifts, and one at every start of a pattern counting the rest after a shift.
ShiftRows(patterns, selected) ==
  /\ Cardinality(selected) <= MaxShifts
  /\ MaxShifts > 1 =>
       \A q \in patterns :
         Cardinality({r \in selected : r.start <= q.start /\ q.start < r.end + RestBetween}) <= 1

\* What the program may choose for one employee: patterns, and the labor columns that go with them.
Selections(pay, patterns) ==
  LET most == MaxPaid(patterns)
  IN UNION {{[patterns |-> S, labor |-> l] : l \in Labor(pay, most, MapThenSumSet(Paid, S))} :
           S \in {S \in UNION {kSubset(n, patterns) : n \in 0 .. MaxShifts} : ShiftRows(patterns, S)}}

Count(x, m) == Cardinality({e \in Employees : \E q \in x[e].patterns : Active(q, m)})

\* _build_model: the columns of each employee, and the on-duty counts that the coverage, register
\* and capacity rows leave at the start of each interval.
Program(p, starts, Allowed(_)) ==
  LET points == Points(p, starts)
  IN [points |-> points,
      choices |-> [e \in Employees |-> Selections(p.pay[e], Patterns(p, e))],
      allowed |-> [m \in points \ {Max(points)} |-> Allowed(m)]]

\* The vectors that meet every row.
Solutions(program) ==
  {x \in {x \in [Employees -> UNION Range(program.choices)] : \A e \in Employees : x[e] \in program.choices[e]} :
     \A m \in DOMAIN program.allowed : Count(x, m) \in program.allowed[m]}

\* _certificates: how many different employees could be at work in an interval.
Possible(p, m) == Cardinality({e \in Employees : \E q \in Patterns(p, e) : Active(q, m)})

-----------------------------------------------------------------------------
(* The exact evaluation *)

\* as_shift, in the order of starts.
RosterOf(x) ==
  [e \in Employees |->
     SetToSortSeq({[start |-> q.start, end |-> q.end, breaks |-> SetToSortSeq(q.breaks, <)] : q \in x[e].patterns},
                  LAMBDA a, b : a.start < b.start)]

\* evaluate_roster finds no violation.
Legal(p, r) ==
  /\ \A e \in Employees :
       /\ LegalPlan(r[e])
       /\ \A i \in DOMAIN r[e] : r[e][i].start >= p.opens[e] /\ r[e][i].end - r[e][i].start \in Ruled(p)
  /\ \A m \in 0 .. LastMinute : OnDuty(r, m) <= p.registers

PaidMinutes(plan) ==
  MapThenSumSet(LAMBDA i : plan[i].end - plan[i].start - BreakLength * Len(plan[i].breaks), DOMAIN plan)

Regular(pay, paid) == IF pay.threshold = None THEN None ELSE Min({paid, pay.threshold})

\* _labor_rows: None when a minute has no price.
Wages(pay, plan) ==
  LET paid == PaidMinutes(plan)
      regular == Regular(pay, paid)
  IN CASE paid = 0 -> 0
       [] paid > 0 /\ regular = None -> None
       [] paid > 0 /\ regular > 0 /\ pay.regular = None -> None
       [] paid > 0 /\ regular # None /\ paid > regular /\ pay.overtime = None -> None
       [] OTHER -> (IF regular > 0 THEN pay.regular * regular ELSE 0)
                     + (IF paid > regular THEN pay.overtime * (paid - regular) ELSE 0)

OnBreakGrid(r) ==
  \A e \in Employees : \A i \in DOMAIN r[e] : \A j \in DOMAIN r[e][i].breaks : r[e][i].breaks[j] % BreakGrid = 0
=============================================================================
