----------------------------- MODULE Workforce -----------------------------
(***************************************************************************)
(* The rosters that evaluate_roster accepts: who is planned to be at work  *)
(* when, and on break when.  A minute is a natural number.                 *)
(***************************************************************************)
EXTENDS Integers, Sequences, FiniteSets

CONSTANTS
  Employees,    \* employee ids, ordered as numbers
  Registers,    \* the values of register_count
  LastMinute,   \* latest_end_minute of the shift rules, from minute 0 on
  Lengths,      \* the lengths of shift the rules permit
  Grid,         \* boundary_granularity_minutes
  MaxShifts,    \* max_shifts_per_employee
  RestBetween,  \* min_minutes_between_shifts
  Marks,        \* a shift has one break for each of these lengths it reaches
  BreakLength,  \* duration_minutes of a break
  Earliest,     \* earliest_start_offset_minutes
  Latest,       \* latest_start_offset_minutes
  Gap           \* min_gap_minutes between two breaks

ASSUME WorkforceAssumption ==
  /\ Employees \subseteq Nat \ {0} /\ IsFiniteSet(Employees)
  /\ Registers \subseteq Nat /\ LastMinute \in Nat /\ MaxShifts \in Nat /\ RestBetween \in Nat
  /\ Grid \in Nat \ {0} /\ BreakLength \in Nat \ {0}
  /\ Lengths \subseteq Nat \ {0} /\ Marks \subseteq Nat
  /\ Earliest \in Nat /\ Latest \in Nat /\ Gap \in Nat

\* The break rule of a shift this long requires so many breaks.
Required(length) == Cardinality({m \in Marks : m <= length})

\* _check_shift: breaks are given by their planned starts, in order.
LegalShift(s) ==
  /\ s.end <= LastMinute
  /\ s.end - s.start \in Lengths
  /\ s.start % Grid = 0 /\ s.end % Grid = 0
  /\ Len(s.breaks) = Required(s.end - s.start)
  /\ \A i \in DOMAIN s.breaks :
       /\ s.breaks[i] - s.start \in Earliest .. Latest
       /\ s.breaks[i] + BreakLength <= s.end
       /\ i > 1 => s.breaks[i] >= s.breaks[i - 1] + BreakLength + Gap

Shifts ==
  {s \in [start : 0 .. LastMinute, end : 0 .. LastMinute,
          breaks : UNION {[1 .. n -> 0 .. LastMinute] : n \in 0 .. Cardinality(Marks)}] : LegalShift(s)}

\* evaluate_roster, for the shifts of one employee in order of their starts.
LegalPlan(p) ==
  /\ Len(p) <= MaxShifts
  /\ \A i \in DOMAIN p : LegalShift(p[i]) /\ (i > 1 => p[i].start >= p[i - 1].end + RestBetween)

Plans == {p \in UNION {[1 .. n -> Shifts] : n \in 0 .. MaxShifts} : LegalPlan(p)}

\* On shift and not on a break.
ActiveAt(p, minute) ==
  \E i \in DOMAIN p :
    /\ p[i].start <= minute /\ minute < p[i].end
    /\ \A j \in DOMAIN p[i].breaks :
         minute < p[i].breaks[j] \/ minute >= p[i].breaks[j] + BreakLength

OnDuty(r, minute) == Cardinality({e \in Employees : ActiveAt(r[e], minute)})

\* evaluate_roster: no more employees are planned to serve at once than the k registers.
Rosters(k) == {r \in [Employees -> Plans] : \A minute \in 0 .. LastMinute : OnDuty(r, minute) <= k}
=============================================================================
