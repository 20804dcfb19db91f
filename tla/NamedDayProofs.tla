--------------------------- MODULE NamedDayProofs ---------------------------
(***************************************************************************)
(* Theorems about the named day.  The invariant of one employee is stated  *)
(* of his plan p, of x, the employee, of t, an instant, and of ends, the   *)
(* times at which a customer of his left; every stage of an instant has a  *)
(* lemma that keeps it.                                                    *)
(***************************************************************************)
EXTENDS NamedDay, TLAPS, FiniteSetTheorems, SequenceTheorems, WellFoundedInduction

-----------------------------------------------------------------------------
(* The invariant of one employee *)

\* A break that goes on.
Underway(row) == row.start # None /\ row.finish = None

\* What the rules of evaluate_roster leave of a plan.
PlanOK(p) ==
  /\ Len(p) \in Nat /\ DOMAIN p = 1 .. Len(p)
  /\ \A k \in 1 .. Len(p) :
       /\ p[k].start \in Nat /\ p[k].end \in Nat /\ p[k].start < p[k].end
       /\ \E m \in Nat : DOMAIN p[k].breaks = 1 .. m
       /\ \A i \in DOMAIN p[k].breaks : p[k].breaks[i] \in Nat /\ p[k].start <= p[k].breaks[i]

\* A break's times follow each other, none of them after t.
RowOK(row, t) ==
  /\ row \in BreakRow
  /\ row.due # None => row.due <= t
  /\ row.start # None => row.due # None /\ row.due <= row.start /\ row.start <= t
  /\ row.finish # None => row.start # None /\ row.start <= row.finish /\ row.finish <= t
  /\ row.outcome \in {"completed", "truncated_by_closing"} <=> row.finish # None
  /\ row.outcome = "unfulfilled" => row.start = None

\* The breaks of a shift are taken one after the other.
RowsOK(rows, t) ==
  /\ \A i \in DOMAIN rows : RowOK(rows[i], t)
  /\ \A i, j \in DOMAIN rows : i < j /\ rows[j].due # None => rows[i].finish # None

\* When break i of a shift that started at d is due.
DueRule(d, plan, rows, i) ==
  IF i = 1 THEN d + plan.breaks[i] - plan.start
  ELSE Larger(d + plan.breaks[i] - plan.start, rows[i - 1].finish + Gap)

DueAt(d, plan, rows, i, t) == t = DueRule(d, plan, rows, i)

\* BreaksKeepTheirRules for one break.
BreakRule(d, plan, rows, i, ends) ==
  LET row == rows[i]
  IN /\ row.due # None => row.due = DueRule(d, plan, rows, i)
     /\ row.start # None =>
          /\ row.start < Closing
          /\ row.start = row.due \/ (row.start > row.due /\ row.start \in ends)
          /\ row.outcome = "completed" => row.finish = row.start + BreakLength
          /\ row.outcome = "truncated_by_closing" => row.finish = Closing /\ Closing <= row.start + BreakLength

\* The breaks of every shift: those of shifts to come are untouched, those of shifts that are over are settled.
RestsOK(p, duty, rests, shift, next, t, ends) ==
  /\ rests \in Seq(Seq(BreakRow)) /\ DOMAIN rests = 1 .. Len(p)
  /\ \A k \in 1 .. Len(p) :
       /\ DOMAIN rests[k] = DOMAIN p[k].breaks
       /\ RowsOK(rests[k], t)
       /\ \A i \in DOMAIN rests[k] :
            /\ BreakRule(duty[k].start, p[k], rests[k], i, ends)
            /\ k >= next => rests[k][i].due = None
            /\ k < next /\ k # shift => ~Unstarted(rests[k][i]) /\ ~Underway(rests[k][i])

\* When shift k may start, after the shifts before it.
StartRule(p, duty, k) ==
  duty[k].start # None =>
    /\ duty[k].start < p[k].end /\ duty[k].start < Closing
    /\ \/ duty[k].start = p[k].start
       \/ \E j \in 1 .. k - 1 : duty[j].start # None /\ duty[k].start = duty[j].release + RestBetween
    /\ \A j \in 1 .. k - 1 : duty[j].start # None =>
         duty[j].release # None /\ duty[k].start >= duty[j].release + RestBetween

\* When shift k may end.
ReleaseRule(p, duty, rests, k, ends) ==
  duty[k].release # None =>
    \/ duty[k].release = p[k].end
    \/ duty[k].release >= Closing
    \/ duty[k].release > p[k].end /\
         (duty[k].release \in ends \/ \E i \in DOMAIN rests[k] : rests[k][i].finish = duty[k].release)

\* Shifts are worked one after the other; last is when the latest one ended.
DutyOK(p, duty, shift, next, last, t) ==
  /\ duty \in Seq([start : Time, release : Time]) /\ DOMAIN duty = 1 .. Len(p)
  /\ shift \in 0 .. Len(p) /\ next \in 1 .. Len(p) + 1 /\ (shift # 0 => next = shift + 1)
  /\ last \in Time /\ last <= t
  /\ last # None => \E k \in 1 .. Len(p) : duty[k].release = last
  /\ \A k \in 1 .. Len(p) :
       /\ duty[k].start <= t
       /\ duty[k].release # None =>
            duty[k].start # None /\ last # None /\ duty[k].start <= duty[k].release /\ duty[k].release <= last
       /\ k >= next => duty[k].start = None
       /\ k < next /\ k # shift => (duty[k].start # None => duty[k].release # None)
       /\ k = shift => duty[k].start # None /\ duty[k].release = None
       /\ StartRule(p, duty, k)

\* Somebody off is on no shift; only a break or a service goes on when the shift is to end.
StateOK(p, x, t) ==
  /\ x.state = "OFF" <=> x.shift = 0
  /\ x.shift = 0 => x.basis = "none"
  /\ \A k \in 1 .. Len(p) : \A i \in DOMAIN x.rests[k] :
       Underway(x.rests[k][i]) => k = x.shift /\ x.state = "ON_BREAK"
  /\ x.state = "ON_BREAK" => \E i \in DOMAIN x.rests[x.shift] : Underway(x.rests[x.shift][i])
  /\ x.state = "SERVING_BREAK_DUE" =>
       x.basis = "none" /\ \E i \in DOMAIN x.rests[x.shift] : Unstarted(x.rests[x.shift][i]) /\ x.rests[x.shift][i].due # None
  /\ x.state = "SERVING_SHIFT_ENDED" => x.basis # "none"
  /\ x.basis # "none" => x.state \in {"SERVING_SHIFT_ENDED", "ON_BREAK"}
  /\ x.basis = "scheduled_shift_end" => x.reached
  /\ x.basis = "release_input" => t >= Closing
  /\ x.shift # 0 /\ x.reached => p[x.shift].end <= t

\* The history of an employee, and the whole of what holds of him after every stage.
Past(p, x, t, ends) ==
  /\ RestsOK(p, x.duty, x.rests, x.shift, x.next, t, ends)
  /\ DutyOK(p, x.duty, x.shift, x.next, x.last, t)
  /\ \A k \in 1 .. Len(p) : ReleaseRule(p, x.duty, x.rests, k, ends)

Sound(p, x, t, ends) == x \in Employee /\ Past(p, x, t, ends) /\ StateOK(p, x, t)

\* A break that is due is taken as soon as the service permits.
Settled(x) ==
  x.shift # 0 =>
    \A i \in DOMAIN x.rests[x.shift] :
      Unstarted(x.rests[x.shift][i]) /\ x.rests[x.shift][i].due # None => x.state = "SERVING_BREAK_DUE" \/ x.basis # "none"

\* What is scheduled for the employee is not before u.
EndFrom(p, x, u) == x.shift # 0 /\ ~x.reached => u <= p[x.shift].end

BreakFrom(x, u) ==
  x.shift # 0 => \A i \in DOMAIN x.rests[x.shift] : Underway(x.rests[x.shift][i]) => u <= x.rests[x.shift][i].start + BreakLength

DueFrom(p, x, u) == \A v \in DueTimes(p, x) : u <= v

ActivationFrom(p, x, u) ==
  x.shift = 0 /\ ~x.gone /\ x.next <= Len(p) =>
    u <= Activation(p, x.next, x.last) /\ Activation(p, x.next, x.last) < p[x.next].end

-----------------------------------------------------------------------------
(* Numbers and plans *)

\* A non-empty set of natural numbers has a least member, and Least is it.
LEMMA LeastIs ==
  ASSUME NEW S, S \subseteq Nat, S # {}
  PROVE  Least(S) \in S /\ \A y \in S : Least(S) <= y
<1> DEFINE Less == {ss \in Nat \X Nat : ss[1] < ss[2]}
<1>1. IsWellFoundedOn(Less, Nat)
  BY NatLessThanWellFounded DEF OpToRel
<1> HIDE DEF Less
<1>2. PICK m \in S : \A k \in S : ~ (<<k, m>> \in Less)
  BY <1>1, WFMin
<1>3. \A k \in S : ~ (k < m)
  BY <1>2 DEF Less
<1>4. \E k \in S : \A y \in S : k <= y
  BY <1>3
<1> QED
  BY <1>4 DEF Least

\* An accepted plan has shifts of positive length, with breaks after their start.
LEMMA PlansAreOK ==
  ASSUME NEW p \in Plans
  PROVE  PlanOK(p)
<1>1. PICK n \in Nat : p \in [1 .. n -> Shifts]
  BY WorkforceAssumption DEF Plans
<1>2. Len(p) = n /\ DOMAIN p = 1 .. n /\ \A k \in 1 .. n : p[k] \in Shifts
  BY <1>1
<1>3. ASSUME NEW s \in Shifts
      PROVE  /\ s.start \in Nat /\ s.end \in Nat /\ s.start < s.end
             /\ \E m \in Nat : DOMAIN s.breaks = 1 .. m
             /\ \A i \in DOMAIN s.breaks : s.breaks[i] \in Nat /\ s.start <= s.breaks[i]
  <2>1. /\ s \in [start : 0 .. LastMinute, end : 0 .. LastMinute,
                  breaks : UNION {[1 .. m -> 0 .. LastMinute] : m \in 0 .. Cardinality(Marks)}]
        /\ LegalShift(s)
    BY DEF Shifts
  <2>2. s.start \in Nat /\ s.end \in Nat
    BY <2>1, WorkforceAssumption
  <2>3. s.end - s.start \in Nat \ {0}
    BY <2>1, WorkforceAssumption DEF LegalShift
  <2>4. PICK m \in 0 .. Cardinality(Marks) : s.breaks \in [1 .. m -> 0 .. LastMinute]
    BY <2>1
  <2>5. ASSUME NEW i \in DOMAIN s.breaks PROVE s.breaks[i] \in Nat /\ s.start <= s.breaks[i]
    <3>1. s.breaks[i] \in Nat
      BY <2>4, WorkforceAssumption
    <3>2. s.breaks[i] - s.start \in Earliest .. Latest
      BY <2>1 DEF LegalShift
    <3> QED
      BY <2>2, <3>1, <3>2, WorkforceAssumption
  <2>6. \E k \in Nat : DOMAIN s.breaks = 1 .. k
    BY <2>4
  <2> QED
    BY <2>2, <2>3, <2>5, <2>6
<1> QED
  BY <1>2, <1>3 DEF PlanOK

-----------------------------------------------------------------------------
(* One row of the breaks changes *)

RowPut(rests, k, i, row, other) == other = [rests EXCEPT ![k] = [@ EXCEPT ![i] = row]]

\* Only that row changes.
LEMMA RowPutIs ==
  ASSUME NEW rests \in Seq(Seq(BreakRow)), NEW k \in DOMAIN rests, NEW i \in DOMAIN rests[k], NEW row \in BreakRow,
         NEW other, RowPut(rests, k, i, row, other)
  PROVE  /\ other \in Seq(Seq(BreakRow)) /\ DOMAIN other = DOMAIN rests
         /\ \A l \in DOMAIN rests : l # k => other[l] = rests[l]
         /\ DOMAIN other[k] = DOMAIN rests[k] /\ other[k][i] = row
         /\ \A j \in DOMAIN rests[k] : j # i => other[k][j] = rests[k][j]
<1>1. PICK rows : rows = [rests[k] EXCEPT ![i] = row]
  OBVIOUS
<1>2. other = [rests EXCEPT ![k] = rows]
  BY <1>1 DEF RowPut
<1>3. rests[k] \in Seq(BreakRow)
  BY ElementOfSeq
<1>4. /\ rows \in Seq(BreakRow) /\ DOMAIN rows = DOMAIN rests[k] /\ rows[i] = row
      /\ \A j \in DOMAIN rests[k] : j # i => rows[j] = rests[k][j]
  BY <1>1, <1>3
<1>5. other \in Seq(Seq(BreakRow)) /\ DOMAIN other = DOMAIN rests /\ other[k] = rows
  BY <1>2, <1>4
<1>6. \A l \in DOMAIN rests : l # k => other[l] = rests[l]
  BY <1>2
<1> QED
  BY <1>4, <1>5, <1>6

\* The breaks stay in order when one of the shift's goes on: it is due only after those before it, its end
\* is not taken back, and its own rule holds.
LEMMA RowChanges ==
  ASSUME NEW p, PlanOK(p), NEW duty, NEW rests, NEW shift \in 1 .. Len(p), NEW next \in Int, shift < next, NEW t \in Int,
         NEW ends, RestsOK(p, duty, rests, shift, next, t, ends),
         NEW i \in DOMAIN rests[shift], NEW row, RowOK(row, t), NEW other, RowPut(rests, shift, i, row, other),
         row.due # None => \A j \in DOMAIN rests[shift] : j < i => rests[shift][j].finish # None,
         rests[shift][i].finish # None => row.finish = rests[shift][i].finish,
         BreakRule(duty[shift].start, p[shift], other[shift], i, ends)
  PROVE  RestsOK(p, duty, other, shift, next, t, ends)
<1>0. Len(p) \in Nat /\ shift \in Nat
  BY DEF PlanOK
<1>1. rests \in Seq(Seq(BreakRow)) /\ DOMAIN rests = 1 .. Len(p) /\ row \in BreakRow
  BY DEF RestsOK, RowOK
<1>2. /\ other \in Seq(Seq(BreakRow)) /\ DOMAIN other = 1 .. Len(p)
      /\ \A l \in 1 .. Len(p) : l # shift => other[l] = rests[l]
      /\ DOMAIN other[shift] = DOMAIN rests[shift] /\ other[shift][i] = row
      /\ \A j \in DOMAIN rests[shift] : j # i => other[shift][j] = rests[shift][j]
  BY <1>1, RowPutIs
<1>3. PICK m \in Nat : DOMAIN rests[shift] = 1 .. m
  BY DEF PlanOK, RestsOK
<1>4. /\ \A j \in 1 .. m : RowOK(rests[shift][j], t)
      /\ \A j, l \in 1 .. m : j < l /\ rests[shift][l].due # None => rests[shift][j].finish # None
  BY <1>3 DEF RestsOK, RowsOK
<1>5. RowsOK(other[shift], t)
  <2>1. \A j \in 1 .. m : RowOK(other[shift][j], t)
    BY <1>2, <1>3, <1>4
  <2>2. ASSUME NEW j \in 1 .. m, NEW l \in 1 .. m, j < l, other[shift][l].due # None
        PROVE  other[shift][j].finish # None
    <3>1. CASE l = i
      BY <1>2, <1>3, <2>2, <3>1
    <3>2. CASE l # i /\ j = i
      <4>1. rests[shift][l].due # None
        BY <1>2, <1>3, <2>2, <3>2
      <4>2. rests[shift][i].finish # None
        BY <1>4, <2>2, <3>2, <4>1
      <4> QED
        BY <1>2, <3>2, <4>2
    <3>3. CASE l # i /\ j # i
      BY <1>2, <1>3, <1>4, <2>2, <3>3
    <3> QED
      BY <3>1, <3>2, <3>3
  <2> QED
    BY <1>2, <1>3, <2>1, <2>2 DEF RowsOK
<1>6. ASSUME NEW j \in DOMAIN rests[shift]
      PROVE  BreakRule(duty[shift].start, p[shift], other[shift], j, ends)
  <2>1. CASE j = i
    BY <2>1
  <2>2. CASE j # i
    <3>1. other[shift][j] = rests[shift][j]
      BY <1>2, <2>2
    <3>2. BreakRule(duty[shift].start, p[shift], rests[shift], j, ends)
      BY DEF RestsOK
    <3>3. CASE rests[shift][j].due = None
      <4>1. RowOK(rests[shift][j], t)
        BY <1>3, <1>4
      <4>2. rests[shift][j].start = None
        BY <3>3, <4>1 DEF RowOK
      <4> QED
        BY <3>1, <3>3, <4>2 DEF BreakRule
    <3>4. CASE rests[shift][j].due # None
      <4>1. DueRule(duty[shift].start, p[shift], other[shift], j) = DueRule(duty[shift].start, p[shift], rests[shift], j)
        <5>1. CASE j = 1
          BY <5>1 DEF DueRule
        <5>2. CASE j # 1
          <6>1. j - 1 \in 1 .. m /\ j - 1 < j /\ j \in 1 .. m
            BY <1>3, <5>2
          <6>2. rests[shift][j - 1].finish # None
            BY <1>4, <3>4, <6>1
          <6>3. other[shift][j - 1].finish = rests[shift][j - 1].finish
            BY <1>2, <1>3, <6>1, <6>2
          <6> QED
            BY <5>2, <6>3 DEF DueRule
        <5> QED
          BY <5>1, <5>2
      <4> QED
        BY <3>1, <3>2, <4>1 DEF BreakRule
    <3> QED
      BY <3>3, <3>4
  <2> QED
    BY <2>1, <2>2
<1>7. ASSUME NEW k \in 1 .. Len(p)
      PROVE  /\ DOMAIN other[k] = DOMAIN p[k].breaks
             /\ RowsOK(other[k], t)
             /\ \A j \in DOMAIN other[k] :
                  /\ BreakRule(duty[k].start, p[k], other[k], j, ends)
                  /\ k >= next => other[k][j].due = None
                  /\ k < next /\ k # shift => ~Unstarted(other[k][j]) /\ ~Underway(other[k][j])
  <2>1. CASE k = shift
    BY <1>0, <1>2, <1>5, <1>6, <2>1 DEF RestsOK
  <2>2. CASE k # shift
    BY <1>2, <2>2 DEF RestsOK
  <2> QED
    BY <2>1, <2>2
<1> QED
  BY <1>2, <1>7 DEF RestsOK

Row(due, start, finish, outcome) == [due |-> due, start |-> start, finish |-> finish, outcome |-> outcome]

\* Row i of rows is this one, and due when it was among the old ones.
NowIs(rows, i, row, old) == rows[i] = row /\ \A d, plan : DueRule(d, plan, rows, i) = DueRule(d, plan, old, i)

\* When a break is due depends on the breaks before it.
LEMMA DueStays ==
  ASSUME NEW rests \in Seq(Seq(BreakRow)), NEW k \in DOMAIN rests, NEW i \in DOMAIN rests[k],
         NEW row \in BreakRow, NEW other, RowPut(rests, k, i, row, other)
  PROVE  NowIs(other[k], i, row, rests[k])
<1>1. /\ other[k][i] = row
      /\ \A j \in DOMAIN rests[k] : j # i => other[k][j] = rests[k][j]
  BY RowPutIs
<1>2. PICK m \in Nat : DOMAIN rests[k] = 1 .. m
  BY ElementOfSeq, LenProperties
<1>3. CASE i = 1
  BY <1>1, <1>3 DEF DueRule, NowIs
<1>4. CASE i # 1
  <2>1. i - 1 \in 1 .. m /\ i - 1 # i
    BY <1>2, <1>4
  <2>2. other[k][i - 1] = rests[k][i - 1]
    BY <1>1, <1>2, <2>1
  <2> QED
    BY <1>1, <1>4, <2>2 DEF DueRule, NowIs
<1> QED
  BY <1>3, <1>4

\* A break that is due begins.
LEMMA BreakTaken ==
  ASSUME NEW p, PlanOK(p), NEW duty, NEW rests, NEW shift \in 1 .. Len(p), NEW next \in Int, shift < next,
         NEW t \in Nat, t < Closing, NEW ends, RestsOK(p, duty, rests, shift, next, t, ends),
         NEW i \in DOMAIN rests[shift], \A j \in DOMAIN rests[shift] : j < i => rests[shift][j].finish # None,
         Unstarted(rests[shift][i]),
         NEW d \in Nat, d = t \/ (d < t /\ t \in ends), DueAt(duty[shift].start, p[shift], rests[shift], i, d),
         NEW other, RowPut(rests, shift, i, Row(d, t, None, "none"), other)
  PROVE  RestsOK(p, duty, other, shift, next, t, ends)
<1>1. PICK row : row = Row(d, t, None, "none")
  OBVIOUS
<1>2. row.due = d /\ row.start = t /\ row.finish = None /\ row.outcome = "none" /\ row \in BreakRow /\ t # None /\ d # None
  BY <1>1 DEF Row, BreakRow, Time, None
<1>8. RowPut(rests, shift, i, row, other) /\ t \in Int
  BY <1>1
<1>3. RowOK(row, t)
  BY <1>2 DEF RowOK
<1>4. /\ rests \in Seq(Seq(BreakRow)) /\ shift \in DOMAIN rests /\ DOMAIN rests[shift] = DOMAIN p[shift].breaks
      /\ RowOK(rests[shift][i], t)
  BY DEF RestsOK, RowsOK
<1>5. rests[shift][i].finish = None
  BY <1>4 DEF Unstarted, RowOK
<1>6. DueRule(duty[shift].start, p[shift], other[shift], i) = d /\ other[shift][i] = row
  <2>2. row \in BreakRow /\ rests \in Seq(Seq(BreakRow)) /\ shift \in DOMAIN rests
    BY <1>2, <1>4
  <2>1. NowIs(other[shift], i, row, rests[shift])
    BY <2>2, <1>8, DueStays
  <2> QED
    BY <2>1 DEF NowIs, DueAt
<1>7. BreakRule(duty[shift].start, p[shift], other[shift], i, ends)
  BY <1>2, <1>6 DEF BreakRule
<1>9. row.due # None => \A j \in DOMAIN rests[shift] : j < i => rests[shift][j].finish # None
  BY <1>5
<1>10. rests[shift][i].finish # None => row.finish = rests[shift][i].finish
  BY <1>5
<1> QED
  BY <1>3, <1>7, <1>8, <1>9, <1>10, RowChanges

\* A break falls due while a customer is served.
LEMMA BreakFallsDue ==
  ASSUME NEW p, PlanOK(p), NEW duty, NEW rests, NEW shift \in 1 .. Len(p), NEW next \in Int, shift < next,
         NEW t \in Nat, NEW ends, RestsOK(p, duty, rests, shift, next, t, ends),
         NEW i \in DOMAIN rests[shift], \A j \in DOMAIN rests[shift] : j < i => rests[shift][j].finish # None,
         Unstarted(rests[shift][i]), DueAt(duty[shift].start, p[shift], rests[shift], i, t),
         NEW other, RowPut(rests, shift, i, Row(t, None, None, "none"), other)
  PROVE  RestsOK(p, duty, other, shift, next, t, ends)
<1>1. PICK row : row = Row(t, None, None, "none")
  OBVIOUS
<1>2. row.due = t /\ row.start = None /\ row.finish = None /\ row.outcome = "none" /\ row \in BreakRow /\ t # None
  BY <1>1 DEF Row, BreakRow, Time, None
<1>8. RowPut(rests, shift, i, row, other) /\ t \in Int
  BY <1>1
<1>3. RowOK(row, t)
  BY <1>2 DEF RowOK
<1>4. /\ rests \in Seq(Seq(BreakRow)) /\ shift \in DOMAIN rests /\ DOMAIN rests[shift] = DOMAIN p[shift].breaks
      /\ RowOK(rests[shift][i], t)
  BY DEF RestsOK, RowsOK
<1>5. rests[shift][i].finish = None
  BY <1>4 DEF Unstarted, RowOK
<1>6. DueRule(duty[shift].start, p[shift], other[shift], i) = t /\ other[shift][i] = row
  <2>2. row \in BreakRow /\ rests \in Seq(Seq(BreakRow)) /\ shift \in DOMAIN rests
    BY <1>2, <1>4
  <2>1. NowIs(other[shift], i, row, rests[shift])
    BY <2>2, <1>8, DueStays
  <2> QED
    BY <2>1 DEF NowIs, DueAt
<1>7. BreakRule(duty[shift].start, p[shift], other[shift], i, ends)
  BY <1>2, <1>6 DEF BreakRule
<1>9. row.due # None => \A j \in DOMAIN rests[shift] : j < i => rests[shift][j].finish # None
  BY <1>5
<1>10. rests[shift][i].finish # None => row.finish = rests[shift][i].finish
  BY <1>5
<1> QED
  BY <1>3, <1>7, <1>8, <1>9, <1>10, RowChanges

\* A break ends, at its full length or at closing.
LEMMA BreakStops ==
  ASSUME NEW p, PlanOK(p), NEW duty, NEW rests, NEW shift \in 1 .. Len(p), NEW next \in Int, shift < next,
         NEW t \in Nat, NEW ends, RestsOK(p, duty, rests, shift, next, t, ends),
         NEW i \in DOMAIN rests[shift], Underway(rests[shift][i]), NEW outcome,
         \/ outcome = "completed" /\ t = rests[shift][i].start + BreakLength
         \/ outcome = "truncated_by_closing" /\ t = Closing /\ Closing <= rests[shift][i].start + BreakLength,
         NEW other, RowPut(rests, shift, i, Row(rests[shift][i].due, rests[shift][i].start, t, outcome), other)
  PROVE  RestsOK(p, duty, other, shift, next, t, ends)
<1>1. PICK row : row = Row(rests[shift][i].due, rests[shift][i].start, t, outcome)
  OBVIOUS
<1>4. /\ rests \in Seq(Seq(BreakRow)) /\ shift \in DOMAIN rests /\ DOMAIN rests[shift] = DOMAIN p[shift].breaks
      /\ RowOK(rests[shift][i], t) /\ BreakRule(duty[shift].start, p[shift], rests[shift], i, ends)
      /\ \A j \in DOMAIN rests[shift] : j < i /\ rests[shift][i].due # None => rests[shift][j].finish # None
  BY DEF RestsOK, RowsOK
<1>2. /\ row.due = rests[shift][i].due /\ row.start = rests[shift][i].start /\ row.finish = t /\ row.outcome = outcome
      /\ row \in BreakRow /\ t # None /\ row.due # None /\ row.start # None
  BY <1>1, <1>4 DEF Row, RowOK, BreakRow, Time, None, Underway
<1>8. RowPut(rests, shift, i, row, other) /\ t \in Int
  BY <1>1
<1>3. RowOK(row, t)
  BY <1>2, <1>4 DEF RowOK
<1>5. rests[shift][i].finish = None /\ \A j \in DOMAIN rests[shift] : j < i => rests[shift][j].finish # None
  BY <1>2, <1>4 DEF Underway
<1>6. /\ DueRule(duty[shift].start, p[shift], other[shift], i) = DueRule(duty[shift].start, p[shift], rests[shift], i)
      /\ other[shift][i] = row
  <2>2. row \in BreakRow /\ rests \in Seq(Seq(BreakRow)) /\ shift \in DOMAIN rests
    BY <1>2, <1>4
  <2>1. NowIs(other[shift], i, row, rests[shift])
    BY <2>2, <1>8, DueStays
  <2> QED
    BY <2>1 DEF NowIs
<1>7. BreakRule(duty[shift].start, p[shift], other[shift], i, ends)
  BY <1>2, <1>4, <1>6 DEF BreakRule
<1>9. row.due # None => \A j \in DOMAIN rests[shift] : j < i => rests[shift][j].finish # None
  BY <1>5
<1>10. rests[shift][i].finish # None => row.finish = rests[shift][i].finish
  BY <1>5
<1> QED
  BY <1>3, <1>7, <1>8, <1>9, <1>10, RowChanges

-----------------------------------------------------------------------------
(* What is next for an employee *)

\* The times of a shift are numbers.
LEMMA DutyTypes ==
  ASSUME NEW p, NEW duty, NEW shift, NEW next, NEW last, NEW t, DutyOK(p, duty, shift, next, last, t), NEW k \in 1 .. Len(p)
  PROVE  duty[k] \in [start : Time, release : Time] /\ duty[k].start \in Int /\ duty[k].release \in Int
<1>1. duty \in Seq([start : Time, release : Time]) /\ k \in DOMAIN duty
  BY DEF DutyOK
<1>2. duty[k] \in [start : Time, release : Time]
  BY <1>1, LenProperties, ElementOfSeq
<1> QED
  BY <1>2 DEF Time, None

\* What holds at an instant holds later, with more customers gone.
LEMMA SoundLater ==
  ASSUME NEW p, PlanOK(p), NEW x, NEW t \in Int, NEW ends, Sound(p, x, t, ends),
         NEW u \in Int, t <= u, NEW more, ends \subseteq more
  PROVE  Sound(p, x, u, more)
<1>1. ASSUME NEW row, RowOK(row, t) PROVE RowOK(row, u)
  BY <1>1 DEF RowOK, BreakRow, Time, None
<1>2. ASSUME NEW d, NEW plan, NEW rows, NEW i, BreakRule(d, plan, rows, i, ends) PROVE BreakRule(d, plan, rows, i, more)
  BY <1>2 DEF BreakRule
<1>3. RestsOK(p, x.duty, x.rests, x.shift, x.next, u, more)
  BY <1>1, <1>2 DEF Sound, Past, RestsOK, RowsOK
<1>4. DutyOK(p, x.duty, x.shift, x.next, x.last, u)
  <2>1. DutyOK(p, x.duty, x.shift, x.next, x.last, t)
    BY DEF Sound, Past
  <2>2. x.last <= u
    BY <2>1 DEF DutyOK, Time, None
  <2>3. ASSUME NEW k \in 1 .. Len(p) PROVE x.duty[k].start <= u
    <3>1. x.duty[k].start \in Int
      BY <2>1, DutyTypes
    <3>2. x.duty[k].start <= t
      BY <2>1 DEF DutyOK
    <3> QED
      BY <3>1, <3>2
  <2> QED
    BY <2>1, <2>2, <2>3 DEF DutyOK
<1>5. \A k \in 1 .. Len(p) : ReleaseRule(p, x.duty, x.rests, k, more)
  BY DEF Sound, Past, ReleaseRule
<1>6. StateOK(p, x, u)
  <2>1. StateOK(p, x, t)
    BY DEF Sound
  <2>2. x.basis = "release_input" => u >= Closing
    BY <2>1, NamedDayAssumption DEF StateOK
  <2>3. x.shift # 0 /\ x.reached => p[x.shift].end <= u
    <3>1. x.shift \in 0 .. Len(p) /\ Len(p) \in Nat
      BY DEF Sound, Past, DutyOK, PlanOK
    <3>2. x.shift # 0 => p[x.shift].end \in Nat
      BY <3>1 DEF PlanOK
    <3> QED
      BY <2>1, <3>2 DEF StateOK
  <2> QED
    BY <2>1, <2>2, <2>3 DEF StateOK
<1> QED
  BY <1>3, <1>4, <1>5, <1>6 DEF Sound, Past

\* The first of the breaks that are still to be taken.
FirstPending(x, i) ==
  /\ i = Least(Pending(x)) /\ i \in DOMAIN x.rests[x.shift] /\ Unstarted(x.rests[x.shift][i])
  /\ \A j \in DOMAIN x.rests[x.shift] : j < i => ~Unstarted(x.rests[x.shift][j])

\* An employee with a break to come has a first one.
LEMMA ThereIsAFirst ==
  ASSUME NEW p, PlanOK(p), NEW x, NEW t \in Int, NEW ends, Sound(p, x, t, ends), Pending(x) # {}
  PROVE  x.shift \in 1 .. Len(p) /\ \E i \in Nat : FirstPending(x, i)
<1>1. x.shift \in 1 .. Len(p) /\ Len(p) \in Nat
  BY DEF Sound, Past, DutyOK, PlanOK, Pending
<1>2. PICK m \in Nat : DOMAIN x.rests[x.shift] = 1 .. m
  BY <1>1 DEF Sound, Past, RestsOK, PlanOK
<1>3. Pending(x) = {i \in 1 .. m : Unstarted(x.rests[x.shift][i])}
  BY <1>1, <1>2 DEF Pending
<1>4. Pending(x) \subseteq Nat
  BY <1>3
<1>5. Least(Pending(x)) \in Pending(x) /\ \A j \in Pending(x) : Least(Pending(x)) <= j
  BY <1>4, LeastIs
<1>6. PICK i : i = Least(Pending(x))
  OBVIOUS
<1>7. i \in 1 .. m /\ Unstarted(x.rests[x.shift][i]) /\ \A j \in 1 .. m : Unstarted(x.rests[x.shift][j]) => i <= j
  BY <1>3, <1>5, <1>6
<1>8. \A j \in 1 .. m : j < i => ~Unstarted(x.rests[x.shift][j])
  BY <1>7
<1> QED
  BY <1>1, <1>2, <1>6, <1>7, <1>8 DEF FirstPending

\* A break that may be taken now: the first one, and those before it are over.
Ready(x, i) == FirstPending(x, i) /\ \A j \in DOMAIN x.rests[x.shift] : j < i => x.rests[x.shift][j].finish # None

\* A break that waits for the end of a service is the first one.
LEMMA WaitingBreak ==
  ASSUME NEW p, PlanOK(p), NEW x, NEW t \in Int, NEW ends, Sound(p, x, t, ends), x.state = "SERVING_BREAK_DUE"
  PROVE  x.shift \in 1 .. Len(p) /\ Pending(x) # {} /\ \E i \in Nat : Ready(x, i) /\ x.rests[x.shift][i].due # None
<1>1. x.shift \in 1 .. Len(p) /\ x.shift # 0
  BY DEF Sound, Past, DutyOK, PlanOK, StateOK
<1>2. PICK j \in DOMAIN x.rests[x.shift] : Unstarted(x.rests[x.shift][j]) /\ x.rests[x.shift][j].due # None
  BY DEF Sound, StateOK
<1>3. Pending(x) # {}
  BY <1>1, <1>2 DEF Pending
<1>4. PICK i \in Nat : FirstPending(x, i)
  BY <1>3, ThereIsAFirst
<1>5. RowsOK(x.rests[x.shift], t)
  BY <1>1 DEF Sound, Past, RestsOK
<1>6. \A l \in DOMAIN x.rests[x.shift] : l < j => x.rests[x.shift][l].finish # None
  BY <1>2, <1>5 DEF RowsOK
<1>7. \A l \in DOMAIN x.rests[x.shift] : x.rests[x.shift][l].finish # None => ~Unstarted(x.rests[x.shift][l])
  BY <1>5 DEF RowsOK, RowOK, Unstarted
<1>8. i \in DOMAIN x.rests[x.shift] /\ ~(i < j) /\ ~(j < i)
  BY <1>2, <1>4, <1>6, <1>7 DEF FirstPending
<1>9. PICK m \in Nat : DOMAIN x.rests[x.shift] = 1 .. m
  BY <1>1 DEF Sound, Past, RestsOK, PlanOK
<1>10. i = j
  BY <1>8, <1>9
<1> QED
  BY <1>1, <1>2, <1>3, <1>4, <1>6, <1>10 DEF Ready

\* A break that falls due now is the first one, and its rule says so.
LEMMA DueBreak ==
  ASSUME NEW p, PlanOK(p), NEW x, NEW t \in Int, NEW ends, Sound(p, x, t, ends), NEW v \in DueTimes(p, x)
  PROVE  /\ x.shift \in 1 .. Len(p) /\ x.basis = "none" /\ v \in Int
         /\ \E i \in Nat : Ready(x, i) /\ x.rests[x.shift][i].due = None
                             /\ DueAt(x.duty[x.shift].start, p[x.shift], x.rests[x.shift], i, v)
<1>1. AwaitsBreak(x)
  BY DEF DueTimes
<1>2. x.shift \in 1 .. Len(p)
  BY <1>1, ThereIsAFirst DEF AwaitsBreak
<1>3. PICK i \in Nat : FirstPending(x, i)
  <2>1. Pending(x) # {}
    BY <1>1 DEF AwaitsBreak
  <2> QED
    BY <2>1, ThereIsAFirst
<1>4. x.rests[x.shift][i].due = None /\ x.basis = "none" /\ i = Least(Pending(x))
  BY <1>1, <1>3 DEF AwaitsBreak, FirstPending
<1>5. v = IF i = 1 THEN PlannedDue(p, x, i) ELSE Larger(PlannedDue(p, x, i), x.rests[x.shift][i - 1].finish + Gap)
  BY <1>1, <1>4 DEF DueTimes
<1>6. i # 1 => x.rests[x.shift][i - 1].finish # None
  BY <1>1, <1>4 DEF DueTimes
<1>7. DueAt(x.duty[x.shift].start, p[x.shift], x.rests[x.shift], i, v)
  BY <1>5 DEF DueAt, DueRule, PlannedDue
<1>8. PICK m \in Nat : DOMAIN x.rests[x.shift] = 1 .. m
  BY <1>2 DEF Sound, Past, RestsOK, PlanOK
<1>9. /\ \A j \in 1 .. m : x.rests[x.shift][j] \in BreakRow
      /\ \A j, l \in 1 .. m : j < l /\ x.rests[x.shift][l].due # None => x.rests[x.shift][j].finish # None
      /\ \A j \in 1 .. m : x.rests[x.shift][j].finish # None => x.rests[x.shift][j].due # None
  BY <1>2, <1>8 DEF Sound, Past, RestsOK, RowsOK, RowOK
<1>10. i \in 1 .. m
  BY <1>3, <1>8 DEF FirstPending
<1>11. ASSUME NEW j \in 1 .. m, j < i PROVE x.rests[x.shift][j].finish # None
  <2>1. i # 1 /\ i - 1 \in 1 .. m /\ (j = i - 1 \/ j < i - 1)
    BY <1>10, <1>11
  <2>2. x.rests[x.shift][i - 1].finish # None
    BY <1>6, <2>1
  <2> QED
    BY <1>9, <2>1, <2>2
<1>12. v \in Int
  <2>0. DutyOK(p, x.duty, x.shift, x.next, x.last, t)
    BY DEF Sound, Past
  <2>1. x.duty[x.shift].start \in Int
    BY <1>2, <2>0, DutyTypes
  <2>2. p[x.shift].breaks[i] \in Int /\ p[x.shift].start \in Int
    BY <1>2, <1>8, <1>10 DEF PlanOK, Sound, Past, RestsOK
  <2>3. PlannedDue(p, x, i) \in Int
    BY <2>1, <2>2 DEF PlannedDue
  <2>4. i # 1 => x.rests[x.shift][i - 1].finish \in Int
    <3>1. i # 1 => i - 1 \in 1 .. m
      BY <1>10
    <3> QED
      BY <1>9, <3>1 DEF BreakRow, Time, None
  <2> QED
    BY <1>5, <2>3, <2>4, WorkforceAssumption DEF Larger
<1> QED
  BY <1>2, <1>3, <1>4, <1>7, <1>8, <1>11, <1>12 DEF Ready

\* The break somebody is on.
LEMMA CurrentIs ==
  ASSUME NEW p, PlanOK(p), NEW x, NEW t \in Int, NEW ends, Sound(p, x, t, ends), x.state = "ON_BREAK"
  PROVE  /\ x.shift \in 1 .. Len(p) /\ CurrentBreak(x) \in DOMAIN x.rests[x.shift]
         /\ Underway(x.rests[x.shift][CurrentBreak(x)])
<1>1. x.shift \in 1 .. Len(p)
  BY DEF Sound, Past, DutyOK, PlanOK, StateOK
<1>2. \E i \in DOMAIN x.rests[x.shift] : x.rests[x.shift][i].start # None /\ x.rests[x.shift][i].finish = None
  BY DEF Sound, StateOK, Underway
<1> QED
  BY <1>1, <1>2 DEF CurrentBreak, Underway

-----------------------------------------------------------------------------
(* A break begins *)

\* Everything but state, register, waiting and breaks stays.
Alike(x, y) ==
  /\ y \in Employee /\ y.shift = x.shift /\ y.next = x.next /\ y.duty = x.duty /\ y.last = x.last
  /\ y.basis = x.basis /\ y.reached = x.reached /\ y.gone = x.gone

\* Nobody's break goes on.
Quiet(p, x) == \A k \in 1 .. Len(p) : \A i \in DOMAIN x.rests[k] : ~Underway(x.rests[k][i])

\* What is scheduled is not before these instants.
Ahead(p, x, e, b, d, a) == EndFrom(p, x, e) /\ BreakFrom(x, b) /\ DueFrom(p, x, d) /\ ActivationFrom(p, x, a)

\* A row that begins, field by field.
LEMMA RowBegins ==
  ASSUME NEW row \in BreakRow, NEW d \in Nat, NEW t \in Nat
  PROVE  [row EXCEPT !.due = d, !.start = t] = Row(d, t, row.finish, row.outcome)
<1>1. d \in Time /\ t \in Time
  BY DEF Time
<1>2. PICK new : new = [row EXCEPT !.due = d, !.start = t]
  OBVIOUS
<1>3. new \in BreakRow /\ new.due = d /\ new.start = t /\ new.finish = row.finish /\ new.outcome = row.outcome
  BY <1>1, <1>2 DEF BreakRow
<1>4. new = [due |-> new.due, start |-> new.start, finish |-> new.finish, outcome |-> new.outcome]
  BY <1>3 DEF BreakRow
<1> QED
  BY <1>2, <1>3, <1>4 DEF Row

\* Employee x goes on a break, and these are his breaks.
Resting(x, rests) == [x EXCEPT !.state = "ON_BREAK", !.register = 0, !.wait = None, !.rests = rests]

\* Somebody on a break holds no register and waits for none.
LEMMA OnBreak ==
  ASSUME NEW x \in Employee, NEW rests \in Seq(Seq(BreakRow))
  PROVE  Alike(x, Resting(x, rests)) /\ Resting(x, rests).state = "ON_BREAK" /\ Resting(x, rests).rests = rests
<1>1. "ON_BREAK" \in BaseStates /\ 0 \in Nat /\ None \in Time
  BY DEF BaseStates, Time
<1>2. PICK y : y = Resting(x, rests)
  OBVIOUS
<1>3. /\ y \in Employee /\ y.shift = x.shift /\ y.next = x.next /\ y.duty = x.duty /\ y.last = x.last
      /\ y.basis = x.basis /\ y.reached = x.reached /\ y.gone = x.gone /\ y.state = "ON_BREAK" /\ y.rests = rests
  BY <1>1, <1>2 DEF Employee, Resting
<1> QED
  BY <1>2, <1>3 DEF Alike

\* What starting a break changes.
LEMMA StartBreakIs ==
  ASSUME NEW x \in Employee, x.shift \in DOMAIN x.rests, NEW i \in DOMAIN x.rests[x.shift], FirstPending(x, i),
         NEW t \in Nat, NEW d \in Nat, (x.rests[x.shift][i].due = None /\ d = t) \/ x.rests[x.shift][i].due = d
  PROVE  LET row == x.rests[x.shift][i]
             y == StartBreak(x, t)
         IN /\ Alike(x, y) /\ y.state = "ON_BREAK"
            /\ RowPut(x.rests, x.shift, i, Row(d, t, row.finish, row.outcome), y.rests)
<1>1. PICK row : row = x.rests[x.shift][i]
  OBVIOUS
<1>2. x.rests \in Seq(Seq(BreakRow)) /\ row \in BreakRow
  <2>1. x.rests \in Seq(Seq(BreakRow))
    BY DEF Employee
  <2>2. x.rests[x.shift] \in Seq(BreakRow)
    BY <2>1, ElementOfSeq, LenProperties
  <2> QED
    BY <1>1, <2>1, <2>2, ElementOfSeq, LenProperties
<1>3. (IF row.due = None THEN t ELSE row.due) = d
  BY <1>1 DEF None
<1>4. PICK new : new = Row(d, t, row.finish, row.outcome)
  OBVIOUS
<1>5. new = [row EXCEPT !.due = d, !.start = t]
  BY <1>2, <1>4, RowBegins
<1>6. new \in BreakRow
  BY <1>2, <1>4 DEF Row, BreakRow, Time
<1>7. PICK other : other = Noted(x, i, new)
  OBVIOUS
<1>8. RowPut(x.rests, x.shift, i, new, other)
  BY <1>7 DEF RowPut, Noted
<1>9. other \in Seq(Seq(BreakRow))
  BY <1>2, <1>6, <1>8, RowPutIs
<1>10. StartBreak(x, t) = Resting(x, other)
  <2>1. Least(Pending(x)) = i
    BY DEF FirstPending
  <2>2. other = Noted(x, i, [row EXCEPT !.due = IF row.due = None THEN t ELSE row.due, !.start = t])
    BY <1>3, <1>5, <1>7, Zenon
  <2> QED
    BY <1>1, <2>1, <2>2, Zenon DEF StartBreak, Resting
<1>11. PICK y : y = StartBreak(x, t)
  OBVIOUS
<1>12. Alike(x, y) /\ y.state = "ON_BREAK" /\ y.rests = other
  BY <1>9, <1>10, <1>11, OnBreak
<1>13. RowPut(x.rests, x.shift, i, new, y.rests)
  BY <1>8, <1>12
<1> QED
  BY <1>1, <1>4, <1>11, <1>12, <1>13

\* A break that may be taken is taken: nothing else is due while it goes on.
LEMMA StartBreakKeeps ==
  ASSUME NEW p, PlanOK(p), NEW x \in Employee, NEW t \in Nat, t < Closing, NEW ends, Past(p, x, t, ends), Quiet(p, x),
         x.shift \in 1 .. Len(p), x.basis = "none", x.reached => p[x.shift].end <= t,
         NEW i \in Nat, Ready(x, i), NEW d \in Nat, DueAt(x.duty[x.shift].start, p[x.shift], x.rests[x.shift], i, d),
         \/ x.rests[x.shift][i].due = None /\ d = t
         \/ x.rests[x.shift][i].due = d /\ (d = t \/ (d < t /\ t \in ends))
  PROVE  LET y == StartBreak(x, t)
         IN /\ Sound(p, y, t, ends) /\ Settled(y) /\ Alike(x, y) /\ y.state = "ON_BREAK"
            /\ BreakFrom(y, t + 1) /\ DueFrom(p, y, t + 1)
<1>1. PICK y : y = StartBreak(x, t)
  OBVIOUS
<1>2. /\ i \in DOMAIN x.rests[x.shift] /\ FirstPending(x, i) /\ Unstarted(x.rests[x.shift][i])
      /\ \A j \in DOMAIN x.rests[x.shift] : j < i => x.rests[x.shift][j].finish # None
  BY DEF Ready, FirstPending
<1>3. /\ RestsOK(p, x.duty, x.rests, x.shift, x.next, t, ends) /\ DutyOK(p, x.duty, x.shift, x.next, x.last, t)
      /\ \A k \in 1 .. Len(p) : ReleaseRule(p, x.duty, x.rests, k, ends)
  BY DEF Past
<1>4. x.shift # 0 /\ x.next \in Int /\ x.shift < x.next /\ x.shift \in Nat /\ Len(p) \in Nat
  BY <1>3 DEF DutyOK, PlanOK
<1>5. x.rests \in Seq(Seq(BreakRow)) /\ DOMAIN x.rests = 1 .. Len(p) /\ RowsOK(x.rests[x.shift], t)
  BY <1>3 DEF RestsOK
<1>6. PICK m \in Nat : DOMAIN x.rests[x.shift] = 1 .. m
  BY <1>3 DEF RestsOK, PlanOK
<1>7. RowOK(x.rests[x.shift][i], t) /\ x.rests[x.shift][i].finish = None /\ x.rests[x.shift][i].outcome = "none"
  BY <1>2, <1>5 DEF RowsOK, RowOK, Unstarted
<1>8. PICK new : new = Row(d, t, None, "none")
  OBVIOUS
<1>9. RowPut(x.rests, x.shift, i, new, y.rests) /\ Alike(x, y) /\ y.state = "ON_BREAK"
  <2>1. Row(d, t, x.rests[x.shift][i].finish, x.rests[x.shift][i].outcome) = new
    BY <1>7, <1>8
  <2>2. x.shift \in DOMAIN x.rests
    BY <1>5
  <2> QED
    BY <1>1, <1>2, <2>1, <2>2, StartBreakIs
<1>10. new.due = d /\ new.start = t /\ new.finish = None /\ new.outcome = "none" /\ new \in BreakRow /\ t # None
  BY <1>8 DEF Row, BreakRow, Time, None
<1>11. /\ \A k \in 1 .. Len(p) : k # x.shift => y.rests[k] = x.rests[k]
       /\ DOMAIN y.rests[x.shift] = 1 .. m /\ y.rests[x.shift][i] = new
       /\ \A j \in 1 .. m : j # i => y.rests[x.shift][j] = x.rests[x.shift][j]
  <2>1. x.shift \in DOMAIN x.rests /\ i \in DOMAIN x.rests[x.shift] /\ new \in BreakRow
    BY <1>2, <1>5, <1>10
  <2>a. PICK old, other : old = x.rests /\ other = y.rests
    OBVIOUS
  <2>b. /\ old \in Seq(Seq(BreakRow)) /\ x.shift \in DOMAIN old /\ i \in DOMAIN old[x.shift] /\ new \in BreakRow
        /\ RowPut(old, x.shift, i, new, other)
    BY <1>5, <1>9, <2>1, <2>a
  <2>2. /\ \A k \in DOMAIN old : k # x.shift => other[k] = old[k]
        /\ DOMAIN other[x.shift] = DOMAIN old[x.shift] /\ other[x.shift][i] = new
        /\ \A j \in DOMAIN old[x.shift] : j # i => other[x.shift][j] = old[x.shift][j]
    BY <2>b, RowPutIs
  <2> QED
    BY <1>5, <1>6, <2>a, <2>2
<1>12. RestsOK(p, x.duty, y.rests, x.shift, x.next, t, ends)
  <2>1. d = t \/ (d < t /\ t \in ends)
    OBVIOUS
  <2>2. /\ RestsOK(p, x.duty, x.rests, x.shift, x.next, t, ends) /\ x.shift \in 1 .. Len(p)
        /\ i \in DOMAIN x.rests[x.shift] /\ Unstarted(x.rests[x.shift][i])
        /\ \A j \in DOMAIN x.rests[x.shift] : j < i => x.rests[x.shift][j].finish # None
        /\ RowPut(x.rests, x.shift, i, Row(d, t, None, "none"), y.rests)
    BY <1>2, <1>3, <1>8, <1>9
  <2> QED
    BY <1>4, <2>1, <2>2, BreakTaken
<1>13. \A k \in 1 .. Len(p) : ReleaseRule(p, x.duty, y.rests, k, ends)
  <2> SUFFICES ASSUME NEW k \in 1 .. Len(p) PROVE ReleaseRule(p, x.duty, y.rests, k, ends)
    OBVIOUS
  <2>1. CASE k = x.shift
    BY <1>3, <2>1 DEF ReleaseRule, DutyOK
  <2>2. CASE k # x.shift
    BY <1>3, <1>11, <2>2 DEF ReleaseRule
  <2> QED
    BY <2>1, <2>2
<1>14. Past(p, y, t, ends)
  BY <1>3, <1>9, <1>12, <1>13 DEF Past, Alike
<1>15. \A j \in 1 .. m : j > i => y.rests[x.shift][j].due = None /\ y.rests[x.shift][j].start = None /\ y.rests[x.shift][j].finish = None
  <2>1. \A j \in 1 .. m : RowOK(y.rests[x.shift][j], t)
    BY <1>11, <1>12, <1>4 DEF RestsOK, RowsOK
  <2>2. ASSUME NEW j \in 1 .. m, j > i PROVE y.rests[x.shift][j].due = None
    BY <1>2, <1>4, <1>6, <1>10, <1>11, <1>12, <2>2 DEF RestsOK, RowsOK
  <2> QED
    BY <2>1, <2>2 DEF RowOK
<1>16. StateOK(p, y, t)
  <2>1. y.shift = x.shift /\ y.shift # 0 /\ y.basis = "none" /\ y.state = "ON_BREAK" /\ y.reached = x.reached
    BY <1>4, <1>9 DEF Alike
  <2>2. i \in DOMAIN y.rests[y.shift] /\ Underway(y.rests[y.shift][i])
    BY <1>2, <1>6, <1>10, <1>11, <2>1 DEF Underway
  <2>3. ASSUME NEW k \in 1 .. Len(p), NEW j \in DOMAIN y.rests[k], Underway(y.rests[k][j]) PROVE k = y.shift
    BY <1>9, <1>11, <2>1, <2>3 DEF Quiet
  <2> QED
    BY <2>1, <2>2, <2>3 DEF StateOK
<1>17. Settled(y)
  <2>1. ASSUME NEW j \in 1 .. m, Unstarted(y.rests[x.shift][j]) PROVE y.rests[x.shift][j].due = None
    <3>1. CASE j = i
      BY <1>10, <1>11, <2>1, <3>1 DEF Unstarted
    <3>2. CASE j < i
      BY <1>2, <1>6, <1>11, <2>1, <3>2 DEF FirstPending
    <3>3. CASE j > i
      BY <1>15, <3>3
    <3> QED
      BY <3>1, <3>2, <3>3
  <2> QED
    BY <1>9, <1>11, <2>1 DEF Settled, Alike
<1>18. BreakFrom(y, t + 1)
  <2>1. ASSUME NEW j \in 1 .. m, Underway(y.rests[x.shift][j]) PROVE j = i
    BY <1>6, <1>11, <2>1 DEF Quiet
  <2>2. t + 1 <= t + BreakLength
    BY WorkforceAssumption
  <2> QED
    BY <1>9, <1>10, <1>11, <2>1, <2>2 DEF BreakFrom, Alike
<1>19. DueTimes(p, y) = {}
  <2>1. SUFFICES ASSUME AwaitsBreak(y) PROVE Least(Pending(y)) # 1 /\ y.rests[y.shift][Least(Pending(y)) - 1].finish = None
    BY DEF DueTimes
  <2>2. y.shift = x.shift
    BY <1>9 DEF Alike
  <2>3. PICK j \in Nat : FirstPending(y, j)
    <3>1. Sound(p, y, t, ends) /\ Pending(y) # {}
      BY <1>9, <1>14, <1>16, <2>1 DEF Sound, AwaitsBreak, Alike
    <3> QED
      BY <3>1, ThereIsAFirst
  <2>4. j \in 1 .. m /\ j = Least(Pending(y)) /\ Unstarted(y.rests[x.shift][j])
    BY <1>11, <2>2, <2>3 DEF FirstPending
  <2>5. j > i
    <3>1. j # i
      BY <1>10, <1>11, <2>4 DEF Unstarted
    <3>2. ~ (j < i)
      BY <1>2, <1>6, <1>11, <2>4, <3>1 DEF FirstPending
    <3> QED
      BY <2>4, <3>1, <3>2
  <2>6. j # 1 /\ j - 1 \in 1 .. m /\ (j - 1 = i \/ j - 1 > i)
    BY <1>2, <1>6, <2>4, <2>5
  <2> QED
    BY <1>10, <1>11, <1>15, <2>2, <2>4, <2>6
<1>20. DueFrom(p, y, t + 1)
  BY <1>19 DEF DueFrom
<1>21. Sound(p, y, t, ends)
  BY <1>9, <1>14, <1>16 DEF Sound, Alike
<1> QED
  BY <1>1, <1>9, <1>17, <1>18, <1>20, <1>21

-----------------------------------------------------------------------------
(* A shift is over *)

\* The next shift after a release at t.
NextShift(p, x, t) ==
  IF LaterShifts(p, x, t) = {} THEN Len(p) + 1 ELSE Least(LaterShifts(p, x, t))

\* What becomes of the breaks of shifts before the next.
GivenUp(rests, next, other) ==
  /\ DOMAIN other = DOMAIN rests
  /\ \A k \in DOMAIN rests : other[k] = IF k < next THEN Unfulfilled(rests[k]) ELSE rests[k]

\* The release is noted with the shift.
Released(duty, k, t, other) == other = [duty EXCEPT ![k] = [@ EXCEPT !.release = t]]

\* Breaks that are given up stay breaks.
LEMMA UnfulfilledIs ==
  ASSUME NEW rows \in Seq(BreakRow)
  PROVE  /\ Unfulfilled(rows) \in Seq(BreakRow) /\ DOMAIN Unfulfilled(rows) = DOMAIN rows
         /\ \A i \in DOMAIN rows :
              /\ Unfulfilled(rows)[i] \in BreakRow
              /\ Unfulfilled(rows)[i].due = rows[i].due /\ Unfulfilled(rows)[i].start = rows[i].start
              /\ Unfulfilled(rows)[i].finish = rows[i].finish
              /\ Unfulfilled(rows)[i].outcome = IF Unstarted(rows[i]) THEN "unfulfilled" ELSE rows[i].outcome
<1>1. PICK m \in Nat : DOMAIN rows = 1 .. m /\ Len(rows) = m
  BY LenProperties
<1>2. \A i \in 1 .. m : rows[i] \in BreakRow
  BY <1>1, ElementOfSeq
<1>3. ASSUME NEW row \in BreakRow
      PROVE  LET new == IF Unstarted(row) THEN [row EXCEPT !.outcome = "unfulfilled"] ELSE row
             IN /\ new \in BreakRow /\ new.due = row.due /\ new.start = row.start /\ new.finish = row.finish
                /\ new.outcome = IF Unstarted(row) THEN "unfulfilled" ELSE row.outcome
  BY <1>3 DEF BreakRow
<1>4. PICK new : new = Unfulfilled(rows)
  OBVIOUS
<1>5. DOMAIN new = 1 .. m /\ \A i \in 1 .. m : new[i] = IF Unstarted(rows[i]) THEN [rows[i] EXCEPT !.outcome = "unfulfilled"] ELSE rows[i]
  BY <1>1, <1>4 DEF Unfulfilled
<1>6. \A i \in 1 .. m : new[i] \in BreakRow
  BY <1>2, <1>3, <1>5
<1>7. new = [i \in 1 .. m |-> new[i]]
  BY <1>1, <1>4 DEF Unfulfilled
<1>8. new \in Seq(BreakRow)
  BY <1>6, <1>7
<1> QED
  BY <1>1, <1>2, <1>3, <1>4, <1>5, <1>8

\* So do the breaks of all shifts.
LEMMA GivenUpIs ==
  ASSUME NEW rests \in Seq(Seq(BreakRow)), NEW next, NEW other, 
         other = [k \in DOMAIN rests |-> IF k < next THEN Unfulfilled(rests[k]) ELSE rests[k]]
  PROVE  other \in Seq(Seq(BreakRow)) /\ GivenUp(rests, next, other)
<1>1. PICK n \in Nat : DOMAIN rests = 1 .. n
  BY LenProperties
<1>2. \A k \in 1 .. n : rests[k] \in Seq(BreakRow)
  BY <1>1, ElementOfSeq
<1>3. \A k \in 1 .. n : (IF k < next THEN Unfulfilled(rests[k]) ELSE rests[k]) \in Seq(BreakRow)
  BY <1>2, UnfulfilledIs
<1>4. other \in Seq(Seq(BreakRow))
  BY <1>1, <1>3
<1> QED
  BY <1>4 DEF GivenUp

\* Employee x goes off at t; next, duty and rests become these.
Off(x, t, next, duty, rests) ==
  [x EXCEPT !.state = "OFF", !.register = 0, !.wait = None, !.shift = 0, !.basis = "none",
            !.last = t, !.next = next, !.duty = duty, !.rests = rests]

WentOff(x, t, next, duty, rests, y) ==
  /\ y \in Employee /\ y.state = "OFF" /\ y.shift = 0 /\ y.basis = "none" /\ y.last = t
  /\ y.next = next /\ y.gone = x.gone /\ y.reached = x.reached /\ y.duty = duty /\ y.rests = rests

\* Somebody off has no shift and no register.
LEMMA OffIs ==
  ASSUME NEW x \in Employee, NEW t \in Nat, NEW next \in Nat, NEW duty \in Seq([start : Time, release : Time]),
         NEW rests \in Seq(Seq(BreakRow))
  PROVE  WentOff(x, t, next, duty, rests, Off(x, t, next, duty, rests))
<1>1. "OFF" \in BaseStates /\ 0 \in Nat /\ None \in Time /\ t \in Time
  BY DEF BaseStates, Time
<1>2. PICK y : y = Off(x, t, next, duty, rests)
  OBVIOUS
<1> QED
  BY <1>1, <1>2 DEF Employee, Off, WentOff

\* GoOff, field by field.
LEMMA GoOffIs ==
  ASSUME NEW p, PlanOK(p), NEW x \in Employee, x.shift \in DOMAIN x.duty, NEW t \in Nat, NextShift(p, x, t) \in Nat
  PROVE  LET y == GoOff(p, x, t)
         IN /\ y \in Employee /\ y.state = "OFF" /\ y.shift = 0 /\ y.basis = "none" /\ y.last = t
            /\ y.next = NextShift(p, x, t) /\ y.gone = x.gone /\ y.reached = x.reached
            /\ Released(x.duty, x.shift, t, y.duty) /\ GivenUp(x.rests, NextShift(p, x, t), y.rests)
<1>1. PICK next : next = NextShift(p, x, t)
  OBVIOUS
<1>2. PICK rests : rests = [k \in DOMAIN x.rests |-> IF k < next THEN Unfulfilled(x.rests[k]) ELSE x.rests[k]]
  OBVIOUS
<1>3. rests \in Seq(Seq(BreakRow)) /\ GivenUp(x.rests, next, rests)
  <2>1. x.rests \in Seq(Seq(BreakRow))
    BY DEF Employee
  <2> QED
    BY <1>2, <2>1, GivenUpIs
<1>4. PICK duty : duty = [x.duty EXCEPT ![x.shift] = [@ EXCEPT !.release = t]]
  OBVIOUS
<1>5. duty \in Seq([start : Time, release : Time])
  <2>1. x.duty \in Seq([start : Time, release : Time])
    BY DEF Employee
  <2>2. x.duty[x.shift] \in [start : Time, release : Time]
    BY <2>1, ElementOfSeq, LenProperties
  <2>3. PICK d : d = [x.duty[x.shift] EXCEPT !.release = t]
    OBVIOUS
  <2>4. d \in [start : Time, release : Time]
    BY <2>2, <2>3 DEF Time
  <2>5. duty = [x.duty EXCEPT ![x.shift] = d]
    BY <1>4, <2>3
  <2> QED
    BY <2>1, <2>4, <2>5
<1>6. PICK y : y = GoOff(p, x, t)
  OBVIOUS
<1>7. y = Off(x, t, next, duty, rests)
  BY <1>1, <1>2, <1>4, <1>6, Zenon DEF GoOff, NextShift, Off
<1>8. next \in Nat
  BY <1>1
<1>9. WentOff(x, t, next, duty, rests, y)
  BY <1>3, <1>5, <1>7, <1>8, OffIs
<1> QED
  BY <1>1, <1>3, <1>4, <1>6, <1>9 DEF Released, WentOff

\* Giving up breaks that are not begun takes nothing back; the shifts before n are over, s is still worked.
LEMMA GivenUpRests ==
  ASSUME NEW p, PlanOK(p), NEW duty, NEW rests, NEW shift, NEW next \in Int, NEW t \in Int, NEW ends,
         RestsOK(p, duty, rests, shift, next, t, ends),
         NEW g \in Int, NEW other, GivenUp(rests, g, other), other \in Seq(Seq(BreakRow)),
         NEW s, NEW n \in Int, next <= n, n <= g,
         \A k \in 1 .. Len(p) : k < n /\ k # s => \A i \in DOMAIN rests[k] : ~Underway(rests[k][i]),
         NEW new, \A k \in 1 .. Len(p) : new[k].start = duty[k].start
  PROVE  RestsOK(p, new, other, s, n, t, ends)
<1>1. Len(p) \in Nat /\ rests \in Seq(Seq(BreakRow)) /\ DOMAIN rests = 1 .. Len(p) /\ DOMAIN other = 1 .. Len(p)
  BY DEF PlanOK, RestsOK, GivenUp
<1>2. ASSUME NEW k \in 1 .. Len(p)
      PROVE  /\ DOMAIN other[k] = DOMAIN p[k].breaks
             /\ RowsOK(other[k], t)
             /\ \A i \in DOMAIN other[k] :
                  /\ BreakRule(new[k].start, p[k], other[k], i, ends)
                  /\ k >= n => other[k][i].due = None
                  /\ k < n /\ k # s => ~Unstarted(other[k][i]) /\ ~Underway(other[k][i])
  <2>1. PICK m \in Nat : DOMAIN rests[k] = 1 .. m /\ DOMAIN p[k].breaks = 1 .. m
    BY DEF PlanOK, RestsOK
  <2>2. \A i \in 1 .. m : RowOK(rests[k][i], t)
    BY <2>1 DEF RestsOK, RowsOK
  <2>3. rests[k] \in Seq(BreakRow)
    BY <1>1, ElementOfSeq
  <2>4. /\ DOMAIN other[k] = 1 .. m
        /\ \A i \in 1 .. m :
             /\ other[k][i] \in BreakRow
             /\ other[k][i].due = rests[k][i].due /\ other[k][i].start = rests[k][i].start
             /\ other[k][i].finish = rests[k][i].finish
             /\ other[k][i].outcome = IF k < g /\ Unstarted(rests[k][i]) THEN "unfulfilled" ELSE rests[k][i].outcome
    <3>1. CASE k < g
      <4>1. other[k] = Unfulfilled(rests[k])
        BY <1>1, <3>1 DEF GivenUp
      <4> QED
        BY <2>1, <2>3, <3>1, <4>1, UnfulfilledIs
    <3>2. CASE ~ (k < g)
      <4>1. other[k] = rests[k]
        BY <1>1, <3>2 DEF GivenUp
      <4> QED
        BY <2>1, <2>2, <3>2, <4>1 DEF RowOK
    <3> QED
      BY <3>1, <3>2
  <2>5. ASSUME NEW i \in 1 .. m PROVE RowOK(other[k][i], t)
    <3>1. RowOK(rests[k][i], t)
      BY <2>2
    <3>2. CASE k < g /\ Unstarted(rests[k][i])
      BY <2>4, <3>1, <3>2 DEF RowOK, Unstarted
    <3>3. CASE ~ (k < g /\ Unstarted(rests[k][i]))
      BY <2>4, <3>1, <3>3 DEF RowOK
    <3> QED
      BY <3>2, <3>3
  <2>6. RowsOK(other[k], t)
    <3>1. \A i, j \in 1 .. m : i < j /\ rests[k][j].due # None => rests[k][i].finish # None
      BY <2>1 DEF RowsOK, RestsOK
    <3>2. \A i, j \in 1 .. m : i < j /\ other[k][j].due # None => other[k][i].finish # None
      BY <2>4, <3>1
    <3> QED
      BY <2>4, <2>5, <3>2 DEF RowsOK
  <2>7. ASSUME NEW i \in 1 .. m PROVE BreakRule(new[k].start, p[k], other[k], i, ends)
    <3>1. BreakRule(duty[k].start, p[k], rests[k], i, ends)
      BY <2>1 DEF RestsOK
    <3>2. DueRule(new[k].start, p[k], other[k], i) = DueRule(duty[k].start, p[k], rests[k], i)
      <4>1. CASE i = 1
        BY <4>1 DEF DueRule
      <4>2. CASE i # 1
        <5>1. i - 1 \in 1 .. m
          BY <4>2
        <5>2. other[k][i - 1].finish = rests[k][i - 1].finish
          BY <2>4, <5>1
        <5> QED
          BY <4>2, <5>2 DEF DueRule
      <4> QED
        BY <4>1, <4>2
    <3>3. rests[k][i].start # None => other[k][i].outcome = rests[k][i].outcome
      BY <2>4 DEF Unstarted
    <3>4. /\ other[k][i].due = rests[k][i].due /\ other[k][i].start = rests[k][i].start
          /\ other[k][i].finish = rests[k][i].finish
      BY <2>4
    <3>5. PICK old : old = rests[k][i]
      OBVIOUS
    <3>6. PICK row : row = other[k][i]
      OBVIOUS
    <3>7. PICK u : u = DueRule(duty[k].start, p[k], rests[k], i)
      OBVIOUS
    <3>8. /\ old.due # None => old.due = u
          /\ old.start # None =>
               /\ old.start < Closing
               /\ old.start = old.due \/ (old.start > old.due /\ old.start \in ends)
               /\ old.outcome = "completed" => old.finish = old.start + BreakLength
               /\ old.outcome = "truncated_by_closing" => old.finish = Closing /\ Closing <= old.start + BreakLength
      BY <3>1, <3>5, <3>7 DEF BreakRule
    <3>9. /\ row.due = old.due /\ row.start = old.start /\ row.finish = old.finish
          /\ old.start # None => row.outcome = old.outcome
      BY <3>3, <3>4, <3>5, <3>6
    <3>10. PICK rows, since : rows = other[k] /\ since = new[k].start
      OBVIOUS
    <3>11. row = rows[i] /\ u = DueRule(since, p[k], rows, i)
      BY <3>2, <3>6, <3>7, <3>10
    <3>12. /\ row.due # None => row.due = u
           /\ row.start # None =>
                /\ row.start < Closing
                /\ row.start = row.due \/ (row.start > row.due /\ row.start \in ends)
                /\ row.outcome = "completed" => row.finish = row.start + BreakLength
                /\ row.outcome = "truncated_by_closing" => row.finish = Closing /\ Closing <= row.start + BreakLength
      <4>1. CASE old.start = None
        BY <3>8, <3>9, <4>1
      <4>2. CASE old.start # None
        <5>1. row.outcome = old.outcome
          BY <3>9, <4>2
        <5> QED
          BY <3>8, <3>9, <4>2, <5>1
      <4> QED
        BY <4>1, <4>2
    <3>13. BreakRule(since, p[k], rows, i, ends)
      BY <3>11, <3>12 DEF BreakRule
    <3> QED
      BY <3>10, <3>13
  <2>8. ASSUME NEW i \in 1 .. m
        PROVE  /\ k >= n => other[k][i].due = None
               /\ k < n /\ k # s => ~Unstarted(other[k][i]) /\ ~Underway(other[k][i])
    <3>1. k >= n => rests[k][i].due = None
      <4>1. k >= next => rests[k][i].due = None
        BY <2>1 DEF RestsOK
      <4>2. k >= n => k >= next
        OBVIOUS
      <4> QED
        BY <4>1, <4>2
    <3>2. k < n /\ k # s => ~Underway(rests[k][i]) /\ k < g
      BY <2>1
    <3>3. k < n /\ k # s => ~Underway(other[k][i])
      BY <2>4, <3>2 DEF Underway
    <3>4. k < g => ~Unstarted(other[k][i])
      BY <2>4 DEF Unstarted
    <3> QED
      BY <2>4, <3>1, <3>2, <3>3, <3>4
  <2> QED
    BY <2>1, <2>4, <2>6, <2>7, <2>8
<1> QED
  BY <1>1, <1>2 DEF RestsOK

\* The shift activated next is one of those to come that the rest leaves time for.
LEMMA NextShiftIs ==
  ASSUME NEW p, PlanOK(p), NEW x, x.next \in 1 .. Len(p) + 1, NEW t
  PROVE  /\ NextShift(p, x, t) \in x.next .. Len(p) + 1
         /\ NextShift(p, x, t) <= Len(p) => ~x.gone /\ Activation(p, NextShift(p, x, t), t) < p[NextShift(p, x, t)].end
<1>1. Len(p) \in Nat
  BY DEF PlanOK
<1>2. PICK S : S = LaterShifts(p, x, t)
  OBVIOUS
<1>3. S \subseteq Nat /\ S \subseteq x.next .. Len(p)
  BY <1>1, <1>2 DEF LaterShifts
<1>4. CASE S = {}
  BY <1>1, <1>2, <1>4 DEF NextShift
<1>5. CASE S # {}
  <2>1. Least(S) \in S
    BY <1>3, <1>5, LeastIs
  <2>2. NextShift(p, x, t) \in S
    BY <1>2, <1>5, <2>1 DEF NextShift
  <2>3. ~x.gone /\ Activation(p, NextShift(p, x, t), t) < p[NextShift(p, x, t)].end
    BY <1>2, <2>2 DEF LaterShifts
  <2>4. NextShift(p, x, t) \in x.next .. Len(p) + 1
    <3>1. PICK n : n = NextShift(p, x, t)
      OBVIOUS
    <3>2. n \in S
      BY <2>2, <3>1
    <3>3. \A k \in x.next .. Len(p) : k \in x.next .. Len(p) + 1
      BY <1>1
    <3> QED
      BY <1>3, <3>1, <3>2, <3>3
  <2> QED
    BY <2>3, <2>4
<1> QED
  BY <1>4, <1>5

\* The shift of x may end at t.
MayRelease(p, x, t, ends) ==
  \/ t = p[x.shift].end
  \/ t >= Closing
  \/ t > p[x.shift].end /\ (t \in ends \/ \E i \in DOMAIN x.rests[x.shift] : x.rests[x.shift][i].finish = t)

\* Off at t, and what comes next is not before t.
OffAt(p, x, t, ends, y) ==
  /\ Sound(p, y, t, ends) /\ y.state = "OFF" /\ y.shift = 0 /\ y.gone = x.gone
  /\ ActivationFrom(p, y, t)
  /\ (x.gone => y.next = Len(p) + 1) /\ GivenUp(x.rests, y.next, y.rests)

\* When a shift may end and no break goes on, its end keeps the rules.
LEMMA GoOffKeeps ==
  ASSUME NEW p, PlanOK(p), NEW x \in Employee, NEW t \in Nat, NEW ends, Past(p, x, t, ends),
         x.shift \in 1 .. Len(p), Quiet(p, x), MayRelease(p, x, t, ends)
  PROVE  OffAt(p, x, t, ends, GoOff(p, x, t))
<1>1. /\ RestsOK(p, x.duty, x.rests, x.shift, x.next, t, ends) /\ DutyOK(p, x.duty, x.shift, x.next, x.last, t)
      /\ \A k \in 1 .. Len(p) : ReleaseRule(p, x.duty, x.rests, k, ends)
  BY DEF Past
<1>2. PICK n : n = NextShift(p, x, t)
  OBVIOUS
<1>3. PICK y : y = GoOff(p, x, t)
  OBVIOUS
<1>4. Len(p) \in Nat /\ x.shift \in DOMAIN x.duty /\ x.next \in 1 .. Len(p) + 1 /\ x.shift # 0 /\ x.next = x.shift + 1
  BY <1>1 DEF DutyOK, PlanOK
<1>5. n \in x.next .. Len(p) + 1 /\ (n <= Len(p) => ~x.gone /\ Activation(p, n, t) < p[n].end)
  BY <1>2, <1>4, NextShiftIs
<1>6. /\ y \in Employee /\ y.state = "OFF" /\ y.shift = 0 /\ y.basis = "none" /\ y.last = t
      /\ y.next = n /\ y.gone = x.gone
      /\ Released(x.duty, x.shift, t, y.duty) /\ GivenUp(x.rests, n, y.rests)
  <2>1. NextShift(p, x, t) \in Nat
    BY <1>2, <1>4, <1>5
  <2> QED
    BY <1>2, <1>3, <1>4, <2>1, GoOffIs
<1>7. /\ DOMAIN y.duty = 1 .. Len(p) /\ y.duty \in Seq([start : Time, release : Time])
      /\ \A k \in 1 .. Len(p) : y.duty[k].start = x.duty[k].start
      /\ y.duty[x.shift].release = t /\ \A k \in 1 .. Len(p) : k # x.shift => y.duty[k].release = x.duty[k].release
  <2>1. \A k \in 1 .. Len(p) : x.duty[k] \in [start : Time, release : Time]
    BY <1>1, DutyTypes
  <2>2. y.duty = [x.duty EXCEPT ![x.shift] = [@ EXCEPT !.release = t]]
    BY <1>6 DEF Released
  <2>3. y.duty \in Seq([start : Time, release : Time])
    BY <1>6 DEF Employee
  <2>4. DOMAIN x.duty = 1 .. Len(p)
    BY <1>1 DEF DutyOK
  <2>5. PICK d : d = [x.duty[x.shift] EXCEPT !.release = t]
    OBVIOUS
  <2>6. d.start = x.duty[x.shift].start /\ d.release = t
    BY <2>1, <2>5
  <2>7. y.duty = [x.duty EXCEPT ![x.shift] = d]
    BY <2>2, <2>5
  <2> QED
    BY <2>3, <2>4, <2>6, <2>7
<1>8. RestsOK(p, y.duty, y.rests, 0, n, t, ends)
  <2>1. y.rests \in Seq(Seq(BreakRow))
    BY <1>6 DEF Employee
  <2>2. x.next \in Int /\ n \in Int /\ t \in Int /\ x.next <= n /\ n <= n
    BY <1>4, <1>5
  <2>3. \A k \in 1 .. Len(p) : k < n /\ k # 0 => \A i \in DOMAIN x.rests[k] : ~Underway(x.rests[k][i])
    BY DEF Quiet
  <2> QED
    <3>1. RestsOK(p, x.duty, x.rests, x.shift, x.next, t, ends) /\ GivenUp(x.rests, n, y.rests)
      BY <1>1, <1>6
    <3>2. \A k \in 1 .. Len(p) : y.duty[k].start = x.duty[k].start
      BY <1>7
    <3>3. PICK none : none = 0
      OBVIOUS
    <3>4. \A k \in 1 .. Len(p) : k < n /\ k # none => \A i \in DOMAIN x.rests[k] : ~Underway(x.rests[k][i])
      BY <2>3, <3>3
    <3>5. RestsOK(p, y.duty, y.rests, none, n, t, ends)
      BY <2>1, <2>2, <3>1, <3>2, <3>4, GivenUpRests
    <3> QED
      BY <3>3, <3>5
<1>9. DutyOK(p, y.duty, 0, n, t, t)
  <2>1. \A k \in 1 .. Len(p) : x.duty[k].start \in Int /\ x.duty[k].release \in Int
    BY <1>1, DutyTypes
  <2>2. x.last \in Int /\ x.last <= t /\ t # None /\ t \in Time
    BY <1>1 DEF DutyOK, Time, None
  <2>3. ASSUME NEW k \in 1 .. Len(p)
        PROVE  /\ y.duty[k].start <= t
               /\ y.duty[k].release # None => y.duty[k].start # None /\ y.duty[k].start <= y.duty[k].release /\ y.duty[k].release <= t
               /\ k >= n => y.duty[k].start = None
               /\ k < n => (y.duty[k].start # None => y.duty[k].release # None)
    <3>1. /\ x.duty[k].start <= t
          /\ x.duty[k].release # None =>
               x.duty[k].start # None /\ x.duty[k].start <= x.duty[k].release /\ x.duty[k].release <= x.last
          /\ k >= x.next => x.duty[k].start = None
          /\ k < x.next /\ k # x.shift => (x.duty[k].start # None => x.duty[k].release # None)
          /\ k = x.shift => x.duty[k].start # None
      BY <1>1 DEF DutyOK
    <3>2. CASE k = x.shift
      <4>1. y.duty[k].start = x.duty[k].start /\ y.duty[k].release = t
        BY <1>7, <3>2
      <4>2. y.duty[k].start # None /\ y.duty[k].start <= t
        BY <3>1, <3>2, <4>1
      <4>3. k < n /\ ~(k >= n)
        BY <1>4, <1>5, <3>2
      <4>4. y.duty[k].release # None /\ y.duty[k].start <= y.duty[k].release /\ y.duty[k].release <= t
        BY <2>2, <4>1, <4>2
      <4> QED
        BY <4>2, <4>3, <4>4
    <3>3. CASE k # x.shift
      <4>1. y.duty[k].start = x.duty[k].start /\ y.duty[k].release = x.duty[k].release
        BY <1>7, <3>3
      <4>2. k >= n => k >= x.next
        BY <1>4, <1>5
      <4>3. x.duty[k].release # None => x.duty[k].release <= t
        BY <2>1, <2>2, <3>1
      <4>4. k < n => (x.duty[k].start # None => x.duty[k].release # None)
        BY <1>4, <1>5, <3>1, <3>3
      <4> QED
        BY <3>1, <4>1, <4>2, <4>3, <4>4
    <3> QED
      BY <3>2, <3>3
  <2>4. ASSUME NEW k \in 1 .. Len(p) PROVE StartRule(p, y.duty, k)
    <3>1. StartRule(p, x.duty, k)
      BY <1>1 DEF DutyOK
    <3>2. CASE k >= x.next
      <4>1. x.duty[k].start = None
        BY <1>1, <3>2 DEF DutyOK
      <4> QED
        BY <1>7, <4>1 DEF StartRule
    <3>3. CASE k < x.next
      <4>1. \A j \in 1 .. k - 1 : j \in 1 .. Len(p) /\ j # x.shift
        BY <1>4, <3>3
      <4> QED
        BY <1>7, <3>1, <4>1 DEF StartRule
    <3> QED
      BY <1>4, <3>2, <3>3
  <2>5. \E k \in 1 .. Len(p) : y.duty[k].release = t
    BY <1>7
  <2>6. 0 \in 0 .. Len(p) /\ n \in 1 .. Len(p) + 1
    BY <1>4, <1>5
  <2> QED
    BY <1>7, <2>2, <2>3, <2>4, <2>5, <2>6 DEF DutyOK
<1>10. ASSUME NEW k \in 1 .. Len(p), NEW i \in DOMAIN y.rests[k]
       PROVE  i \in DOMAIN x.rests[k] /\ y.rests[k][i].start = x.rests[k][i].start /\ y.rests[k][i].finish = x.rests[k][i].finish
  <2>1. k \in DOMAIN x.rests /\ x.rests[k] \in Seq(BreakRow)
    BY <1>1, ElementOfSeq DEF RestsOK
  <2>2. CASE k < n
    <3>1. y.rests[k] = Unfulfilled(x.rests[k])
      BY <1>6, <2>1, <2>2 DEF GivenUp
    <3> QED
      BY <2>1, <3>1, UnfulfilledIs
  <2>3. CASE ~ (k < n)
    BY <1>6, <2>1, <2>3 DEF GivenUp
  <2> QED
    BY <2>2, <2>3
<1>11. \A k \in 1 .. Len(p) : ReleaseRule(p, y.duty, y.rests, k, ends)
  <2> SUFFICES ASSUME NEW k \in 1 .. Len(p) PROVE ReleaseRule(p, y.duty, y.rests, k, ends)
    OBVIOUS
  <2>0. DOMAIN y.rests[k] = DOMAIN x.rests[k]
    BY <1>1, <1>8 DEF RestsOK
  <2>1. CASE k = x.shift
    BY <1>7, <1>10, <2>0, <2>1 DEF ReleaseRule, MayRelease
  <2>2. CASE k # x.shift
    BY <1>1, <1>7, <1>10, <2>0, <2>2 DEF ReleaseRule
  <2> QED
    BY <2>1, <2>2
<1>12. StateOK(p, y, t)
  <2>1. \A k \in 1 .. Len(p) : \A i \in DOMAIN y.rests[k] : ~Underway(y.rests[k][i])
    BY <1>10 DEF Quiet, Underway
  <2> QED
    BY <1>6, <2>1 DEF StateOK
<1>13. Sound(p, y, t, ends)
  BY <1>6, <1>8, <1>9, <1>11, <1>12 DEF Sound, Past
<1>14. ActivationFrom(p, y, t)
  <2> SUFFICES ASSUME n <= Len(p) PROVE t <= Activation(p, n, t) /\ Activation(p, n, t) < p[n].end
    BY <1>6 DEF ActivationFrom
  <2>1. n \in 1 .. Len(p) /\ p[n].start \in Nat /\ t # None
    BY <1>4, <1>5 DEF PlanOK, None
  <2>2. t <= Activation(p, n, t)
    BY <2>1, WorkforceAssumption DEF Activation, Larger
  <2> QED
    BY <1>5, <2>2
<1>15. x.gone => n = Len(p) + 1
  BY <1>4, <1>5
<1> QED
  BY <1>3, <1>6, <1>13, <1>14, <1>15 DEF OffAt

-----------------------------------------------------------------------------
(* Changes that leave the history as it is *)

SameHistory(x, y) ==
  /\ x \in Employee /\ y \in Employee /\ y.shift = x.shift /\ y.next = x.next /\ y.duty = x.duty /\ y.rests = x.rests
  /\ y.last = x.last /\ y.gone = x.gone

\* What only looks at the history holds as before.
LEMMA HistoryStays ==
  ASSUME NEW p, NEW x, NEW y, SameHistory(x, y), NEW t, NEW ends, Past(p, x, t, ends)
  PROVE  Past(p, y, t, ends)
BY DEF SameHistory, Past

\* A break or a shift to come is scheduled as before.
LEMMA ScheduleStays ==
  ASSUME NEW p, NEW x, NEW y, SameHistory(x, y), NEW b, NEW a
  PROVE  /\ BreakFrom(x, b) => BreakFrom(y, b)
         /\ ActivationFrom(p, x, a) => ActivationFrom(p, y, a)
         /\ Quiet(p, x) => Quiet(p, y)
BY DEF SameHistory, BreakFrom, ActivationFrom, Quiet

\* So is what is due, and the end of the shift.
LEMMA DueTimesStay ==
  ASSUME NEW p, NEW x, NEW y, SameHistory(x, y)
  PROVE  /\ y.basis = x.basis => DueTimes(p, y) = DueTimes(p, x)
         /\ y.basis # "none" => DueTimes(p, y) = {}
<1>1. Pending(y) = Pending(x)
  BY DEF SameHistory, Pending
<1>2. y.basis = x.basis => (AwaitsBreak(y) <=> AwaitsBreak(x))
  BY <1>1 DEF SameHistory, AwaitsBreak
<1>3. \A i : PlannedDue(p, y, i) = PlannedDue(p, x, i)
  BY DEF SameHistory, PlannedDue
<1>4. y.basis = x.basis => DueTimes(p, y) = DueTimes(p, x)
  BY <1>1, <1>2, <1>3, Zenon DEF SameHistory, DueTimes
<1>5. y.basis # "none" => DueTimes(p, y) = {}
  BY DEF DueTimes, AwaitsBreak
<1> QED
  BY <1>4, <1>5

\* Somebody at work without a break may go from one state to another.
MayBecome(p, x, y, t) ==
  /\ SameHistory(x, y) /\ StateOK(p, x, t) /\ Quiet(p, x) /\ x.shift # 0
  /\ y.state \in {"AVAILABLE", "WAITING_FOR_REGISTER", "SERVING", "SERVING_BREAK_DUE", "SERVING_SHIFT_ENDED"}
  /\ y.basis = x.basis \/ (y.basis = "scheduled_shift_end" /\ y.reached) \/ (y.basis = "release_input" /\ t >= Closing)
  /\ y.reached => p[x.shift].end <= t
  /\ x.reached => y.reached
  /\ y.basis # "none" <=> y.state = "SERVING_SHIFT_ENDED"
  /\ y.state = "SERVING_BREAK_DUE" =>
       \E i \in DOMAIN x.rests[x.shift] : Unstarted(x.rests[x.shift][i]) /\ x.rests[x.shift][i].due # None

\* Then what holds of the states still does.
LEMMA StateStays ==
  ASSUME NEW p, NEW x, NEW y, NEW t, MayBecome(p, x, y, t)
  PROVE  StateOK(p, y, t)
BY DEF MayBecome, SameHistory, StateOK, Quiet

\* Only the state of x changes, and where and since when he waits.
Recast(x, y, state) == SameHistory(x, y) /\ y.state = state /\ y.basis = x.basis /\ y.reached = x.reached

WithState(x, s) == [x EXCEPT !.state = s]

Idle(x, t) == [x EXCEPT !.state = "AVAILABLE", !.since = t]

TakesRegister(x, r, t) == [x EXCEPT !.state = "AVAILABLE", !.register = r, !.wait = None, !.since = t]

\* The changes of state are such changes.
LEMMA WithStateIs ==
  ASSUME NEW x \in Employee, NEW s \in BaseStates
  PROVE  Recast(x, WithState(x, s), s)
<1>1. PICK y : y = WithState(x, s)
  OBVIOUS
<1>2. /\ y \in Employee /\ y.shift = x.shift /\ y.next = x.next /\ y.duty = x.duty /\ y.rests = x.rests
      /\ y.last = x.last /\ y.gone = x.gone /\ y.state = s /\ y.basis = x.basis /\ y.reached = x.reached
  BY <1>1 DEF Employee, WithState
<1> QED
  BY <1>1, <1>2 DEF Recast, SameHistory

\* Becoming free is a change of state, from now on.
LEMMA IdleIs ==
  ASSUME NEW x \in Employee, NEW t \in Nat
  PROVE  Recast(x, Idle(x, t), "AVAILABLE") /\ Idle(x, t).since = t
<1>1. PICK y : y = Idle(x, t)
  OBVIOUS
<1>2. t \in Time /\ "AVAILABLE" \in BaseStates
  BY DEF Time, BaseStates, Registered
<1>3. /\ y \in Employee /\ y.shift = x.shift /\ y.next = x.next /\ y.duty = x.duty /\ y.rests = x.rests
      /\ y.last = x.last /\ y.gone = x.gone /\ y.state = "AVAILABLE" /\ y.basis = x.basis /\ y.reached = x.reached
      /\ y.since = t
  BY <1>1, <1>2 DEF Employee, Idle
<1> QED
  BY <1>1, <1>3 DEF Recast, SameHistory

\* So is joining those who wait for a register.
LEMMA JoinWaitIs ==
  ASSUME NEW x \in Employee, NEW t \in Nat
  PROVE  Recast(x, JoinWait(x, t), "WAITING_FOR_REGISTER")
<1>1. PICK y : y = JoinWait(x, t)
  OBVIOUS
<1>2. t \in Time /\ "WAITING_FOR_REGISTER" \in BaseStates
  BY DEF Time, BaseStates
<1>3. /\ y \in Employee /\ y.shift = x.shift /\ y.next = x.next /\ y.duty = x.duty /\ y.rests = x.rests
      /\ y.last = x.last /\ y.gone = x.gone /\ y.state = "WAITING_FOR_REGISTER" /\ y.basis = x.basis
      /\ y.reached = x.reached
  BY <1>1, <1>2 DEF Employee, JoinWait
<1> QED
  BY <1>1, <1>3 DEF Recast, SameHistory

\* So is taking a register, which makes the employee free from now on.
LEMMA TakesRegisterIs ==
  ASSUME NEW x \in Employee, NEW r \in Nat, NEW t \in Nat
  PROVE  Recast(x, TakesRegister(x, r, t), "AVAILABLE") /\ TakesRegister(x, r, t).since = t
<1>1. PICK y : y = TakesRegister(x, r, t)
  OBVIOUS
<1>2. t \in Time /\ "AVAILABLE" \in BaseStates /\ None \in Time
  BY DEF Time, BaseStates, Registered
<1>3. /\ y \in Employee /\ y.shift = x.shift /\ y.next = x.next /\ y.duty = x.duty /\ y.rests = x.rests
      /\ y.last = x.last /\ y.gone = x.gone /\ y.state = "AVAILABLE" /\ y.basis = x.basis /\ y.reached = x.reached
      /\ y.since = t
  BY <1>1, <1>2 DEF Employee, TakesRegister
<1> QED
  BY <1>1, <1>3 DEF Recast, SameHistory

\* The end of the shift has passed; the shift is over by schedule.
Passed(x) == [x EXCEPT !.reached = TRUE]

Over(x) == [x EXCEPT !.basis = "scheduled_shift_end"]

\* The end of a shift that has passed is noted, and nothing else.
LEMMA PassedIs ==
  ASSUME NEW x \in Employee
  PROVE  SameHistory(x, Passed(x)) /\ Passed(x).state = x.state /\ Passed(x).basis = x.basis /\ Passed(x).reached
<1>1. PICK y : y = Passed(x)
  OBVIOUS
<1>2. /\ y \in Employee /\ y.shift = x.shift /\ y.next = x.next /\ y.duty = x.duty /\ y.rests = x.rests
      /\ y.last = x.last /\ y.gone = x.gone /\ y.state = x.state /\ y.basis = x.basis /\ y.reached
  BY <1>1 DEF Employee, Passed
<1> QED
  BY <1>1, <1>2 DEF SameHistory

\* That it ends the shift is noted, and nothing else.
LEMMA OverIs ==
  ASSUME NEW x \in Employee
  PROVE  SameHistory(x, Over(x)) /\ Over(x).state = x.state /\ Over(x).basis = "scheduled_shift_end"
           /\ Over(x).reached = x.reached
<1>1. PICK y : y = Over(x)
  OBVIOUS
<1>2. /\ y \in Employee /\ y.shift = x.shift /\ y.next = x.next /\ y.duty = x.duty /\ y.rests = x.rests
      /\ y.last = x.last /\ y.gone = x.gone /\ y.state = x.state /\ y.basis = "scheduled_shift_end" /\ y.reached = x.reached
  BY <1>1 DEF Employee, Over
<1> QED
  BY <1>1, <1>2 DEF SameHistory

-----------------------------------------------------------------------------
(* The stages of an instant before closing *)

\* x after a stage of instant t before closing; his shift's end, his break, a break to come and a shift to
\* come are not before e, b, d and a.
Fit(p, x, t, ends, e, b, d, a) == Sound(p, x, t, ends) /\ Settled(x) /\ ~x.gone /\ Ahead(p, x, e, b, d, a)

\* Who is not on a break has none going on.
LEMMA NoBreakGoesOn ==
  ASSUME NEW p, NEW x, NEW t, NEW ends, Sound(p, x, t, ends), x.state # "ON_BREAK"
  PROVE  Quiet(p, x)
BY DEF Sound, StateOK, Quiet

\* A service ends: the employee is free, goes on a break that waited, or home when the shift was over.
LEMMA CompletionKeeps ==
  ASSUME NEW p, PlanOK(p), NEW x, NEW t \in Nat, t < Closing, NEW ends, t \in ends, x.state \in Serving,
         Fit(p, x, t, ends, t, t, t, t)
  PROVE  Fit(p, Complete(p, x, t, FALSE), t, ends, t, t, t, t) /\ Complete(p, x, t, FALSE).state \notin Serving
<1>1. PICK y : y = Complete(p, x, t, FALSE)
  OBVIOUS
<1>2. /\ x \in Employee /\ Past(p, x, t, ends) /\ StateOK(p, x, t) /\ Settled(x) /\ ~x.gone /\ Sound(p, x, t, ends)
      /\ EndFrom(p, x, t) /\ BreakFrom(x, t) /\ DueFrom(p, x, t) /\ ActivationFrom(p, x, t)
  BY DEF Fit, Sound, Ahead
<1>3. x.state # "ON_BREAK" /\ x.state # "OFF"
  BY DEF Serving
<1>4. Quiet(p, x) /\ x.shift # 0 /\ x.shift \in 1 .. Len(p)
  <2>1. x.shift # 0
    BY <1>2, <1>3 DEF StateOK
  <2>2. x.shift \in 0 .. Len(p) /\ Len(p) \in Nat
    BY <1>2 DEF Past, DutyOK, PlanOK
  <2>3. Quiet(p, x)
    BY <1>2, <1>3, NoBreakGoesOn
  <2> QED
    BY <2>1, <2>2, <2>3
<1>5. x.basis # "none" => x.reached /\ p[x.shift].end <= t
  BY <1>2, <1>4, NamedDayAssumption DEF StateOK, Employee
<1>6. CASE x.state = "SERVING"
  <2>1. y = Idle(x, t)
    BY <1>1, <1>6 DEF Complete, Idle
  <2>2. Recast(x, y, "AVAILABLE")
    BY <1>2, <2>1, IdleIs
  <2>3. SameHistory(x, y) /\ y.state = "AVAILABLE" /\ y.basis = x.basis /\ y.reached = x.reached
    BY <2>2 DEF Recast
  <2>4. x.basis = "none"
    BY <1>2, <1>6 DEF StateOK
  <2>5. Past(p, y, t, ends)
    BY <1>2, <2>3, HistoryStays
  <2>6. StateOK(p, y, t)
    <3>1. x.reached => p[x.shift].end <= t
      BY <1>2, <1>4 DEF StateOK
    <3>2. MayBecome(p, x, y, t)
      BY <1>2, <1>4, <2>3, <2>4, <3>1 DEF MayBecome
    <3> QED
      BY <3>2, StateStays
  <2>7. Settled(y)
    BY <1>2, <1>6, <2>3, <2>4 DEF Settled, SameHistory
  <2>8. BreakFrom(y, t) /\ ActivationFrom(p, y, t)
    BY <1>2, <2>3, ScheduleStays
  <2>9. DueFrom(p, y, t)
    BY <1>2, <2>3, DueTimesStay DEF DueFrom
  <2>10. EndFrom(p, y, t)
    BY <1>2, <2>3 DEF EndFrom, SameHistory
  <2>11. y \in Employee /\ ~y.gone
    BY <1>2, <2>3 DEF SameHistory
  <2> QED
    BY <1>1, <2>3, <2>5, <2>6, <2>7, <2>8, <2>9, <2>10, <2>11 DEF Fit, Sound, Ahead, Serving
<1>7. CASE x.state = "SERVING_BREAK_DUE"
  <2>1. y = StartBreak(x, t)
    BY <1>1, <1>7 DEF Complete
  <2>2. PICK i \in Nat : Ready(x, i) /\ x.rests[x.shift][i].due # None
    BY <1>2, <1>7, WaitingBreak
  <2>3. i \in DOMAIN x.rests[x.shift]
    BY <2>2 DEF Ready, FirstPending
  <2>4. PICK d : d = x.rests[x.shift][i].due
    OBVIOUS
  <2>5. /\ RowOK(x.rests[x.shift][i], t)
        /\ BreakRule(x.duty[x.shift].start, p[x.shift], x.rests[x.shift], i, ends)
    BY <1>2, <1>4, <2>3 DEF Past, RestsOK, RowsOK
  <2>6. d \in Nat /\ d <= t
    BY <2>2, <2>4, <2>5 DEF RowOK, BreakRow, Time, None
  <2>7. DueAt(x.duty[x.shift].start, p[x.shift], x.rests[x.shift], i, d)
    BY <2>2, <2>4, <2>5 DEF BreakRule, DueAt
  <2>8. x.basis = "none" /\ (x.reached => p[x.shift].end <= t)
    BY <1>2, <1>4, <1>7 DEF StateOK
  <2>9. x.rests[x.shift][i].due = d /\ (d = t \/ (d < t /\ t \in ends))
    BY <2>4, <2>6
  <2>10. /\ Sound(p, y, t, ends) /\ Settled(y) /\ Alike(x, y) /\ y.state = "ON_BREAK"
         /\ BreakFrom(y, t + 1) /\ DueFrom(p, y, t + 1)
    BY <1>2, <1>4, <2>1, <2>2, <2>6, <2>7, <2>8, <2>9, StartBreakKeeps
  <2>11. BreakFrom(y, t)
    <3>1. DutyOK(p, y.duty, y.shift, y.next, y.last, t) /\ RestsOK(p, y.duty, y.rests, y.shift, y.next, t, ends)
      BY <2>10 DEF Sound, Past
    <3>2. y.shift # 0 => \A j \in DOMAIN y.rests[y.shift] : y.rests[y.shift][j].start \in Int
      <4>1. y.shift # 0 => y.shift \in 1 .. Len(p)
        BY <3>1 DEF DutyOK, PlanOK
      <4> QED
        BY <3>1, <4>1 DEF RestsOK, RowsOK, RowOK, BreakRow, Time, None
    <3> QED
      BY <2>10, <3>2, WorkforceAssumption DEF BreakFrom
  <2>12. DueFrom(p, y, t)
    BY <2>10, DueBreak DEF DueFrom
  <2>13. EndFrom(p, y, t) /\ ActivationFrom(p, y, t) /\ ~y.gone
    BY <1>2, <1>4, <2>10 DEF EndFrom, ActivationFrom, Alike
  <2> QED
    BY <1>1, <2>10, <2>11, <2>12, <2>13 DEF Fit, Ahead, Serving
<1>8. CASE x.state = "SERVING_SHIFT_ENDED"
  <2>1. y = GoOff(p, x, t)
    BY <1>1, <1>8 DEF Complete
  <2>2. p[x.shift].end <= t /\ p[x.shift].end \in Nat
    BY <1>2, <1>4, <1>5, <1>8 DEF StateOK, PlanOK
  <2>3. MayRelease(p, x, t, ends)
    BY <2>2 DEF MayRelease
  <2>4. OffAt(p, x, t, ends, y)
    BY <1>2, <1>4, <2>1, <2>3, GoOffKeeps
  <2>5. DueTimes(p, y) = {}
    BY <2>4 DEF OffAt, DueTimes, AwaitsBreak, Pending
  <2> QED
    BY <1>1, <1>2, <2>4, <2>5 DEF OffAt, Fit, Ahead, Settled, EndFrom, BreakFrom, DueFrom, Serving
<1> QED
  BY <1>6, <1>7, <1>8 DEF Serving

\* Later is later: what is not before t + 1 is not before t.
LEMMA OffFits ==
  ASSUME NEW p, NEW x, ~x.gone, NEW t \in Nat, NEW ends, NEW y, OffAt(p, x, t, ends, y), NEW e, NEW b, NEW d
  PROVE  Fit(p, y, t, ends, e, b, d, t)
<1>1. DueTimes(p, y) = {}
  BY DEF OffAt, DueTimes, AwaitsBreak, Pending
<1> QED
  BY <1>1 DEF OffAt, Fit, Ahead, Settled, EndFrom, BreakFrom, DueFrom

\* The end of a shift: who is idle goes home, who serves or rests will.
LEMMA ShiftEndKeeps ==
  ASSUME NEW p, PlanOK(p), NEW x, NEW t \in Nat, t < Closing, NEW ends, Fit(p, x, t, ends, t, t, t, t)
  PROVE  Fit(p, ShiftEnd(p, x, t, FALSE), t, ends, t + 1, t, t, t)
<1>1. PICK y : y = ShiftEnd(p, x, t, FALSE)
  OBVIOUS
<1>2. /\ x \in Employee /\ Past(p, x, t, ends) /\ StateOK(p, x, t) /\ Settled(x) /\ ~x.gone /\ Sound(p, x, t, ends)
      /\ EndFrom(p, x, t) /\ BreakFrom(x, t) /\ DueFrom(p, x, t) /\ ActivationFrom(p, x, t)
  BY DEF Fit, Sound, Ahead
<1>3. x.shift \in 0 .. Len(p) /\ Len(p) \in Nat /\ (x.shift # 0 => x.shift \in 1 .. Len(p) /\ p[x.shift].end \in Nat)
  BY <1>2 DEF Past, DutyOK, PlanOK
<1>4. CASE x.shift = 0 \/ x.reached \/ p[x.shift].end # t
  <2>1. y = x
    BY <1>1, <1>4 DEF ShiftEnd
  <2>2. EndFrom(p, x, t + 1)
    BY <1>2, <1>3, <1>4 DEF EndFrom
  <2> QED
    BY <1>1, <1>2, <2>1, <2>2 DEF Fit, Ahead
<1>5. CASE x.shift # 0 /\ ~x.reached /\ p[x.shift].end = t
  <2>1. x.basis = "none"
    BY <1>2, <1>5, NamedDayAssumption DEF StateOK, Employee
  <2>2. PICK due : due = Over(Passed(x))
    OBVIOUS
  <2>3. /\ SameHistory(x, due) /\ due.state = x.state /\ due.basis = "scheduled_shift_end" /\ due.reached
    <3>1. PICK z : z = Passed(x)
      OBVIOUS
    <3>2. SameHistory(x, z) /\ z.state = x.state /\ z.reached /\ z \in Employee
      BY <1>2, <3>1, PassedIs DEF SameHistory
    <3>3. SameHistory(z, due) /\ due.state = z.state /\ due.basis = "scheduled_shift_end" /\ due.reached = z.reached
      BY <2>2, <3>1, <3>2, OverIs
    <3> QED
      BY <3>2, <3>3 DEF SameHistory
  <2>4. y = IF x.state \in {"AVAILABLE", "WAITING_FOR_REGISTER"} THEN GoOff(p, due, t)
            ELSE IF x.state \in Serving THEN WithState(due, "SERVING_SHIFT_ENDED")
            ELSE due
    BY <1>1, <1>5, <2>1, <2>2, Zenon DEF ShiftEnd, Passed, Over, WithState
  <2>5. Past(p, due, t, ends) /\ due \in Employee /\ due.shift = x.shift /\ ~due.gone /\ due.rests = x.rests
    BY <1>2, <2>3, HistoryStays DEF SameHistory
  <2>6. CASE x.state \in {"AVAILABLE", "WAITING_FOR_REGISTER"}
    <3>1. x.state # "ON_BREAK"
      BY <2>6
    <3>2. Quiet(p, x)
      BY <1>2, <3>1, NoBreakGoesOn
    <3>3. Quiet(p, due)
      BY <2>3, <3>2, ScheduleStays
    <3>4. MayRelease(p, due, t, ends)
      BY <1>5, <2>5 DEF MayRelease
    <3>5. due.shift \in 1 .. Len(p)
      BY <1>3, <1>5, <2>5
    <3>6. OffAt(p, due, t, ends, GoOff(p, due, t))
      BY <2>5, <3>3, <3>4, <3>5, GoOffKeeps
    <3>7. y = GoOff(p, due, t)
      BY <2>4, <2>6
    <3> QED
      BY <1>1, <2>5, <3>6, <3>7, OffFits
  <2>7. CASE x.state \in Serving
    <3>1. y = WithState(due, "SERVING_SHIFT_ENDED")
      BY <2>4, <2>7 DEF Serving
    <3>2. "SERVING_SHIFT_ENDED" \in BaseStates
      BY DEF BaseStates, Registered
    <3>3. Recast(due, y, "SERVING_SHIFT_ENDED")
      BY <2>5, <3>1, <3>2, WithStateIs
    <3>4. /\ SameHistory(x, y) /\ y.state = "SERVING_SHIFT_ENDED" /\ y.basis = "scheduled_shift_end" /\ y.reached
      BY <2>3, <3>3 DEF Recast, SameHistory
    <3>5. Past(p, y, t, ends) /\ BreakFrom(y, t) /\ ActivationFrom(p, y, t)
      BY <1>2, <3>4, HistoryStays, ScheduleStays
    <3>6. x.state # "ON_BREAK"
      BY <2>7 DEF Serving
    <3>7. Quiet(p, x)
      BY <1>2, <3>6, NoBreakGoesOn
    <3>8. MayBecome(p, x, y, t)
      BY <1>2, <1>5, <3>4, <3>7 DEF MayBecome
    <3>9. StateOK(p, y, t)
      BY <3>8, StateStays
    <3>10. DueTimes(p, y) = {}
      BY <3>4, DueTimesStay
    <3>11. y \in Employee /\ ~y.gone
      BY <1>2, <3>4 DEF SameHistory
    <3> QED
      BY <1>1, <3>4, <3>5, <3>9, <3>10, <3>11 DEF Fit, Sound, Settled, Ahead, EndFrom, DueFrom
  <2>8. CASE x.state \notin {"AVAILABLE", "WAITING_FOR_REGISTER"} \cup Serving
    <3>1. y = due
      BY <2>4, <2>8
    <3>2. x.state = "ON_BREAK"
      <4>1. x.state \in BaseStates /\ x.state # "OFF"
        BY <1>2, <1>5 DEF StateOK, Employee
      <4> QED
        BY <2>8, <4>1 DEF BaseStates, Registered, Serving
    <3>3. BreakFrom(y, t) /\ ActivationFrom(p, y, t) /\ DueTimes(p, y) = {}
      BY <1>2, <2>3, <3>1, ScheduleStays, DueTimesStay
    <3>4. StateOK(p, y, t)
      BY <1>2, <1>5, <2>3, <3>1, <3>2 DEF StateOK, SameHistory
    <3> QED
      BY <1>1, <2>3, <2>5, <3>1, <3>3, <3>4 DEF Fit, Sound, Settled, Ahead, EndFrom, DueFrom
  <2> QED
    BY <2>6, <2>7, <2>8
<1> QED
  BY <1>4, <1>5

\* The breaks of x become these.
WithRests(x, rests) == [x EXCEPT !.rests = rests]

\* Nothing else changes.
LEMMA WithRestsIs ==
  ASSUME NEW x \in Employee, NEW rests \in Seq(Seq(BreakRow))
  PROVE  Alike(x, WithRests(x, rests)) /\ WithRests(x, rests).state = x.state /\ WithRests(x, rests).rests = rests
<1>1. PICK y : y = WithRests(x, rests)
  OBVIOUS
<1>2. /\ y \in Employee /\ y.shift = x.shift /\ y.next = x.next /\ y.duty = x.duty /\ y.last = x.last
      /\ y.basis = x.basis /\ y.reached = x.reached /\ y.gone = x.gone /\ y.state = x.state /\ y.rests = rests
  BY <1>1 DEF Employee, WithRests
<1> QED
  BY <1>1, <1>2 DEF Alike

\* A row that ends, field by field.
LEMMA RowEnds ==
  ASSUME NEW row \in BreakRow, NEW t \in Nat, NEW outcome \in {"completed", "truncated_by_closing"}
  PROVE  [row EXCEPT !.finish = t, !.outcome = outcome] = Row(row.due, row.start, t, outcome)
<1>1. t \in Time
  BY DEF Time
<1>2. PICK new : new = [row EXCEPT !.finish = t, !.outcome = outcome]
  OBVIOUS
<1>3. new \in BreakRow /\ new.due = row.due /\ new.start = row.start /\ new.finish = t /\ new.outcome = outcome
  BY <1>1, <1>2 DEF BreakRow
<1>4. new = [due |-> new.due, start |-> new.start, finish |-> new.finish, outcome |-> new.outcome]
  BY <1>3 DEF BreakRow
<1> QED
  BY <1>2, <1>3, <1>4 DEF Row

\* A break of length BreakLength ends at t, or one cut by closing.
StopsAt(row, t, outcome) ==
  \/ outcome = "completed" /\ t = row.start + BreakLength
  \/ outcome = "truncated_by_closing" /\ t = Closing /\ Closing <= row.start + BreakLength

Current(x, i) == i = CurrentBreak(x)

\* y is x after his break i.
AfterBreak(p, x, t, ends, i, y) ==
  /\ Past(p, y, t, ends) /\ Alike(x, y) /\ y.state = x.state /\ Quiet(p, y)
  /\ i \in DOMAIN y.rests[y.shift] /\ y.rests[y.shift][i].finish = t
  /\ \A j \in DOMAIN y.rests[y.shift] : j < i => ~Unstarted(y.rests[y.shift][j])
  /\ \A j \in DOMAIN y.rests[y.shift] : j > i => y.rests[y.shift][j].due = None /\ y.rests[y.shift][j].finish = None

\* Break i of x with its end.
Stopped(x, i, t, outcome) ==
  WithRests(x, Noted(x, i, [x.rests[x.shift][i] EXCEPT !.finish = t, !.outcome = outcome]))

\* The end of a break keeps the rules; the breaks after it wait for their times.
LEMMA BreakOver ==
  ASSUME NEW p, PlanOK(p), NEW x, NEW t \in Nat, NEW ends, Sound(p, x, t, ends), x.state = "ON_BREAK",
         NEW i, Current(x, i), NEW outcome, StopsAt(x.rests[x.shift][i], t, outcome)
  PROVE  AfterBreak(p, x, t, ends, i, Stopped(x, i, t, outcome))
<1>1. /\ x.shift \in 1 .. Len(p) /\ i \in DOMAIN x.rests[x.shift] /\ Underway(x.rests[x.shift][i])
  BY CurrentIs DEF Current
<1>2. /\ x \in Employee /\ Past(p, x, t, ends) /\ StateOK(p, x, t)
      /\ RestsOK(p, x.duty, x.rests, x.shift, x.next, t, ends) /\ DutyOK(p, x.duty, x.shift, x.next, x.last, t)
      /\ \A k \in 1 .. Len(p) : ReleaseRule(p, x.duty, x.rests, k, ends)
  BY DEF Sound, Past
<1>3. x.shift # 0 /\ x.next \in Int /\ x.shift < x.next /\ x.shift \in Nat /\ Len(p) \in Nat
  BY <1>1, <1>2 DEF DutyOK, PlanOK
<1>4. x.rests \in Seq(Seq(BreakRow)) /\ x.shift \in DOMAIN x.rests /\ RowsOK(x.rests[x.shift], t)
  BY <1>1, <1>2 DEF RestsOK
<1>5. PICK row : row = x.rests[x.shift][i]
  OBVIOUS
<1>6. row \in BreakRow /\ outcome \in {"completed", "truncated_by_closing"} /\ StopsAt(row, t, outcome)
  BY <1>1, <1>4, <1>5 DEF RowsOK, RowOK, StopsAt
<1>7. PICK new : new = Row(row.due, row.start, t, outcome)
  OBVIOUS
<1>8. new = [row EXCEPT !.finish = t, !.outcome = outcome]
  BY <1>6, <1>7, RowEnds
<1>9. new \in BreakRow /\ new.due = row.due /\ new.start = row.start /\ new.finish = t /\ t # None
  BY <1>6, <1>7 DEF Row, BreakRow, Time, None
<1>10. PICK other : other = Noted(x, i, new)
  OBVIOUS
<1>11. RowPut(x.rests, x.shift, i, new, other)
  BY <1>10 DEF RowPut, Noted
<1>12. /\ other \in Seq(Seq(BreakRow))
       /\ \A k \in DOMAIN x.rests : k # x.shift => other[k] = x.rests[k]
       /\ DOMAIN other[x.shift] = DOMAIN x.rests[x.shift] /\ other[x.shift][i] = new
       /\ \A j \in DOMAIN x.rests[x.shift] : j # i => other[x.shift][j] = x.rests[x.shift][j]
  BY <1>1, <1>4, <1>9, <1>11, RowPutIs
<1>13. PICK y : y = Stopped(x, i, t, outcome)
  OBVIOUS
<1>14. Alike(x, y) /\ y.state = x.state /\ y.rests = other
  <2>1. y = WithRests(x, other)
    BY <1>5, <1>8, <1>10, <1>13 DEF Stopped
  <2> QED
    BY <1>2, <1>12, <2>1, WithRestsIs
<1>15. RestsOK(p, x.duty, other, x.shift, x.next, t, ends)
  <2>1. RowPut(x.rests, x.shift, i, Row(x.rests[x.shift][i].due, x.rests[x.shift][i].start, t, outcome), other)
    BY <1>5, <1>7, <1>11
  <2>2. \/ outcome = "completed" /\ t = x.rests[x.shift][i].start + BreakLength
        \/ outcome = "truncated_by_closing" /\ t = Closing /\ Closing <= x.rests[x.shift][i].start + BreakLength
    BY DEF StopsAt
  <2> QED
    BY <1>1, <1>2, <1>3, <2>1, <2>2, BreakStops
<1>16. \A k \in 1 .. Len(p) : ReleaseRule(p, x.duty, other, k, ends)
  <2> SUFFICES ASSUME NEW k \in 1 .. Len(p) PROVE ReleaseRule(p, x.duty, other, k, ends)
    OBVIOUS
  <2>1. CASE k = x.shift
    BY <1>2, <2>1 DEF ReleaseRule, DutyOK
  <2>2. CASE k # x.shift
    <3>1. other[k] = x.rests[k]
      BY <1>2, <1>12, <2>2 DEF RestsOK
    <3> QED
      BY <1>2, <3>1 DEF ReleaseRule
  <2> QED
    BY <2>1, <2>2
<1>17. Past(p, y, t, ends)
  BY <1>2, <1>14, <1>15, <1>16 DEF Past, Alike
<1>18. PICK m \in Nat : DOMAIN x.rests[x.shift] = 1 .. m
  BY <1>1, <1>2 DEF RestsOK, PlanOK
<1>19. /\ \A j \in 1 .. m : RowOK(x.rests[x.shift][j], t)
       /\ \A j, l \in 1 .. m : j < l /\ x.rests[x.shift][l].due # None => x.rests[x.shift][j].finish # None
       /\ i \in 1 .. m
  BY <1>1, <1>4, <1>18 DEF RowsOK
<1>20. ASSUME NEW j \in 1 .. m, j < i PROVE ~Unstarted(x.rests[x.shift][j]) /\ ~Underway(x.rests[x.shift][j])
  <2>1. x.rests[x.shift][i].due # None
    BY <1>1, <1>19 DEF Underway, RowOK
  <2>2. x.rests[x.shift][j].finish # None
    BY <1>19, <1>20, <2>1
  <2> QED
    BY <1>19, <2>2 DEF Unstarted, Underway, RowOK
<1>21. ASSUME NEW j \in 1 .. m, j > i
       PROVE  x.rests[x.shift][j].due = None /\ x.rests[x.shift][j].finish = None /\ ~Underway(x.rests[x.shift][j])
  <2>1. x.rests[x.shift][j].due = None
    BY <1>1, <1>19, <1>21 DEF Underway
  <2> QED
    BY <1>19, <2>1 DEF Underway, RowOK
<1>22. Quiet(p, y)
  <2> SUFFICES ASSUME NEW k \in 1 .. Len(p), NEW j \in DOMAIN other[k] PROVE ~Underway(other[k][j])
    BY <1>14 DEF Quiet
  <2>1. CASE k = x.shift /\ j = i
    BY <1>9, <1>12, <2>1 DEF Underway
  <2>2. CASE k = x.shift /\ j # i
    <3>1. j \in 1 .. m /\ (j < i \/ j > i) /\ other[k][j] = x.rests[x.shift][j]
      BY <1>12, <1>18, <1>19, <2>2
    <3> QED
      BY <1>20, <1>21, <3>1
  <2>3. CASE k # x.shift
    <3>1. other[k] = x.rests[k]
      BY <1>2, <1>12, <2>3 DEF RestsOK
    <3> QED
      BY <1>2, <2>3, <3>1 DEF StateOK
  <2> QED
    BY <2>1, <2>2, <2>3
<1>23. y.shift = x.shift
  BY <1>14 DEF Alike
<1>24. i \in DOMAIN other[x.shift] /\ other[x.shift][i].finish = t
  BY <1>1, <1>9, <1>12
<1>25. /\ \A j \in DOMAIN other[x.shift] : j < i => ~Unstarted(other[x.shift][j])
       /\ \A j \in DOMAIN other[x.shift] : j > i => other[x.shift][j].due = None /\ other[x.shift][j].finish = None
  <2>1. \A j \in 1 .. m : j # i => other[x.shift][j] = x.rests[x.shift][j]
    BY <1>12, <1>18
  <2>2. DOMAIN other[x.shift] = 1 .. m
    BY <1>12, <1>18
  <2>3. \A j \in 1 .. m : (j < i \/ j > i) => j # i
    BY <1>19
  <2> QED
    BY <1>20, <1>21, <2>1, <2>2, <2>3
<1> QED
  BY <1>13, <1>14, <1>17, <1>22, <1>23, <1>24, <1>25 DEF AfterBreak

\* Who comes from a break waits for a register.
BackAt(p, x, t, ends, y) ==
  /\ Sound(p, y, t, ends) /\ Settled(y) /\ Quiet(p, y) /\ DueFrom(p, y, t)
  /\ y.shift = x.shift /\ y.shift # 0 /\ y.gone = x.gone /\ y.reached = x.reached

\* The end of a break: back to wait for a register, or home when the shift was over meanwhile.
LEMMA EndBreakKeeps ==
  ASSUME NEW p, PlanOK(p), NEW x, NEW t \in Nat, NEW ends, Sound(p, x, t, ends), x.state = "ON_BREAK",
         NEW i, Current(x, i), NEW outcome, StopsAt(x.rests[x.shift][i], t, outcome)
  PROVE  /\ x.basis # "none" => OffAt(p, Stopped(x, i, t, outcome), t, ends, EndBreak(p, x, t, outcome))
         /\ x.basis = "none" => BackAt(p, x, t, ends, EndBreak(p, x, t, outcome))
<1>1. PICK z : z = Stopped(x, i, t, outcome)
  OBVIOUS
<1>2. AfterBreak(p, x, t, ends, i, z)
  BY <1>1, BreakOver
<1>3. EndBreak(p, x, t, outcome) = IF x.basis # "none" THEN GoOff(p, z, t) ELSE JoinWait(z, t)
  <2>1. z = [x EXCEPT !.rests = Noted(x, CurrentBreak(x), [x.rests[x.shift][CurrentBreak(x)] EXCEPT !.finish = t, !.outcome = outcome])]
    BY <1>1, Zenon DEF Stopped, WithRests, Current
  <2> QED
    BY <2>1, Zenon DEF EndBreak
<1>4. x.shift \in 1 .. Len(p) /\ x.shift # 0
  <2>1. x.shift \in 1 .. Len(p) /\ Len(p) \in Nat
    BY CurrentIs DEF PlanOK
  <2> QED
    BY <2>1
<1>5. /\ z \in Employee /\ z.shift = x.shift /\ z.basis = x.basis /\ z.reached = x.reached /\ z.gone = x.gone
      /\ Past(p, z, t, ends) /\ Quiet(p, z) /\ z.state = x.state
  BY <1>2 DEF AfterBreak, Alike
<1>6. StateOK(p, x, t)
  BY DEF Sound
<1>7. CASE x.basis # "none"
  <2>1. p[x.shift].end <= t \/ t >= Closing
    BY <1>4, <1>5, <1>6, <1>7 DEF StateOK, Employee
  <2>2. MayRelease(p, z, t, ends)
    <3>1. i \in DOMAIN z.rests[z.shift] /\ z.rests[z.shift][i].finish = t
      BY <1>2 DEF AfterBreak
    <3>2. p[z.shift].end \in Nat
      BY <1>4, <1>5 DEF PlanOK
    <3> QED
      BY <1>5, <2>1, <3>1, <3>2 DEF MayRelease
  <2>3. OffAt(p, z, t, ends, GoOff(p, z, t))
    BY <1>4, <1>5, <2>2, GoOffKeeps
  <2> QED
    BY <1>1, <1>3, <1>7, <2>3
<1>8. CASE x.basis = "none"
  <2>1. PICK y : y = JoinWait(z, t)
    OBVIOUS
  <2>2. Recast(z, y, "WAITING_FOR_REGISTER")
    BY <1>5, <2>1, JoinWaitIs
  <2>3. SameHistory(z, y) /\ y.state = "WAITING_FOR_REGISTER" /\ y.basis = "none" /\ y.reached = x.reached /\ y \in Employee
    BY <1>5, <1>8, <2>2 DEF Recast, SameHistory
  <2>4. Past(p, y, t, ends) /\ Quiet(p, y)
    BY <1>5, <2>3, HistoryStays, ScheduleStays
  <2>5. y.shift = x.shift /\ y.gone = x.gone /\ y.rests = z.rests
    BY <1>5, <2>3 DEF SameHistory
  <2>6. StateOK(p, y, t)
    <3>1. \A k \in 1 .. Len(p) : \A j \in DOMAIN y.rests[k] : ~Underway(y.rests[k][j])
      BY <2>4 DEF Quiet
    <3>2. x.reached => p[x.shift].end <= t
      BY <1>4, <1>6 DEF StateOK
    <3> QED
      BY <1>4, <2>3, <2>5, <3>1, <3>2 DEF StateOK
  <2>7. PICK m \in Nat : DOMAIN y.rests[x.shift] = 1 .. m
    BY <1>4, <2>4 DEF Past, RestsOK, PlanOK
  <2>8. /\ i \in 1 .. m /\ y.rests[x.shift][i].finish = t
        /\ \A j \in 1 .. m : j < i => ~Unstarted(y.rests[x.shift][j])
        /\ \A j \in 1 .. m : j > i => y.rests[x.shift][j].due = None /\ y.rests[x.shift][j].finish = None
    <3>1. z.shift = x.shift /\ DOMAIN z.rests[x.shift] = 1 .. m
      BY <1>5, <2>5, <2>7
    <3> QED
      BY <1>2, <2>5, <3>1 DEF AfterBreak
  <2>9. \A j \in 1 .. m : RowOK(y.rests[x.shift][j], t)
    BY <1>4, <2>4, <2>5, <2>7 DEF Past, RestsOK, RowsOK
  <2>10. ~Unstarted(y.rests[x.shift][i])
    BY <2>8, <2>9 DEF Unstarted, RowOK, None
  <2>11. Settled(y)
    <3>1. ASSUME NEW j \in 1 .. m, Unstarted(y.rests[x.shift][j]) PROVE y.rests[x.shift][j].due = None
      <4>1. j > i
        BY <2>8, <2>10, <3>1
      <4> QED
        BY <2>8, <4>1
    <3> QED
      BY <2>5, <2>7, <3>1 DEF Settled
  <2>12. Sound(p, y, t, ends)
    BY <2>3, <2>4, <2>6 DEF Sound
  <2>13. ASSUME NEW v \in DueTimes(p, y) PROVE t <= v
    <3>1. PICK j \in Nat : Ready(y, j) /\ DueAt(y.duty[y.shift].start, p[y.shift], y.rests[y.shift], j, v)
      BY <2>12, <2>13, DueBreak
    <3>3. /\ j \in 1 .. m /\ Unstarted(y.rests[x.shift][j])
          /\ \A l \in 1 .. m : l < j => y.rests[x.shift][l].finish # None
      BY <2>5, <2>7, <3>1 DEF Ready, FirstPending
    <3>4. j > i
      BY <2>8, <2>10, <3>3
    <3>5. j - 1 = i
      <4>1. j - 1 \in 1 .. m /\ j - 1 < j
        BY <2>8, <3>3, <3>4
      <4>2. y.rests[x.shift][j - 1].finish # None
        BY <3>3, <4>1
      <4>3. ~ (j - 1 > i)
        BY <2>8, <4>1, <4>2
      <4> QED
        BY <2>8, <3>3, <3>4, <4>3
    <3>6. PICK d : d = y.duty[x.shift].start + p[x.shift].breaks[j] - p[x.shift].start
      OBVIOUS
    <3>7. v = Larger(d, t + Gap)
      <4>1. v = DueRule(y.duty[x.shift].start, p[x.shift], y.rests[x.shift], j) /\ j # 1
        BY <2>5, <2>8, <3>1, <3>4 DEF DueAt
      <4>2. y.rests[x.shift][j - 1].finish = t
        BY <2>8, <3>5
      <4> QED
        BY <3>6, <4>1, <4>2 DEF DueRule
    <3>8. d \in Int
      <4>1. DutyOK(p, y.duty, y.shift, y.next, y.last, t)
        BY <2>4 DEF Past
      <4>2. y.duty[x.shift].start \in Int
        BY <1>4, <4>1, DutyTypes
      <4>3. DOMAIN p[x.shift].breaks = 1 .. m
        BY <1>4, <2>4, <2>5, <2>7 DEF Past, RestsOK
      <4>4. p[x.shift].breaks[j] \in Int /\ p[x.shift].start \in Int
        BY <1>4, <3>3, <4>3 DEF PlanOK
      <4> QED
        BY <3>6, <4>2, <4>4
    <3> QED
      BY <3>7, <3>8, WorkforceAssumption DEF Larger
  <2> QED
    BY <1>3, <1>4, <1>8, <2>1, <2>3, <2>4, <2>5, <2>11, <2>12, <2>13 DEF BackAt, DueFrom
<1> QED
  BY <1>7, <1>8

\* Breaks that end now end.
LEMMA BreakEndsKeeps ==
  ASSUME NEW p, PlanOK(p), NEW x, NEW t \in Nat, t < Closing, NEW ends, Fit(p, x, t, ends, t + 1, t, t, t)
  PROVE  Fit(p, BreakEnds(p, x, t), t, ends, t + 1, t + 1, t, t)
<1>1. PICK y : y = BreakEnds(p, x, t)
  OBVIOUS
<1>2. /\ x \in Employee /\ Past(p, x, t, ends) /\ StateOK(p, x, t) /\ Settled(x) /\ ~x.gone /\ Sound(p, x, t, ends)
      /\ EndFrom(p, x, t + 1) /\ BreakFrom(x, t) /\ DueFrom(p, x, t) /\ ActivationFrom(p, x, t)
  BY DEF Fit, Sound, Ahead
<1>3. CASE x.state # "ON_BREAK"
  <2>1. y = x
    BY <1>1, <1>3 DEF BreakEnds
  <2>2. BreakFrom(x, t + 1)
    BY <1>2, <1>3 DEF BreakFrom, StateOK, Past, DutyOK, PlanOK
  <2> QED
    BY <1>1, <1>2, <2>1, <2>2 DEF Fit, Ahead
<1>4. CASE x.state = "ON_BREAK"
  <2>1. PICK i : Current(x, i)
    BY DEF Current
  <2>2. x.shift \in 1 .. Len(p) /\ i \in DOMAIN x.rests[x.shift] /\ Underway(x.rests[x.shift][i])
    BY <1>2, <1>4, <2>1, CurrentIs DEF Current
  <2>3. BreakEnd(x) = x.rests[x.shift][i].start + BreakLength
    BY <2>1 DEF Current, BreakEnd
  <2>4. PICK m \in Nat : DOMAIN x.rests[x.shift] = 1 .. m
    BY <1>2, <2>2 DEF Past, RestsOK, PlanOK
  <2>5. /\ \A j \in 1 .. m : RowOK(x.rests[x.shift][j], t)
        /\ \A j, l \in 1 .. m : j < l /\ x.rests[x.shift][l].due # None => x.rests[x.shift][j].finish # None
    BY <1>2, <2>2, <2>4 DEF Past, RestsOK, RowsOK
  <2>6. ASSUME NEW j \in 1 .. m, Underway(x.rests[x.shift][j]) PROVE j = i
    <3>1. /\ x.rests[x.shift][j].due # None /\ x.rests[x.shift][j].finish = None
          /\ x.rests[x.shift][i].due # None /\ x.rests[x.shift][i].finish = None /\ i \in 1 .. m
      BY <2>2, <2>4, <2>5, <2>6 DEF Underway, RowOK
    <3>2. ~ (j < i) /\ ~ (i < j)
      BY <2>5, <3>1
    <3> QED
      BY <3>1, <3>2
  <2>7. x.rests[x.shift][i].start \in Nat
    BY <2>2, <2>4, <2>5 DEF Underway, RowOK, BreakRow, Time, None
  <2>8. t <= x.rests[x.shift][i].start + BreakLength
    BY <1>2, <2>2 DEF BreakFrom
  <2>9. CASE BreakEnd(x) # t
    <3>1. y = x
      BY <1>1, <1>4, <2>9 DEF BreakEnds
    <3>2. t + 1 <= x.rests[x.shift][i].start + BreakLength
      BY <2>3, <2>7, <2>8, <2>9, WorkforceAssumption
    <3>3. BreakFrom(x, t + 1)
      BY <2>4, <2>6, <3>2 DEF BreakFrom
    <3> QED
      BY <1>1, <1>2, <3>1, <3>3 DEF Fit, Ahead
  <2>10. CASE BreakEnd(x) = t
    <3>1. y = EndBreak(p, x, t, "completed")
      BY <1>1, <1>4, <2>10 DEF BreakEnds
    <3>2. StopsAt(x.rests[x.shift][i], t, "completed")
      BY <2>3, <2>10 DEF StopsAt
    <3>3. CASE x.basis # "none"
      <4>1. PICK z : z = Stopped(x, i, t, "completed")
        OBVIOUS
      <4>2. AfterBreak(p, x, t, ends, i, z)
        BY <1>2, <1>4, <2>1, <3>2, <4>1, BreakOver
      <4>3. ~z.gone
        BY <1>2, <4>2 DEF AfterBreak, Alike
      <4>4. OffAt(p, z, t, ends, y)
        BY <1>2, <1>4, <2>1, <3>1, <3>2, <3>3, <4>1, EndBreakKeeps
      <4> QED
        BY <1>1, <4>3, <4>4, OffFits
    <3>4. CASE x.basis = "none"
      <4>1. BackAt(p, x, t, ends, y)
        BY <1>2, <1>4, <2>1, <3>1, <3>2, <3>4, EndBreakKeeps
      <4>2. BreakFrom(y, t + 1)
        <5>1. y.shift \in 1 .. Len(p)
          BY <2>2, <4>1 DEF BackAt
        <5> QED
          BY <4>1, <5>1 DEF BackAt, BreakFrom, Quiet
      <4>3. EndFrom(p, y, t + 1) /\ ActivationFrom(p, y, t) /\ ~y.gone
        BY <1>2, <4>1 DEF BackAt, EndFrom, ActivationFrom
      <4> QED
        BY <1>1, <4>1, <4>2, <4>3 DEF BackAt, Fit, Ahead
    <3> QED
      BY <3>3, <3>4
  <2> QED
    BY <2>9, <2>10
<1> QED
  BY <1>3, <1>4

\* A row that falls due, field by field.
LEMMA RowFalls ==
  ASSUME NEW row \in BreakRow, NEW t \in Nat
  PROVE  [row EXCEPT !.due = t] = Row(t, row.start, row.finish, row.outcome)
<1>1. t \in Time
  BY DEF Time
<1>2. PICK new : new = [row EXCEPT !.due = t]
  OBVIOUS
<1>3. new \in BreakRow /\ new.due = t /\ new.start = row.start /\ new.finish = row.finish /\ new.outcome = row.outcome
  BY <1>1, <1>2 DEF BreakRow
<1>4. new = [due |-> new.due, start |-> new.start, finish |-> new.finish, outcome |-> new.outcome]
  BY <1>3 DEF BreakRow
<1> QED
  BY <1>2, <1>3, <1>4 DEF Row

\* Break i of x with the time it is due.
FallenDue(x, i, t) == WithRests(x, Noted(x, i, [x.rests[x.shift][i] EXCEPT !.due = t]))

\* y is x with break i due now.
DueNow(p, x, t, ends, i, y) ==
  /\ Past(p, y, t, ends) /\ Alike(x, y) /\ y.state = x.state /\ Quiet(p, y)
  /\ Ready(y, i) /\ y.rests[y.shift][i].due = t /\ DueAt(y.duty[y.shift].start, p[y.shift], y.rests[y.shift], i, t)
  /\ DOMAIN y.rests[y.shift] = DOMAIN x.rests[x.shift]
  /\ \A j \in DOMAIN x.rests[x.shift] : j # i => y.rests[y.shift][j] = x.rests[x.shift][j]

\* A break falls due: it is the first still to be taken, and its own rule says when.
LEMMA FallsDue ==
  ASSUME NEW p, PlanOK(p), NEW x, NEW t \in Nat, NEW ends, Sound(p, x, t, ends), Quiet(p, x), x.shift \in 1 .. Len(p),
         NEW i \in Nat, Ready(x, i), x.rests[x.shift][i].due = None,
         DueAt(x.duty[x.shift].start, p[x.shift], x.rests[x.shift], i, t)
  PROVE  DueNow(p, x, t, ends, i, FallenDue(x, i, t))
<1>1. /\ i \in DOMAIN x.rests[x.shift] /\ Unstarted(x.rests[x.shift][i]) /\ i = Least(Pending(x))
      /\ \A j \in DOMAIN x.rests[x.shift] : j < i => x.rests[x.shift][j].finish # None
      /\ \A j \in DOMAIN x.rests[x.shift] : j < i => ~Unstarted(x.rests[x.shift][j])
  BY DEF Ready, FirstPending
<1>2. /\ x \in Employee /\ Past(p, x, t, ends)
      /\ RestsOK(p, x.duty, x.rests, x.shift, x.next, t, ends) /\ DutyOK(p, x.duty, x.shift, x.next, x.last, t)
      /\ \A k \in 1 .. Len(p) : ReleaseRule(p, x.duty, x.rests, k, ends)
  BY DEF Sound, Past
<1>3. x.shift # 0 /\ x.next \in Int /\ x.shift < x.next /\ x.shift \in Nat /\ Len(p) \in Nat
  BY <1>2 DEF DutyOK, PlanOK
<1>4. x.rests \in Seq(Seq(BreakRow)) /\ x.shift \in DOMAIN x.rests /\ RowsOK(x.rests[x.shift], t)
  BY <1>2 DEF RestsOK
<1>5. PICK row : row = x.rests[x.shift][i]
  OBVIOUS
<1>6. row \in BreakRow /\ row.start = None /\ row.finish = None /\ row.outcome = "none"
  BY <1>1, <1>4, <1>5 DEF RowsOK, RowOK, Unstarted
<1>7. PICK new : new = Row(t, None, None, "none")
  OBVIOUS
<1>8. new = [row EXCEPT !.due = t]
  BY <1>6, <1>7, RowFalls
<1>9. /\ new \in BreakRow /\ new.due = t /\ new.start = None /\ new.finish = None /\ new.outcome = "none" /\ t # None
  BY <1>7 DEF Row, BreakRow, Time, None
<1>10. PICK other : other = Noted(x, i, new)
  OBVIOUS
<1>11. RowPut(x.rests, x.shift, i, new, other)
  BY <1>10 DEF RowPut, Noted
<1>12. /\ other \in Seq(Seq(BreakRow))
       /\ \A k \in DOMAIN x.rests : k # x.shift => other[k] = x.rests[k]
       /\ DOMAIN other[x.shift] = DOMAIN x.rests[x.shift] /\ other[x.shift][i] = new
       /\ \A j \in DOMAIN x.rests[x.shift] : j # i => other[x.shift][j] = x.rests[x.shift][j]
  BY <1>1, <1>4, <1>9, <1>11, RowPutIs
<1>13. PICK y : y = FallenDue(x, i, t)
  OBVIOUS
<1>14. Alike(x, y) /\ y.state = x.state /\ y.rests = other
  <2>1. y = WithRests(x, other)
    BY <1>5, <1>8, <1>10, <1>13 DEF FallenDue
  <2> QED
    BY <1>2, <1>12, <2>1, WithRestsIs
<1>15. RestsOK(p, x.duty, other, x.shift, x.next, t, ends)
  <2>1. RowPut(x.rests, x.shift, i, Row(t, None, None, "none"), other)
    BY <1>7, <1>11
  <2> QED
    BY <1>1, <1>2, <1>3, <2>1, BreakFallsDue
<1>16. \A k \in 1 .. Len(p) : ReleaseRule(p, x.duty, other, k, ends)
  <2> SUFFICES ASSUME NEW k \in 1 .. Len(p) PROVE ReleaseRule(p, x.duty, other, k, ends)
    OBVIOUS
  <2>1. CASE k = x.shift
    BY <1>2, <2>1 DEF ReleaseRule, DutyOK
  <2>2. CASE k # x.shift
    <3>1. other[k] = x.rests[k]
      BY <1>2, <1>12, <2>2 DEF RestsOK
    <3> QED
      BY <1>2, <3>1 DEF ReleaseRule
  <2> QED
    BY <2>1, <2>2
<1>17. Past(p, y, t, ends)
  BY <1>2, <1>14, <1>15, <1>16 DEF Past, Alike
<1>18. y.shift = x.shift /\ y.duty = x.duty
  BY <1>14 DEF Alike
<1>19. Quiet(p, y)
  <2> SUFFICES ASSUME NEW k \in 1 .. Len(p), NEW j \in DOMAIN other[k] PROVE ~Underway(other[k][j])
    BY <1>14 DEF Quiet
  <2>1. CASE k = x.shift /\ j = i
    BY <1>9, <1>12, <2>1 DEF Underway
  <2>2. CASE k = x.shift /\ j # i
    BY <1>12, <2>2 DEF Quiet
  <2>3. CASE k # x.shift
    <3>1. other[k] = x.rests[k]
      BY <1>2, <1>12, <2>3 DEF RestsOK
    <3> QED
      BY <3>1 DEF Quiet
  <2> QED
    BY <2>1, <2>2, <2>3
<1>20. Unstarted(other[x.shift][i])
  BY <1>9, <1>12 DEF Unstarted
<1>21. Pending(y) = Pending(x)
  <2>1. ASSUME NEW j \in DOMAIN x.rests[x.shift] PROVE Unstarted(other[x.shift][j]) <=> Unstarted(x.rests[x.shift][j])
    BY <1>1, <1>12, <1>20
  <2>2. Pending(y) = {j \in DOMAIN other[x.shift] : Unstarted(other[x.shift][j])}
    BY <1>3, <1>14, <1>18 DEF Pending
  <2>3. Pending(x) = {j \in DOMAIN x.rests[x.shift] : Unstarted(x.rests[x.shift][j])}
    BY <1>3 DEF Pending
  <2> QED
    BY <1>12, <2>1, <2>2, <2>3
<1>22. Ready(y, i)
  <2>1. ASSUME NEW j \in DOMAIN x.rests[x.shift], j < i
        PROVE  ~Unstarted(other[x.shift][j]) /\ other[x.shift][j].finish # None
    <3>1. j # i
      BY <1>1, <1>4, <2>1 DEF RowsOK
    <3> QED
      BY <1>1, <1>12, <2>1, <3>1
  <2>2. i = Least(Pending(y))
    BY <1>1, <1>21
  <2> QED
    BY <1>1, <1>12, <1>14, <1>18, <1>20, <2>1, <2>2 DEF Ready, FirstPending
<1>23. DueAt(y.duty[y.shift].start, p[y.shift], y.rests[y.shift], i, t)
  <2>1. NowIs(other[x.shift], i, new, x.rests[x.shift])
    BY <1>1, <1>4, <1>9, <1>11, DueStays
  <2>2. DueAt(x.duty[x.shift].start, p[x.shift], other[x.shift], i, t)
    BY <2>1 DEF NowIs, DueAt
  <2> QED
    BY <1>14, <1>18, <2>2
<1>24. other[x.shift][i].due = t
  BY <1>9, <1>12
<1> QED
  BY <1>12, <1>13, <1>14, <1>17, <1>18, <1>19, <1>22, <1>23, <1>24 DEF DueNow

\* A break that is due now begins, or waits for the end of the service; nobody else is due for one.
LEMMA BreakDueKeeps ==
  ASSUME NEW p, PlanOK(p), NEW x, NEW t \in Nat, t < Closing, NEW ends, Fit(p, x, t, ends, t + 1, t + 1, t, t)
  PROVE  Fit(p, BreakDue(p, x, t), t, ends, t + 1, t + 1, t + 1, t)
<1>1. PICK y : y = BreakDue(p, x, t)
  OBVIOUS
<1>2. /\ x \in Employee /\ Past(p, x, t, ends) /\ StateOK(p, x, t) /\ Settled(x) /\ ~x.gone /\ Sound(p, x, t, ends)
      /\ EndFrom(p, x, t + 1) /\ BreakFrom(x, t + 1) /\ DueFrom(p, x, t) /\ ActivationFrom(p, x, t)
  BY DEF Fit, Sound, Ahead
<1>3. CASE t \notin DueTimes(p, x)
  <2>1. y = x
    BY <1>1, <1>3 DEF BreakDue
  <2>2. ASSUME NEW v \in DueTimes(p, x) PROVE t + 1 <= v
    <3>1. v \in Int
      BY <1>2, DueBreak
    <3>2. t <= v /\ v # t
      BY <1>2, <1>3, <2>2 DEF DueFrom
    <3> QED
      BY <3>1, <3>2
  <2> QED
    BY <1>1, <1>2, <2>1, <2>2 DEF Fit, Ahead, DueFrom
<1>4. CASE t \in DueTimes(p, x)
  <2>1. x.shift \in 1 .. Len(p) /\ x.basis = "none"
    BY <1>2, <1>4, DueBreak
  <2>2. PICK i \in Nat : Ready(x, i) /\ x.rests[x.shift][i].due = None
                           /\ DueAt(x.duty[x.shift].start, p[x.shift], x.rests[x.shift], i, t)
    BY <1>2, <1>4, DueBreak
  <2>3. /\ i = Least(Pending(x)) /\ i \in DOMAIN x.rests[x.shift] /\ Unstarted(x.rests[x.shift][i])
        /\ \A j \in DOMAIN x.rests[x.shift] : j < i => x.rests[x.shift][j].finish # None
    BY <2>2 DEF Ready, FirstPending
  <2>4. PICK m \in Nat : DOMAIN x.rests[x.shift] = 1 .. m
    BY <1>2, <2>1 DEF Past, RestsOK, PlanOK
  <2>5. /\ \A j \in 1 .. m : RowOK(x.rests[x.shift][j], t)
        /\ \A j, l \in 1 .. m : j < l /\ x.rests[x.shift][l].due # None => x.rests[x.shift][j].finish # None
        /\ i \in 1 .. m
    BY <1>2, <2>1, <2>3, <2>4 DEF Past, RestsOK, RowsOK
  <2>6. \A j \in 1 .. m : x.rests[x.shift][j].due # None => x.rests[x.shift][j].finish # None
    <3>1. SUFFICES ASSUME NEW j \in 1 .. m, x.rests[x.shift][j].due # None PROVE x.rests[x.shift][j].finish # None
      OBVIOUS
    <3>2. x.rests[x.shift][i].finish = None
      BY <2>3, <2>5 DEF Unstarted, RowOK
    <3>3. j # i /\ ~ (i < j)
      BY <2>2, <2>5, <3>1, <3>2
    <3> QED
      BY <2>3, <2>4, <2>5, <3>3
  <2>7. x.state \in {"AVAILABLE", "WAITING_FOR_REGISTER", "SERVING"}
    <3>1. x.state # "ON_BREAK"
      BY <1>2, <2>1, <2>4, <2>5, <2>6 DEF StateOK, Underway, RowOK
    <3>2. x.state # "SERVING_BREAK_DUE"
      BY <1>2, <2>1, <2>4, <2>5, <2>6 DEF StateOK, Unstarted, RowOK
    <3>3. x.state # "OFF" /\ x.state # "SERVING_SHIFT_ENDED"
      <4>1. x.shift # 0
        BY <2>1
      <4> QED
        BY <1>2, <2>1, <4>1 DEF StateOK
    <3> QED
      BY <1>2, <3>1, <3>2, <3>3 DEF Employee, BaseStates, Registered
  <2>8. x.state # "ON_BREAK"
    BY <2>7
  <2>9. Quiet(p, x)
    BY <1>2, <2>8, NoBreakGoesOn
  <2>10. PICK z : z = FallenDue(x, i, t)
    OBVIOUS
  <2>11. DueNow(p, x, t, ends, i, z)
    BY <1>2, <2>1, <2>2, <2>9, <2>10, FallsDue
  <2>12. /\ z \in Employee /\ z.shift = x.shift /\ z.basis = "none" /\ z.reached = x.reached /\ z.gone = x.gone
         /\ z.next = x.next /\ z.last = x.last
         /\ Past(p, z, t, ends) /\ Quiet(p, z) /\ z.state = x.state /\ Ready(z, i) /\ z.rests[z.shift][i].due = t
         /\ DueAt(z.duty[z.shift].start, p[z.shift], z.rests[z.shift], i, t)
         /\ DOMAIN z.rests[x.shift] = 1 .. m
         /\ \A j \in 1 .. m : j # i => z.rests[x.shift][j] = x.rests[x.shift][j]
    BY <2>1, <2>4, <2>11 DEF DueNow, Alike
  <2>13. y = IF x.state \in {"AVAILABLE", "WAITING_FOR_REGISTER"} THEN StartBreak(z, t) ELSE WithState(z, "SERVING_BREAK_DUE")
    <3>1. z = [x EXCEPT !.rests = Noted(x, Least(Pending(x)), [x.rests[x.shift][Least(Pending(x))] EXCEPT !.due = t])]
      BY <2>3, <2>10, Zenon DEF FallenDue, WithRests
    <3>2. BreakDue(p, x, t) =
            CASE x.state \in {"AVAILABLE", "WAITING_FOR_REGISTER"} -> StartBreak(z, t)
              [] x.state = "SERVING" -> [z EXCEPT !.state = "SERVING_BREAK_DUE"]
              [] OTHER -> [z EXCEPT !.state = "REFUSED"]
      BY <1>4, <3>1, Zenon DEF BreakDue
    <3>3. CASE x.state \in {"AVAILABLE", "WAITING_FOR_REGISTER"}
      BY <1>1, <3>2, <3>3
    <3>4. CASE x.state = "SERVING"
      BY <1>1, <3>2, <3>4 DEF WithState
    <3> QED
      BY <2>7, <3>3, <3>4
  <2>14. z.reached => p[z.shift].end <= t
    <3>1. x.shift # 0
      BY <2>1
    <3> QED
      BY <1>2, <2>12, <3>1 DEF StateOK
  <2>15. CASE x.state \in {"AVAILABLE", "WAITING_FOR_REGISTER"}
    <3>1. y = StartBreak(z, t)
      BY <2>13, <2>15
    <3>2. z.rests[z.shift][i].due = t /\ (t = t \/ (t < t /\ t \in ends)) /\ z.shift \in 1 .. Len(p)
      BY <2>1, <2>12
    <3>3. /\ Sound(p, y, t, ends) /\ Settled(y) /\ Alike(z, y) /\ y.state = "ON_BREAK"
          /\ BreakFrom(y, t + 1) /\ DueFrom(p, y, t + 1)
      BY <2>12, <2>14, <3>1, <3>2, StartBreakKeeps
    <3>4. y.shift = x.shift /\ y.shift # 0 /\ y.reached = x.reached /\ ~y.gone
      BY <1>2, <2>1, <2>12, <3>3 DEF Alike
    <3>5. EndFrom(p, y, t + 1) /\ ActivationFrom(p, y, t)
      BY <1>2, <3>4 DEF EndFrom, ActivationFrom
    <3> QED
      BY <1>1, <3>3, <3>4, <3>5 DEF Fit, Ahead
  <2>16. CASE x.state = "SERVING"
    <3>1. y = WithState(z, "SERVING_BREAK_DUE")
      BY <2>13, <2>16
    <3>2. "SERVING_BREAK_DUE" \in BaseStates
      BY DEF BaseStates, Registered
    <3>3. Recast(z, y, "SERVING_BREAK_DUE")
      BY <2>12, <3>1, <3>2, WithStateIs
    <3>4. SameHistory(z, y) /\ y.state = "SERVING_BREAK_DUE" /\ y.basis = "none" /\ y.reached = x.reached
      BY <2>12, <3>3 DEF Recast
    <3>5. Past(p, y, t, ends) /\ Quiet(p, y)
      BY <2>12, <3>4, HistoryStays, ScheduleStays
    <3>6. y \in Employee /\ ~y.gone /\ y.shift = x.shift /\ y.shift # 0 /\ y.rests = z.rests
      BY <1>2, <2>1, <2>12, <3>4 DEF SameHistory
    <3>7. i \in DOMAIN y.rests[y.shift] /\ Unstarted(y.rests[y.shift][i]) /\ y.rests[y.shift][i].due # None
      BY <2>12, <3>6 DEF Ready, FirstPending, None
    <3>8. StateOK(p, y, t)
      BY <2>12, <2>14, <3>4, <3>5, <3>6, <3>7 DEF StateOK, Quiet
    <3>9. Sound(p, y, t, ends)
      BY <3>5, <3>6, <3>8 DEF Sound
    <3>10. DueTimes(p, y) = {}
      <4>1. SUFFICES ASSUME NEW v \in DueTimes(p, y) PROVE FALSE
        OBVIOUS
      <4>2. PICK j \in Nat : Ready(y, j) /\ y.rests[y.shift][j].due = None
        BY <3>9, <4>1, DueBreak
      <4>3. /\ j \in DOMAIN y.rests[y.shift] /\ Unstarted(y.rests[y.shift][j]) /\ j # i
            /\ \A l \in DOMAIN y.rests[y.shift] : l < j => y.rests[y.shift][l].finish # None
        BY <3>7, <4>2 DEF Ready, FirstPending
      <4>4. RowOK(y.rests[y.shift][i], t)
        BY <2>1, <3>5, <3>6, <3>7 DEF Past, RestsOK, RowsOK
      <4>5. ~ (i < j)
        BY <3>7, <4>3, <4>4 DEF Unstarted, RowOK
      <4>6. ~ (j < i)
        BY <2>12, <3>6, <4>3 DEF Ready, FirstPending
      <4> QED
        BY <4>3, <4>5, <4>6
    <3>11. EndFrom(p, y, t + 1) /\ ActivationFrom(p, y, t)
      BY <1>2, <3>4, <3>6 DEF EndFrom, ActivationFrom
    <3>12. Settled(y)
      BY <3>4 DEF Settled
    <3>13. BreakFrom(y, t + 1)
      BY <2>1, <3>5, <3>6 DEF BreakFrom, Quiet
    <3> QED
      BY <1>1, <3>6, <3>9, <3>10, <3>11, <3>12, <3>13 DEF Fit, Ahead, DueFrom
  <2> QED
    BY <2>7, <2>15, <2>16
<1> QED
  BY <1>3, <1>4

\* Shift x.next of x begins, and this is his duty then.
Begun(x, duty) == [x EXCEPT !.shift = x.next, !.next = @ + 1, !.reached = FALSE, !.duty = duty]

\* The start is noted with the shift.
StartNoted(duty, k, t) == [duty EXCEPT ![k] = [@ EXCEPT !.start = t]]

BegunIs(x, duty, y) ==
  /\ y \in Employee /\ y.shift = x.next /\ y.next = x.next + 1 /\ y.reached = FALSE /\ y.duty = duty
  /\ y.rests = x.rests /\ y.last = x.last /\ y.gone = x.gone /\ y.state = x.state /\ y.basis = x.basis

\* Nothing else changes.
LEMMA ShiftBegun ==
  ASSUME NEW x \in Employee, NEW duty \in Seq([start : Time, release : Time])
  PROVE  BegunIs(x, duty, Begun(x, duty))
<1>1. PICK y : y = Begun(x, duty)
  OBVIOUS
<1>2. x.next \in Nat /\ x.next + 1 \in Nat
  BY DEF Employee
<1> QED
  BY <1>1, <1>2 DEF Employee, Begun, BegunIs

BeginsAt(duty, k, t, new) ==
  /\ new \in Seq([start : Time, release : Time]) /\ DOMAIN new = DOMAIN duty
  /\ new[k].start = t /\ new[k].release = duty[k].release
  /\ \A j \in DOMAIN duty : j # k => new[j] = duty[j]

\* A start that is noted leaves the other times of duty as they were.
LEMMA StartNotedIs ==
  ASSUME NEW duty \in Seq([start : Time, release : Time]), NEW k \in DOMAIN duty, NEW t \in Nat
  PROVE  BeginsAt(duty, k, t, StartNoted(duty, k, t))
<1>1. duty[k] \in [start : Time, release : Time]
  BY ElementOfSeq, LenProperties
<1>2. PICK d : d = [duty[k] EXCEPT !.start = t]
  OBVIOUS
<1>3. d \in [start : Time, release : Time] /\ d.start = t /\ d.release = duty[k].release
  BY <1>1, <1>2 DEF Time
<1>4. PICK new : new = StartNoted(duty, k, t)
  OBVIOUS
<1>5. new = [duty EXCEPT ![k] = d]
  BY <1>2, <1>4 DEF StartNoted
<1>6. new \in Seq([start : Time, release : Time])
  BY <1>3, <1>5
<1>7. DOMAIN new = DOMAIN duty /\ new[k] = d /\ \A j \in DOMAIN duty : j # k => new[j] = duty[j]
  BY <1>5
<1> QED
  BY <1>3, <1>4, <1>6, <1>7 DEF BeginsAt

\* Shift x.next of x begins at t.
Activated(p, x, t) == Begun(x, StartNoted(x.duty, x.next, t))

\* y is x in the shift that begins at t.
Working(p, x, t, ends, y) ==
  /\ y \in Employee /\ Past(p, y, t, ends) /\ Quiet(p, y)
  /\ y.shift \in 1 .. Len(p) /\ y.shift = x.next /\ y.next = x.next + 1 /\ y.basis = "none" /\ y.reached = FALSE
  /\ y.gone = x.gone /\ y.rests = x.rests /\ y.duty[y.shift].start = t
  /\ t < p[y.shift].end
  /\ \A i \in DOMAIN y.rests[y.shift] : y.rests[y.shift][i].due = None

\* A shift begins on time or the rest after the last one.
LEMMA ActivationIs ==
  ASSUME NEW p, PlanOK(p), NEW x, NEW t \in Nat, t < Closing, NEW ends, Sound(p, x, t, ends), ActivationFrom(p, x, t),
         t \in ActivationTimes(p, x)
  PROVE  Working(p, x, t, ends, Activated(p, x, t))
<1>1. /\ x \in Employee /\ Past(p, x, t, ends) /\ StateOK(p, x, t)
      /\ RestsOK(p, x.duty, x.rests, x.shift, x.next, t, ends) /\ DutyOK(p, x.duty, x.shift, x.next, x.last, t)
      /\ \A k \in 1 .. Len(p) : ReleaseRule(p, x.duty, x.rests, k, ends)
  BY DEF Sound, Past
<1>2. x.shift = 0 /\ ~x.gone /\ ~ (x.next > Len(p)) /\ t = Activation(p, x.next, x.last)
  BY DEF ActivationTimes
<1>3. PICK n : n = x.next
  OBVIOUS
<1>4. n \in 1 .. Len(p) /\ Len(p) \in Nat /\ x.last \in Time /\ n + 1 \in 1 .. Len(p) + 1
  BY <1>1, <1>2, <1>3 DEF DutyOK, PlanOK
<1>5. t < p[n].end /\ p[n].start \in Nat
  BY <1>2, <1>3, <1>4 DEF ActivationFrom, PlanOK
<1>6. x.duty \in Seq([start : Time, release : Time]) /\ DOMAIN x.duty = 1 .. Len(p)
  BY <1>1 DEF DutyOK
<1>7. PICK duty : duty = StartNoted(x.duty, n, t)
  OBVIOUS
<1>8. /\ duty \in Seq([start : Time, release : Time]) /\ DOMAIN duty = 1 .. Len(p)
      /\ duty[n].start = t /\ duty[n].release = x.duty[n].release
      /\ \A j \in 1 .. Len(p) : j # n => duty[j] = x.duty[j]
  <2>1. n \in DOMAIN x.duty /\ x.duty \in Seq([start : Time, release : Time])
    BY <1>4, <1>6
  <2>2. BeginsAt(x.duty, n, t, duty)
    BY <1>7, <2>1, StartNotedIs
  <2> QED
    BY <1>6, <2>2 DEF BeginsAt
<1>9. PICK y : y = Activated(p, x, t)
  OBVIOUS
<1>10. BegunIs(x, duty, y)
  BY <1>1, <1>3, <1>7, <1>8, <1>9, ShiftBegun DEF Activated
<1>11. /\ y \in Employee /\ y.shift = n /\ y.next = n + 1 /\ y.reached = FALSE /\ y.duty = duty
       /\ y.rests = x.rests /\ y.last = x.last /\ y.gone = x.gone /\ y.basis = "none"
  BY <1>1, <1>2, <1>3, <1>10 DEF BegunIs, StateOK
<1>12. \A k \in 1 .. Len(p) : k >= n => x.duty[k].start = None /\ x.duty[k].release = None
  BY <1>1, <1>3 DEF DutyOK
<1>13. \A k \in 1 .. Len(p) : \A i \in DOMAIN x.rests[k] : ~Underway(x.rests[k][i])
  BY <1>1, <1>2, <1>4 DEF StateOK
<1>14. ASSUME NEW k \in 1 .. Len(p), k >= n, NEW i \in DOMAIN x.rests[k]
       PROVE  x.rests[k][i].due = None /\ x.rests[k][i].start = None
  <2>1. x.rests[k][i].due = None /\ RowOK(x.rests[k][i], t)
    BY <1>1, <1>3, <1>14 DEF RestsOK, RowsOK
  <2> QED
    BY <2>1 DEF RowOK
<1>15. RestsOK(p, duty, x.rests, n, n + 1, t, ends)
  <2>1. ASSUME NEW k \in 1 .. Len(p), NEW i \in DOMAIN x.rests[k] PROVE BreakRule(duty[k].start, p[k], x.rests[k], i, ends)
    <3>1. CASE k = n
      BY <1>4, <1>14, <3>1 DEF BreakRule
    <3>2. CASE k # n
      <4>1. duty[k] = x.duty[k]
        BY <1>8, <3>2
      <4> QED
        BY <1>1, <4>1 DEF RestsOK
    <3> QED
      BY <3>1, <3>2
  <2>2. ASSUME NEW k \in 1 .. Len(p), NEW i \in DOMAIN x.rests[k]
        PROVE  /\ k >= n + 1 => x.rests[k][i].due = None
               /\ k < n + 1 /\ k # n => ~Unstarted(x.rests[k][i]) /\ ~Underway(x.rests[k][i])
    <3>1. k >= n + 1 => k >= n
      BY <1>4
    <3>2. k < n + 1 /\ k # n => k < x.next /\ k # x.shift
      BY <1>2, <1>3, <1>4
    <3> QED
      BY <1>1, <1>14, <3>1, <3>2 DEF RestsOK
  <2> QED
    BY <1>1, <2>1, <2>2 DEF RestsOK
<1>16. \A k \in 1 .. Len(p) : x.duty[k].start \in Int /\ x.duty[k].release \in Int
  BY <1>1, DutyTypes
<1>17. t # None
  BY DEF None
<1>18. StartRule(p, duty, n)
  <2>1. ASSUME NEW j \in 1 .. n - 1 PROVE j \in 1 .. Len(p) /\ duty[j] = x.duty[j]
    BY <1>4, <1>8
  <2>2. ASSUME NEW j \in 1 .. n - 1, x.duty[j].start # None
        PROVE  x.duty[j].release # None /\ x.last # None /\ x.duty[j].release <= x.last
    <3>1. j \in 1 .. Len(p) /\ j < x.next /\ j # x.shift
      BY <1>2, <1>3, <1>4
    <3> QED
      BY <1>1, <2>2, <3>1 DEF DutyOK
  <2>3. t = p[n].start \/ (x.last # None /\ t = x.last + RestBetween)
    BY <1>2, <1>3 DEF Activation, Larger
  <2>4. x.last # None => t >= x.last + RestBetween
    BY <1>2, <1>3, <1>4, <1>5, WorkforceAssumption DEF Activation, Larger, Time, None
  <2>5. ASSUME x.last # None
        PROVE  \E j \in 1 .. n - 1 : x.duty[j].start # None /\ x.duty[j].release = x.last
    <3>1. PICK k \in 1 .. Len(p) : x.duty[k].release = x.last
      BY <1>1, <2>5 DEF DutyOK
    <3>2. x.duty[k].start # None
      BY <1>1, <2>5, <3>1 DEF DutyOK
    <3>3. ~ (k >= n)
      BY <1>12, <3>2
    <3>4. k \in 1 .. n - 1
      BY <1>4, <3>3
    <3> QED
      BY <3>1, <3>2, <3>4
  <2>6. \/ t = p[n].start
        \/ \E j \in 1 .. n - 1 : duty[j].start # None /\ t = duty[j].release + RestBetween
    <3>1. CASE t = p[n].start
      BY <3>1
    <3>2. CASE x.last # None /\ t = x.last + RestBetween
      <4>1. PICK j \in 1 .. n - 1 : x.duty[j].start # None /\ x.duty[j].release = x.last
        BY <2>5, <3>2
      <4>2. duty[j].start # None /\ duty[j].release = x.last
        BY <2>1, <4>1
      <4> QED
        BY <3>2, <4>2
    <3> QED
      BY <2>3, <3>1, <3>2
  <2>7. ASSUME NEW j \in 1 .. n - 1, duty[j].start # None
        PROVE  duty[j].release # None /\ t >= duty[j].release + RestBetween
    <3>1. duty[j] = x.duty[j] /\ j \in 1 .. Len(p)
      BY <2>1
    <3>2. x.duty[j].release # None /\ x.last # None /\ x.duty[j].release <= x.last /\ x.duty[j].release \in Int
      BY <1>16, <2>2, <2>7, <3>1
    <3>3. t >= x.last + RestBetween /\ x.last \in Int
      BY <1>4, <2>4, <3>2 DEF Time, None
    <3> QED
      BY <3>1, <3>2, <3>3, WorkforceAssumption
  <2> QED
    BY <1>5, <1>8, <2>6, <2>7 DEF StartRule
<1>19. DutyOK(p, duty, n, n + 1, x.last, t)
  <2>1. ASSUME NEW k \in 1 .. Len(p), k # n
        PROVE  /\ duty[k].start <= t
               /\ duty[k].release # None =>
                    duty[k].start # None /\ x.last # None /\ duty[k].start <= duty[k].release /\ duty[k].release <= x.last
               /\ k >= n + 1 => duty[k].start = None
               /\ k < n + 1 => (duty[k].start # None => duty[k].release # None)
    <3>1. duty[k] = x.duty[k]
      BY <1>8, <2>1
    <3>2. k >= n + 1 => k >= n
      BY <1>4
    <3>3. k < n + 1 => k < x.next /\ k # x.shift
      BY <1>2, <1>3, <1>4, <2>1
    <3> QED
      BY <1>1, <1>12, <3>1, <3>2, <3>3 DEF DutyOK
  <2>2. ASSUME NEW k \in 1 .. Len(p), k # n PROVE StartRule(p, duty, k)
    <3>1. duty[k] = x.duty[k] /\ StartRule(p, x.duty, k)
      BY <1>1, <1>8, <2>2 DEF DutyOK
    <3>2. CASE k >= n
      BY <1>12, <3>1, <3>2 DEF StartRule
    <3>3. CASE k < n
      <4>1. \A j \in 1 .. k - 1 : duty[j] = x.duty[j]
        BY <1>4, <1>8, <3>3
      <4> QED
        BY <3>1, <4>1 DEF StartRule
    <3> QED
      BY <1>4, <3>2, <3>3
  <2>3. duty[n].start <= t /\ duty[n].start # None /\ duty[n].release = None
    BY <1>4, <1>8, <1>12, <1>17
  <2>4. x.last # None => \E k \in 1 .. Len(p) : duty[k].release = x.last
    <3>1. ASSUME x.last # None PROVE \E k \in 1 .. Len(p) : duty[k].release = x.last
      <4>1. PICK k \in 1 .. Len(p) : x.duty[k].release = x.last
        BY <1>1, <3>1 DEF DutyOK
      <4>2. k # n
        BY <1>4, <1>12, <3>1, <4>1
      <4> QED
        BY <1>8, <4>1, <4>2
    <3> QED
      BY <3>1
  <2>5. n \in 0 .. Len(p) /\ n # 0 /\ x.last <= t
    BY <1>1, <1>4 DEF DutyOK
  <2>6. ASSUME NEW k \in 1 .. Len(p)
        PROVE  /\ duty[k].start <= t
               /\ duty[k].release # None =>
                    duty[k].start # None /\ x.last # None /\ duty[k].start <= duty[k].release /\ duty[k].release <= x.last
               /\ k >= n + 1 => duty[k].start = None
               /\ k < n + 1 /\ k # n => (duty[k].start # None => duty[k].release # None)
               /\ k = n => duty[k].start # None /\ duty[k].release = None
               /\ StartRule(p, duty, k)
    <3>1. CASE k = n
      <4>1. ~ (k >= n + 1)
        BY <1>4, <3>1
      <4> QED
        BY <1>18, <2>3, <3>1, <4>1
    <3>2. CASE k # n
      BY <2>1, <2>2, <3>2
    <3> QED
      BY <3>1, <3>2
  <2> QED
    BY <1>4, <1>8, <2>4, <2>5, <2>6 DEF DutyOK
<1>20. \A k \in 1 .. Len(p) : ReleaseRule(p, duty, x.rests, k, ends)
  <2> SUFFICES ASSUME NEW k \in 1 .. Len(p) PROVE ReleaseRule(p, duty, x.rests, k, ends)
    OBVIOUS
  <2>1. duty[k].release = x.duty[k].release
    BY <1>8
  <2> QED
    BY <1>1, <2>1 DEF ReleaseRule
<1>21. Past(p, y, t, ends)
  BY <1>11, <1>15, <1>19, <1>20 DEF Past
<1>22. \A i \in DOMAIN x.rests[n] : x.rests[n][i].due = None
  BY <1>4, <1>14
<1>23. Quiet(p, y)
  BY <1>11, <1>13 DEF Quiet
<1> QED
  BY <1>3, <1>4, <1>5, <1>8, <1>9, <1>11, <1>21, <1>22, <1>23 DEF Working

\* What Activate makes of x when z is x with the shift begun.
ActivateAs(p, x, t, z) ==
  IF t \notin ActivationTimes(p, x) THEN x ELSE IF t \in DueTimes(p, z) THEN StartBreak(z, t) ELSE JoinWait(z, t)

\* A shift that begins now begins, with its break when that is due at once.
LEMMA ActivateKeeps ==
  ASSUME NEW p, PlanOK(p), NEW x, NEW t \in Nat, t < Closing, NEW ends, Fit(p, x, t, ends, t + 1, t + 1, t + 1, t)
  PROVE  Fit(p, Activate(p, x, t), t, ends, t + 1, t + 1, t + 1, t + 1)
<1>1. PICK y : y = Activate(p, x, t)
  OBVIOUS
<1>2. /\ x \in Employee /\ Past(p, x, t, ends) /\ StateOK(p, x, t) /\ Settled(x) /\ ~x.gone /\ Sound(p, x, t, ends)
      /\ EndFrom(p, x, t + 1) /\ BreakFrom(x, t + 1) /\ DueFrom(p, x, t + 1) /\ ActivationFrom(p, x, t)
  BY DEF Fit, Sound, Ahead
<1>3. CASE t \notin ActivationTimes(p, x)
  <2>1. y = x
    BY <1>1, <1>3 DEF Activate
  <2>2. ActivationFrom(p, x, t + 1)
    <3>1. SUFFICES ASSUME x.shift = 0, ~x.gone, x.next <= Len(p)
                   PROVE  t + 1 <= Activation(p, x.next, x.last) /\ Activation(p, x.next, x.last) < p[x.next].end
      BY DEF ActivationFrom
    <3>2. x.next \in 1 .. Len(p) /\ x.last \in Time /\ Len(p) \in Nat
      BY <1>2, <3>1 DEF Past, DutyOK, PlanOK
    <3>3. Activation(p, x.next, x.last) \in Int
      BY <3>2, WorkforceAssumption DEF Activation, Larger, PlanOK, Time, None
    <3>4. Activation(p, x.next, x.last) # t
      <4>1. ~ (x.next > Len(p))
        BY <3>2
      <4> QED
        BY <1>3, <3>1, <4>1 DEF ActivationTimes
    <3>5. t <= Activation(p, x.next, x.last) /\ Activation(p, x.next, x.last) < p[x.next].end
      BY <1>2, <3>1 DEF ActivationFrom
    <3> QED
      BY <3>3, <3>4, <3>5
  <2> QED
    BY <1>1, <1>2, <2>1, <2>2 DEF Fit, Ahead
<1>4. CASE t \in ActivationTimes(p, x)
  <2>1. PICK z : z = Activated(p, x, t)
    OBVIOUS
  <2>2. Working(p, x, t, ends, z)
    BY <1>2, <1>4, <2>1, ActivationIs
  <2>3. /\ z \in Employee /\ Past(p, z, t, ends) /\ Quiet(p, z) /\ z.shift \in 1 .. Len(p) /\ z.basis = "none"
        /\ z.reached = FALSE /\ ~z.gone /\ z.duty[z.shift].start = t /\ t < p[z.shift].end
        /\ \A i \in DOMAIN z.rests[z.shift] : z.rests[z.shift][i].due = None
    BY <1>2, <2>2 DEF Working
  <2>4. z.shift # 0 /\ p[z.shift].end \in Nat /\ Len(p) \in Nat
    BY <2>3 DEF PlanOK
  <2>5. y = IF t \in DueTimes(p, z) THEN StartBreak(z, t) ELSE JoinWait(z, t)
    <3>1. z = [x EXCEPT !.shift = x.next, !.next = @ + 1, !.reached = FALSE, !.duty[x.next].start = t]
      BY <2>1, Zenon DEF Activated, Begun, StartNoted
    <3>2. Activate(p, x, t) =
            ActivateAs(p, x, t, [x EXCEPT !.shift = x.next, !.next = @ + 1, !.reached = FALSE, !.duty[x.next].start = t])
      BY DEF Activate, ActivateAs
    <3>3. Activate(p, x, t) = ActivateAs(p, x, t, z)
      BY <3>1, <3>2, Zenon
    <3> QED
      BY <1>1, <1>4, <3>3 DEF ActivateAs
  <2>6. PICK w : w = JoinWait(z, t)
    OBVIOUS
  <2>7. Recast(z, w, "WAITING_FOR_REGISTER")
    BY <2>3, <2>6, JoinWaitIs
  <2>8. SameHistory(z, w) /\ w.state = "WAITING_FOR_REGISTER" /\ w.basis = "none" /\ w.reached = FALSE /\ w.basis = z.basis
    BY <2>3, <2>7 DEF Recast
  <2>9. /\ w \in Employee /\ w.shift = z.shift /\ w.rests = z.rests /\ w.duty = z.duty /\ ~w.gone
        /\ Past(p, w, t, ends) /\ Quiet(p, w)
    BY <2>3, <2>8, HistoryStays, ScheduleStays DEF SameHistory
  <2>10. StateOK(p, w, t)
    BY <2>4, <2>8, <2>9 DEF StateOK, Quiet
  <2>11. Sound(p, w, t, ends) /\ DueTimes(p, w) = DueTimes(p, z)
    BY <2>8, <2>9, <2>10, DueTimesStay DEF Sound
  <2>12. CASE t \in DueTimes(p, z)
    <3>1. PICK i \in Nat : Ready(w, i) /\ DueAt(w.duty[w.shift].start, p[w.shift], w.rests[w.shift], i, t)
      BY <2>11, <2>12, DueBreak
    <3>2. Pending(w) = Pending(z)
      BY <2>9 DEF Pending
    <3>3. Ready(z, i) /\ DueAt(z.duty[z.shift].start, p[z.shift], z.rests[z.shift], i, t)
      BY <2>9, <3>1, <3>2 DEF Ready, FirstPending
    <3>4. z.rests[z.shift][i].due = None /\ t = t
      BY <2>3, <3>3 DEF Ready, FirstPending
    <3>5. z.reached => p[z.shift].end <= t
      BY <2>3
    <3>6. y = StartBreak(z, t)
      BY <2>5, <2>12
    <3>7. /\ Sound(p, y, t, ends) /\ Settled(y) /\ Alike(z, y) /\ y.state = "ON_BREAK"
          /\ BreakFrom(y, t + 1) /\ DueFrom(p, y, t + 1)
      BY <2>3, <3>3, <3>4, <3>5, <3>6, StartBreakKeeps
    <3>8. y.shift = z.shift /\ ~y.gone
      BY <2>3, <3>7 DEF Alike
    <3>9. EndFrom(p, y, t + 1) /\ ActivationFrom(p, y, t + 1)
      BY <2>3, <2>4, <3>8 DEF EndFrom, ActivationFrom
    <3> QED
      BY <1>1, <3>7, <3>8, <3>9 DEF Fit, Ahead
  <2>13. CASE t \notin DueTimes(p, z)
    <3>1. y = w
      BY <2>5, <2>6, <2>13
    <3>2. PICK m \in Nat : DOMAIN z.rests[z.shift] = 1 .. m /\ DOMAIN p[z.shift].breaks = 1 .. m
      BY <2>3 DEF Past, RestsOK, PlanOK
    <3>3. ASSUME NEW v \in DueTimes(p, w) PROVE t + 1 <= v
      <4>1. PICK i \in Nat : Ready(w, i) /\ DueAt(w.duty[w.shift].start, p[w.shift], w.rests[w.shift], i, v)
        BY <2>11, <3>3, DueBreak
      <4>2. i \in 1 .. m /\ \A j \in 1 .. m : j < i => z.rests[z.shift][j].finish # None
        BY <2>9, <3>2, <4>1 DEF Ready, FirstPending
      <4>3. \A j \in 1 .. m : z.rests[z.shift][j].finish = None
        <5>1. \A j \in 1 .. m : RowOK(z.rests[z.shift][j], t) /\ z.rests[z.shift][j].due = None
          BY <2>3, <3>2 DEF Past, RestsOK, RowsOK
        <5> QED
          BY <5>1 DEF RowOK
      <4>4. i = 1
        <5>1. ~ (1 < i)
          BY <3>2, <4>2, <4>3
        <5> QED
          BY <4>2, <5>1
      <4>5. v = t + p[z.shift].breaks[1] - p[z.shift].start
        <5>1. v = DueRule(w.duty[w.shift].start, p[w.shift], w.rests[w.shift], i)
          BY <4>1 DEF DueAt
        <5> QED
          BY <2>3, <2>9, <4>4, <5>1 DEF DueRule
      <4>6. p[z.shift].breaks[1] \in Nat /\ p[z.shift].start \in Nat /\ p[z.shift].start <= p[z.shift].breaks[1]
        <5>1. 1 \in DOMAIN p[z.shift].breaks
          BY <3>2, <4>2, <4>4
        <5> QED
          BY <2>3, <5>1 DEF PlanOK
      <4>7. v # t
        BY <2>11, <2>13, <3>3
      <4> QED
        BY <4>5, <4>6, <4>7
    <3>4. Settled(w) /\ BreakFrom(w, t + 1)
      BY <2>3, <2>9 DEF Settled, BreakFrom, Quiet, Unstarted
    <3>5. EndFrom(p, w, t + 1) /\ ActivationFrom(p, w, t + 1)
      BY <2>3, <2>4, <2>9 DEF EndFrom, ActivationFrom
    <3> QED
      BY <1>1, <2>9, <2>11, <3>1, <3>3, <3>4, <3>5 DEF Fit, Ahead, DueFrom
  <2> QED
    BY <2>12, <2>13
<1> QED
  BY <1>3, <1>4

\* All stages between the closing inputs and the handover of registers, before closing.
LEMMA OpenStages ==
  ASSUME NEW p, PlanOK(p), NEW x, NEW t \in Nat, t < Closing, NEW ends, Fit(p, x, t, ends, t, t, t, t)
  PROVE  Fit(p, Scheduled(p, x, t, FALSE)[4], t, ends, t + 1, t + 1, t + 1, t + 1)
<1>1. PICK a : a = ShiftEnd(p, x, t, FALSE)
  OBVIOUS
<1>2. PICK b : b = BreakEnds(p, a, t)
  OBVIOUS
<1>3. PICK c : c = BreakDue(p, b, t)
  OBVIOUS
<1>4. Fit(p, a, t, ends, t + 1, t, t, t)
  BY <1>1, ShiftEndKeeps
<1>5. Fit(p, b, t, ends, t + 1, t + 1, t, t)
  BY <1>2, <1>4, BreakEndsKeeps
<1>6. Fit(p, c, t, ends, t + 1, t + 1, t + 1, t)
  BY <1>3, <1>5, BreakDueKeeps
<1>7. Fit(p, Activate(p, c, t), t, ends, t + 1, t + 1, t + 1, t + 1)
  BY <1>6, ActivateKeeps
<1>8. PICK d : d = Activate(p, c, t)
  OBVIOUS
<1>9. PICK stages : stages = Scheduled(p, x, t, FALSE)
  OBVIOUS
<1>10. stages = <<a, b, c, d>>
  BY <1>1, <1>2, <1>3, <1>8, <1>9 DEF Scheduled
<1>11. stages[4] = d
  BY <1>10
<1> QED
  BY <1>7, <1>8, <1>9, <1>11

\* Who takes a register or a customer goes on as before.
LEMMA RecastSound ==
  ASSUME NEW p, NEW x, NEW t \in Nat, NEW ends, Sound(p, x, t, ends), PlanOK(p),
         x.state \in {"AVAILABLE", "WAITING_FOR_REGISTER"}, NEW s \in {"AVAILABLE", "SERVING"}, NEW y, Recast(x, y, s)
  PROVE  Sound(p, y, t, ends)
<1>1. SameHistory(x, y) /\ y.state = s /\ y.basis = x.basis /\ y.reached = x.reached
  BY DEF Recast
<1>2. Past(p, x, t, ends) /\ StateOK(p, x, t) /\ x.state # "ON_BREAK" /\ x.state # "OFF"
  BY DEF Sound
<1>3. Past(p, y, t, ends) /\ y \in Employee
  BY <1>1, <1>2, HistoryStays DEF SameHistory
<1>4. Quiet(p, x)
  BY <1>2, NoBreakGoesOn
<1>5. x.shift # 0 /\ x.basis = "none"
  BY <1>2 DEF StateOK
<1>6. MayBecome(p, x, y, t)
  <2>1. x.reached => p[x.shift].end <= t
    BY <1>2, <1>5 DEF StateOK
  <2> QED
    BY <1>1, <1>2, <1>4, <1>5, <2>1 DEF MayBecome
<1>7. StateOK(p, y, t)
  BY <1>6, StateStays
<1> QED
  BY <1>3, <1>7 DEF Sound

\* So he does before closing.
LEMMA RecastFits ==
  ASSUME NEW p, PlanOK(p), NEW x, NEW t \in Nat, NEW ends, NEW e, NEW b, NEW d, NEW a, Fit(p, x, t, ends, e, b, d, a),
         x.state \in {"AVAILABLE", "WAITING_FOR_REGISTER"}, NEW s \in {"AVAILABLE", "SERVING"}, NEW y, Recast(x, y, s)
  PROVE  Fit(p, y, t, ends, e, b, d, a)
<1>1. SameHistory(x, y) /\ y.basis = x.basis /\ y.reached = x.reached /\ y.shift = x.shift /\ y.rests = x.rests /\ y.gone = x.gone
  BY DEF Recast, SameHistory
<1>2. /\ Sound(p, x, t, ends) /\ Settled(x) /\ ~x.gone
      /\ EndFrom(p, x, e) /\ BreakFrom(x, b) /\ DueFrom(p, x, d) /\ ActivationFrom(p, x, a)
  BY DEF Fit, Ahead
<1>3. Sound(p, y, t, ends)
  BY <1>2, RecastSound
<1>4. BreakFrom(y, b) /\ ActivationFrom(p, y, a) /\ DueTimes(p, y) = DueTimes(p, x)
  BY <1>1, <1>2, ScheduleStays, DueTimesStay
<1>5. Settled(y) /\ EndFrom(p, y, e)
  BY <1>1, <1>2 DEF Settled, EndFrom
<1> QED
  BY <1>1, <1>2, <1>3, <1>4, <1>5 DEF Fit, Ahead, DueFrom

-----------------------------------------------------------------------------
(* Closing *)

\* No break is still to be taken.
Cleared(x) == \A k \in DOMAIN x.rests : \A i \in DOMAIN x.rests[k] : ~Unstarted(x.rests[k][i])

\* The breaks of all shifts given up.
AllGivenUp(rests, other) ==
  DOMAIN other = DOMAIN rests /\ \A k \in DOMAIN rests : other[k] = Unfulfilled(rests[k])

\* Breaks of all shifts that are given up stay breaks.
LEMMA AllGivenUpIs ==
  ASSUME NEW rests \in Seq(Seq(BreakRow)), NEW other, other = [k \in DOMAIN rests |-> Unfulfilled(rests[k])]
  PROVE  other \in Seq(Seq(BreakRow)) /\ AllGivenUp(rests, other)
<1>1. PICK n \in Nat : DOMAIN rests = 1 .. n
  BY LenProperties
<1>2. \A k \in 1 .. n : rests[k] \in Seq(BreakRow)
  BY <1>1, ElementOfSeq
<1>3. \A k \in 1 .. n : Unfulfilled(rests[k]) \in Seq(BreakRow)
  BY <1>2, UnfulfilledIs
<1>4. other \in Seq(Seq(BreakRow))
  BY <1>1, <1>3
<1> QED
  BY <1>4 DEF AllGivenUp

\* None of them is to be taken, and those that go on do.
LEMMA AllGivenUpClears ==
  ASSUME NEW rests \in Seq(Seq(BreakRow)), NEW other, AllGivenUp(rests, other)
  PROVE  \A k \in DOMAIN rests :
           /\ DOMAIN other[k] = DOMAIN rests[k]
           /\ \A i \in DOMAIN rests[k] :
                /\ ~Unstarted(other[k][i]) /\ (Underway(other[k][i]) <=> Underway(rests[k][i]))
                /\ other[k][i].start = rests[k][i].start
<1> SUFFICES ASSUME NEW k \in DOMAIN rests
             PROVE  /\ DOMAIN other[k] = DOMAIN rests[k]
                    /\ \A i \in DOMAIN rests[k] :
                         /\ ~Unstarted(other[k][i]) /\ (Underway(other[k][i]) <=> Underway(rests[k][i]))
                         /\ other[k][i].start = rests[k][i].start
  OBVIOUS
<1>1. other[k] = Unfulfilled(rests[k]) /\ rests[k] \in Seq(BreakRow)
  BY ElementOfSeq DEF AllGivenUp
<1>2. /\ DOMAIN other[k] = DOMAIN rests[k]
      /\ \A i \in DOMAIN rests[k] :
           /\ other[k][i].start = rests[k][i].start /\ other[k][i].finish = rests[k][i].finish
           /\ other[k][i].outcome = IF Unstarted(rests[k][i]) THEN "unfulfilled" ELSE rests[k][i].outcome
  BY <1>1, UnfulfilledIs
<1> QED
  BY <1>2 DEF Unstarted, Underway

\* These are the breaks of x, and this his state.
Cancelled(x, rests, s) == [x EXCEPT !.rests = rests, !.state = s]

\* Nothing else changes.
LEMMA CancelledIs ==
  ASSUME NEW x \in Employee, NEW rests \in Seq(Seq(BreakRow)), NEW s \in BaseStates
  PROVE  Alike(x, Cancelled(x, rests, s)) /\ Cancelled(x, rests, s).state = s /\ Cancelled(x, rests, s).rests = rests
<1>1. PICK y : y = Cancelled(x, rests, s)
  OBVIOUS
<1>2. /\ y \in Employee /\ y.shift = x.shift /\ y.next = x.next /\ y.duty = x.duty /\ y.last = x.last
      /\ y.basis = x.basis /\ y.reached = x.reached /\ y.gone = x.gone /\ y.state = s /\ y.rests = rests
  BY <1>1 DEF Employee, Cancelled
<1> QED
  BY <1>1, <1>2 DEF Alike

\* y is x with no break to come.
CancelDone(p, x, t, ends, y) ==
  /\ Sound(p, y, t, ends) /\ Cleared(y) /\ Alike(x, y)
  /\ y.state = (IF x.state = "SERVING_BREAK_DUE" THEN "SERVING" ELSE x.state)
  /\ (BreakFrom(x, t) => BreakFrom(y, t))

\* Closing cancels the breaks that have not begun.
LEMMA CancelKeeps ==
  ASSUME NEW p, PlanOK(p), NEW x, NEW t \in Nat, NEW ends, Sound(p, x, t, ends)
  PROVE  CancelDone(p, x, t, ends, ApplyCancel(x))
<1>1. PICK y : y = ApplyCancel(x)
  OBVIOUS
<1>2. /\ x \in Employee /\ Past(p, x, t, ends) /\ StateOK(p, x, t)
      /\ RestsOK(p, x.duty, x.rests, x.shift, x.next, t, ends) /\ DutyOK(p, x.duty, x.shift, x.next, x.last, t)
      /\ \A k \in 1 .. Len(p) : ReleaseRule(p, x.duty, x.rests, k, ends)
  BY DEF Sound, Past
<1>3. PICK s : s = IF x.state = "SERVING_BREAK_DUE" THEN "SERVING" ELSE x.state
  OBVIOUS
<1>4. s \in BaseStates
  BY <1>2, <1>3 DEF Employee, BaseStates, Registered
<1>5. PICK other : other = [k \in DOMAIN x.rests |-> Unfulfilled(x.rests[k])]
  OBVIOUS
<1>6. x.rests \in Seq(Seq(BreakRow)) /\ DOMAIN x.rests = 1 .. Len(p) /\ Len(p) \in Nat
  BY <1>2 DEF RestsOK, PlanOK
<1>7. other \in Seq(Seq(BreakRow)) /\ AllGivenUp(x.rests, other)
  BY <1>5, <1>6, AllGivenUpIs
<1>8. y = Cancelled(x, other, s)
  BY <1>1, <1>3, <1>5, Zenon DEF ApplyCancel, Cancelled
<1>9. Alike(x, y) /\ y.state = s /\ y.rests = other
  BY <1>2, <1>4, <1>7, <1>8, CancelledIs
<1>10. /\ y \in Employee /\ y.shift = x.shift /\ y.next = x.next /\ y.duty = x.duty /\ y.last = x.last
       /\ y.basis = x.basis /\ y.reached = x.reached
  BY <1>9 DEF Alike
<1>11. \A k \in 1 .. Len(p) :
         /\ DOMAIN other[k] = DOMAIN x.rests[k]
         /\ \A i \in DOMAIN x.rests[k] :
              /\ ~Unstarted(other[k][i]) /\ (Underway(other[k][i]) <=> Underway(x.rests[k][i]))
              /\ other[k][i].start = x.rests[k][i].start
  BY <1>6, <1>7, AllGivenUpClears
<1>12. RestsOK(p, x.duty, other, x.shift, x.next, t, ends)
  <2>1. GivenUp(x.rests, Len(p) + 1, other)
    BY <1>6, <1>7 DEF GivenUp, AllGivenUp
  <2>2. x.next \in Int /\ Len(p) + 1 \in Int /\ t \in Int /\ x.next <= x.next /\ x.next <= Len(p) + 1
    BY <1>2, <1>6 DEF DutyOK
  <2>3. \A k \in 1 .. Len(p) : k < x.next /\ k # x.shift => \A i \in DOMAIN x.rests[k] : ~Underway(x.rests[k][i])
    BY <1>2 DEF RestsOK
  <2> QED
    BY <1>2, <1>7, <2>1, <2>2, <2>3, GivenUpRests
<1>13. \A k \in 1 .. Len(p) : ReleaseRule(p, x.duty, other, k, ends)
  <2> SUFFICES ASSUME NEW k \in 1 .. Len(p), NEW i \in DOMAIN x.rests[k] PROVE other[k][i].finish = x.rests[k][i].finish
    BY <1>2, <1>11 DEF ReleaseRule
  <2>1. other[k] = Unfulfilled(x.rests[k]) /\ x.rests[k] \in Seq(BreakRow)
    BY <1>6, <1>7, ElementOfSeq DEF AllGivenUp
  <2> QED
    BY <2>1, UnfulfilledIs
<1>14. Past(p, y, t, ends)
  BY <1>2, <1>9, <1>10, <1>12, <1>13 DEF Past
<1>15. x.shift # 0 => x.shift \in 1 .. Len(p)
  BY <1>2, <1>6 DEF DutyOK
<1>16. StateOK(p, y, t)
  <2>1. \A k \in 1 .. Len(p) : \A i \in DOMAIN other[k] : Underway(other[k][i]) => k = x.shift /\ x.state = "ON_BREAK"
    BY <1>2, <1>11 DEF StateOK
  <2>2. x.state = "ON_BREAK" => \E i \in DOMAIN other[x.shift] : Underway(other[x.shift][i])
    BY <1>2, <1>11, <1>15 DEF StateOK
  <2>3. y.state # "SERVING_BREAK_DUE" /\ (y.state = "ON_BREAK" <=> x.state = "ON_BREAK") /\ (y.state = "OFF" <=> x.state = "OFF")
    BY <1>3, <1>9
  <2>4. y.state = "SERVING_SHIFT_ENDED" => x.state = "SERVING_SHIFT_ENDED"
    BY <1>3, <1>9
  <2>5. x.basis # "none" => y.state \in {"SERVING_SHIFT_ENDED", "ON_BREAK"}
    BY <1>2, <1>3, <1>9 DEF StateOK
  <2> QED
    BY <1>2, <1>9, <1>10, <2>1, <2>2, <2>3, <2>4, <2>5 DEF StateOK
<1>17. Cleared(y)
  BY <1>6, <1>7, <1>9, <1>11 DEF Cleared, AllGivenUp
<1>18. BreakFrom(x, t) => BreakFrom(y, t)
  BY <1>9, <1>10, <1>11, <1>15 DEF BreakFrom
<1> QED
  BY <1>1, <1>3, <1>9, <1>10, <1>14, <1>16, <1>17, <1>18 DEF CancelDone, Sound

\* x is told that he will be released; he stays at home for good.
Told(x, basis) == [x EXCEPT !.gone = TRUE, !.basis = basis]

StaysAway(x, next, rests) == [x EXCEPT !.gone = TRUE, !.next = next, !.rests = rests]

ToldIs(x, basis, y) ==
  /\ y \in Employee /\ y.shift = x.shift /\ y.next = x.next /\ y.duty = x.duty /\ y.last = x.last /\ y.rests = x.rests
  /\ y.basis = basis /\ y.reached = x.reached /\ y.gone = TRUE /\ y.state = x.state

StaysAwayIs(x, next, rests, y) ==
  /\ y \in Employee /\ y.shift = x.shift /\ y.next = next /\ y.duty = x.duty /\ y.last = x.last /\ y.rests = rests
  /\ y.basis = x.basis /\ y.reached = x.reached /\ y.gone = TRUE /\ y.state = x.state

\* Nothing else changes.
LEMMA ToldFields ==
  ASSUME NEW x \in Employee, NEW basis \in {"none", "scheduled_shift_end", "release_input"}
  PROVE  ToldIs(x, basis, Told(x, basis))
<1>1. PICK y : y = Told(x, basis)
  OBVIOUS
<1> QED
  BY <1>1 DEF Employee, Told, ToldIs

\* Nor here.
LEMMA StaysAwayFields ==
  ASSUME NEW x \in Employee, NEW next \in Nat, NEW rests \in Seq(Seq(BreakRow))
  PROVE  StaysAwayIs(x, next, rests, StaysAway(x, next, rests))
<1>1. PICK y : y = StaysAway(x, next, rests)
  OBVIOUS
<1> QED
  BY <1>1 DEF Employee, StaysAway, StaysAwayIs

\* y is x with his release at t.
ReleaseDone(p, x, t, ends, y) ==
  /\ Sound(p, y, t, ends) /\ y.gone = TRUE
  /\ y.state = (IF x.state \in Serving THEN "SERVING_SHIFT_ENDED" ELSE IF x.state = "ON_BREAK" THEN "ON_BREAK" ELSE "OFF")
  /\ (Cleared(x) => Cleared(y))
  /\ (EndFrom(p, x, t) => EndFrom(p, y, t))
  /\ (BreakFrom(x, t) => BreakFrom(y, t))
  /\ y.state = "ON_BREAK" => y.basis # "none"

\* Who goes off for good has no break to come.
LEMMA OffForGood ==
  ASSUME NEW p, NEW x, NEW t, NEW ends, NEW y, OffAt(p, x, t, ends, y), x.gone, Past(p, x, t, ends), PlanOK(p)
  PROVE  Cleared(y)
<1>1. y.next = Len(p) + 1 /\ GivenUp(x.rests, y.next, y.rests) /\ Len(p) \in Nat
  BY DEF OffAt, PlanOK
<1>2. x.rests \in Seq(Seq(BreakRow)) /\ DOMAIN x.rests = 1 .. Len(p)
  BY DEF Past, RestsOK
<1>3. AllGivenUp(x.rests, y.rests)
  BY <1>1, <1>2 DEF GivenUp, AllGivenUp
<1> QED
  BY <1>2, <1>3, AllGivenUpClears DEF Cleared, AllGivenUp

\* At closing or later everybody may be released: who is idle goes home, who serves or rests will.
LEMMA ReleaseKeeps ==
  ASSUME NEW p, PlanOK(p), NEW x, NEW t \in Nat, t >= Closing, NEW ends, Sound(p, x, t, ends), ~x.gone
  PROVE  ReleaseDone(p, x, t, ends, ApplyRelease(p, x, t))
<1>1. PICK y : y = ApplyRelease(p, x, t)
  OBVIOUS
<1>2. /\ x \in Employee /\ Past(p, x, t, ends) /\ StateOK(p, x, t)
      /\ RestsOK(p, x.duty, x.rests, x.shift, x.next, t, ends) /\ DutyOK(p, x.duty, x.shift, x.next, x.last, t)
      /\ \A k \in 1 .. Len(p) : ReleaseRule(p, x.duty, x.rests, k, ends)
  BY DEF Sound, Past
<1>3. Len(p) \in Nat /\ x.shift \in 0 .. Len(p)
  BY <1>2 DEF DutyOK, PlanOK
<1>4. PICK basis : basis = IF x.basis = "none" THEN "release_input" ELSE x.basis
  OBVIOUS
<1>5. basis \in {"none", "scheduled_shift_end", "release_input"} /\ basis # "none"
  BY <1>2, <1>4 DEF Employee
<1>6. PICK z : z = Told(x, basis)
  OBVIOUS
<1>7. ToldIs(x, basis, z)
  BY <1>2, <1>5, <1>6, ToldFields
<1>8. /\ z \in Employee /\ z.shift = x.shift /\ z.next = x.next /\ z.duty = x.duty /\ z.last = x.last /\ z.rests = x.rests
      /\ z.basis = basis /\ z.reached = x.reached /\ z.gone = TRUE /\ z.state = x.state
  BY <1>7 DEF ToldIs
<1>9. Past(p, z, t, ends)
  BY <1>2, <1>8 DEF Past
<1>10. x.basis = "scheduled_shift_end" => x.reached
  BY <1>2 DEF StateOK
<1>11. basis = "scheduled_shift_end" => x.reached
  BY <1>4, <1>10
<1>12. PICK rests : rests = [k \in DOMAIN x.rests |-> Unfulfilled(x.rests[k])]
  OBVIOUS
<1>13. x.rests \in Seq(Seq(BreakRow)) /\ DOMAIN x.rests = 1 .. Len(p)
  BY <1>2 DEF RestsOK
<1>14. rests \in Seq(Seq(BreakRow)) /\ AllGivenUp(x.rests, rests)
  BY <1>12, <1>13, AllGivenUpIs
<1>15. y = IF x.shift = 0 THEN StaysAway(x, Len(p) + 1, rests)
           ELSE IF x.state \in {"AVAILABLE", "WAITING_FOR_REGISTER"} THEN GoOff(p, z, t)
           ELSE IF x.state \in Serving THEN WithState(z, "SERVING_SHIFT_ENDED")
           ELSE z
  <2>1. z = [x EXCEPT !.gone = TRUE, !.basis = IF @ = "none" THEN "release_input" ELSE @]
    BY <1>4, <1>6, Zenon DEF Told
  <2>2. StaysAway(x, Len(p) + 1, rests) =
          [x EXCEPT !.gone = TRUE, !.next = Len(p) + 1, !.rests = [k \in DOMAIN @ |-> Unfulfilled(@[k])]]
    BY <1>12, Zenon DEF StaysAway
  <2> QED
    BY <1>1, <2>1, <2>2, Zenon DEF ApplyRelease, WithState
<1>16. CASE x.shift = 0
  <2>1. y = StaysAway(x, Len(p) + 1, rests)
    BY <1>15, <1>16
  <2>2. StaysAwayIs(x, Len(p) + 1, rests, y)
    BY <1>2, <1>3, <1>14, <2>1, StaysAwayFields
  <2>3. /\ y \in Employee /\ y.shift = 0 /\ y.next = Len(p) + 1 /\ y.duty = x.duty /\ y.last = x.last /\ y.rests = rests
        /\ y.basis = x.basis /\ y.reached = x.reached /\ y.gone = TRUE /\ y.state = x.state
    BY <1>16, <2>2 DEF StaysAwayIs
  <2>4. x.state = "OFF" /\ x.basis = "none"
    BY <1>2, <1>16 DEF StateOK
  <2>5. \A k \in 1 .. Len(p) : \A i \in DOMAIN x.rests[k] : ~Underway(x.rests[k][i])
    BY <1>2, <1>16, <1>3, <2>4 DEF StateOK
  <2>6. RestsOK(p, x.duty, rests, 0, Len(p) + 1, t, ends)
    <3>1. GivenUp(x.rests, Len(p) + 1, rests)
      BY <1>3, <1>13, <1>14 DEF GivenUp, AllGivenUp
    <3>2. x.next \in Int /\ Len(p) + 1 \in Int /\ t \in Int /\ x.next <= Len(p) + 1 /\ Len(p) + 1 <= Len(p) + 1
      BY <1>2, <1>3 DEF DutyOK
    <3>3. \A k \in 1 .. Len(p) : k < Len(p) + 1 /\ k # 0 => \A i \in DOMAIN x.rests[k] : ~Underway(x.rests[k][i])
      BY <2>5
    <3> QED
      BY <1>2, <1>14, <3>1, <3>2, <3>3, GivenUpRests
  <2>7. DutyOK(p, x.duty, 0, Len(p) + 1, x.last, t)
    <3>1. ASSUME NEW k \in 1 .. Len(p)
          PROVE  /\ k >= Len(p) + 1 => x.duty[k].start = None
                 /\ k < Len(p) + 1 /\ k # 0 => (x.duty[k].start # None => x.duty[k].release # None)
                 /\ k = 0 => x.duty[k].start # None /\ x.duty[k].release = None
      <4>1. ~ (k >= Len(p) + 1) /\ k # 0 /\ k # x.shift
        BY <1>3, <1>16
      <4>2. x.duty[k].start # None => x.duty[k].release # None
        BY <1>2, <1>3, <4>1 DEF DutyOK
      <4> QED
        BY <4>1, <4>2
    <3>2. 0 \in 0 .. Len(p) /\ Len(p) + 1 \in 1 .. Len(p) + 1
      BY <1>3
    <3> QED
      BY <1>2, <3>1, <3>2 DEF DutyOK
  <2>8. \A k \in 1 .. Len(p) : ReleaseRule(p, x.duty, rests, k, ends)
    <3> SUFFICES ASSUME NEW k \in 1 .. Len(p), NEW i \in DOMAIN x.rests[k]
                 PROVE  DOMAIN rests[k] = DOMAIN x.rests[k] /\ rests[k][i].finish = x.rests[k][i].finish
      <4>1. \A k \in 1 .. Len(p) : DOMAIN rests[k] = DOMAIN x.rests[k]
        BY <1>2, <2>6 DEF RestsOK
      <4> QED
        BY <1>2, <4>1 DEF ReleaseRule
    <3>1. rests[k] = Unfulfilled(x.rests[k]) /\ x.rests[k] \in Seq(BreakRow)
      BY <1>13, <1>14, ElementOfSeq DEF AllGivenUp
    <3> QED
      BY <3>1, UnfulfilledIs
  <2>9. Past(p, y, t, ends)
    BY <2>3, <2>6, <2>7, <2>8 DEF Past
  <2>10. \A k \in DOMAIN rests : \A i \in DOMAIN rests[k] : ~Unstarted(rests[k][i]) /\ ~Underway(rests[k][i])
    BY <1>13, <1>14, <2>5, AllGivenUpClears DEF AllGivenUp
  <2>11. StateOK(p, y, t)
    <3>1. DOMAIN rests = 1 .. Len(p)
      BY <1>13, <1>14 DEF AllGivenUp
    <3> QED
      BY <2>3, <2>4, <2>10, <3>1 DEF StateOK
  <2>12. Cleared(y)
    BY <2>3, <2>10 DEF Cleared
  <2>13. Sound(p, y, t, ends)
    BY <2>3, <2>9, <2>11 DEF Sound
  <2> QED
    BY <1>1, <2>3, <2>4, <2>12, <2>13 DEF ReleaseDone, EndFrom, BreakFrom, Serving
<1>17. CASE x.shift # 0 /\ x.state \in {"AVAILABLE", "WAITING_FOR_REGISTER"}
  <2>1. y = GoOff(p, z, t)
    BY <1>15, <1>17
  <2>2. x.state # "ON_BREAK" /\ x.state \notin Serving
    BY <1>17 DEF Serving
  <2>3. Quiet(p, x)
    BY <2>2, NoBreakGoesOn
  <2>4. Quiet(p, z) /\ z.shift \in 1 .. Len(p) /\ MayRelease(p, z, t, ends)
    BY <1>3, <1>8, <1>17, <2>3 DEF Quiet, MayRelease
  <2>5. OffAt(p, z, t, ends, y)
    BY <1>8, <1>9, <2>1, <2>4, GoOffKeeps
  <2>6. Cleared(y)
    BY <1>8, <1>9, <2>5, OffForGood
  <2>7. Sound(p, y, t, ends) /\ y.state = "OFF" /\ y.shift = 0 /\ y.gone = TRUE
    BY <1>8, <2>5 DEF OffAt
  <2> QED
    BY <1>1, <1>17, <2>2, <2>6, <2>7 DEF ReleaseDone, EndFrom, BreakFrom
<1>18. CASE x.shift # 0 /\ x.state \in Serving
  <2>1. y = WithState(z, "SERVING_SHIFT_ENDED")
    BY <1>15, <1>18 DEF Serving
  <2>2. "SERVING_SHIFT_ENDED" \in BaseStates
    BY DEF BaseStates, Registered
  <2>3. Recast(z, y, "SERVING_SHIFT_ENDED")
    BY <1>8, <2>1, <2>2, WithStateIs
  <2>4. /\ SameHistory(z, y) /\ y.state = "SERVING_SHIFT_ENDED" /\ y.basis = basis /\ y.reached = x.reached
        /\ y \in Employee /\ y.shift = x.shift /\ y.rests = x.rests /\ y.gone = TRUE
    BY <1>8, <2>3 DEF Recast, SameHistory
  <2>5. Past(p, y, t, ends)
    BY <1>9, <2>4, HistoryStays
  <2>6. StateOK(p, y, t)
    <3>1. \A k \in 1 .. Len(p) : \A i \in DOMAIN x.rests[k] : ~Underway(x.rests[k][i])
      BY <1>2, <1>18 DEF StateOK, Serving
    <3>2. x.shift # 0 /\ x.reached => p[x.shift].end <= t
      BY <1>2 DEF StateOK
    <3> QED
      BY <1>5, <1>11, <1>18, <2>4, <3>1, <3>2 DEF StateOK
  <2>7. /\ (Cleared(x) => Cleared(y)) /\ (EndFrom(p, x, t) => EndFrom(p, y, t)) /\ (BreakFrom(x, t) => BreakFrom(y, t))
    BY <2>4 DEF Cleared, EndFrom, BreakFrom
  <2> QED
    BY <1>1, <1>18, <2>4, <2>5, <2>6, <2>7 DEF ReleaseDone, Sound
<1>19. CASE x.shift # 0 /\ x.state \notin {"AVAILABLE", "WAITING_FOR_REGISTER"} \cup Serving
  <2>1. y = z
    BY <1>15, <1>19
  <2>2. x.state = "ON_BREAK"
    <3>1. x.state \in BaseStates /\ x.state # "OFF"
      BY <1>2, <1>19 DEF StateOK, Employee
    <3> QED
      BY <1>19, <3>1 DEF BaseStates, Registered, Serving
  <2>3. StateOK(p, y, t)
    BY <1>2, <1>5, <1>8, <1>11, <1>19, <2>1, <2>2 DEF StateOK
  <2>4. /\ (Cleared(x) => Cleared(y)) /\ (EndFrom(p, x, t) => EndFrom(p, y, t)) /\ (BreakFrom(x, t) => BreakFrom(y, t))
    BY <1>8, <2>1 DEF Cleared, EndFrom, BreakFrom
  <2> QED
    BY <1>1, <1>5, <1>8, <1>9, <2>1, <2>2, <2>3, <2>4 DEF ReleaseDone, Sound, Serving
<1> QED
  BY <1>16, <1>17, <1>18, <1>19

\* x after a stage of instant t at closing or after it: who was released serves his last customer or is off,
\* the others go on; nobody has a break to come, and the end of no shift is before e.
Late(p, x, t, ends, e) ==
  /\ Sound(p, x, t, ends) /\ Cleared(x) /\ EndFrom(p, x, e)
  /\ IF x.gone THEN x.state \in {"OFF", "SERVING_SHIFT_ENDED"} ELSE x.state \in {"AVAILABLE", "SERVING"}

\* Nothing falls due for somebody without a break to come.
LEMMA NothingFallsDue ==
  ASSUME NEW p, PlanOK(p), NEW x, NEW t, NEW ends, Sound(p, x, t, ends), Cleared(x)
  PROVE  DueTimes(p, x) = {}
<1>1. x.shift # 0 => x.shift \in DOMAIN x.rests
  BY DEF Sound, Past, DutyOK, RestsOK, PlanOK
<1>2. Pending(x) = {}
  BY <1>1 DEF Pending, Cleared
<1> QED
  BY <1>2 DEF DueTimes, AwaitsBreak

\* A free employee who was serving.
Freed(p, x, t, ends, y) ==
  /\ Sound(p, y, t, ends) /\ y.state = "AVAILABLE" /\ y.gone = x.gone /\ y.rests = x.rests
  /\ (EndFrom(p, x, t) => EndFrom(p, y, t)) /\ (BreakFrom(x, t) => BreakFrom(y, t))

\* Who serves is at work without a break.
LEMMA ServingIs ==
  ASSUME NEW p, PlanOK(p), NEW x, NEW t \in Nat, NEW ends, Sound(p, x, t, ends), x.state \in Serving
  PROVE  Quiet(p, x) /\ x.shift # 0 /\ x.shift \in 1 .. Len(p)
<1>1. x.state # "ON_BREAK" /\ x.state # "OFF"
  BY DEF Serving
<1>2. x.shift # 0
  BY <1>1 DEF Sound, StateOK
<1>3. x.shift \in 0 .. Len(p) /\ Len(p) \in Nat
  BY DEF Sound, Past, DutyOK, PlanOK
<1> QED
  BY <1>1, <1>2, <1>3, NoBreakGoesOn

\* His service ends and he is free: a break that waited is cancelled, or there was none.
LEMMA FreedIs ==
  ASSUME NEW p, PlanOK(p), NEW x, NEW t \in Nat, NEW ends, Sound(p, x, t, ends),
         x.state \in {"SERVING", "SERVING_BREAK_DUE"}
  PROVE  Freed(p, x, t, ends, Idle(x, t))
<1>1. PICK y : y = Idle(x, t)
  OBVIOUS
<1>2. x \in Employee /\ Past(p, x, t, ends) /\ StateOK(p, x, t) /\ x.state \in Serving
  BY DEF Sound, Serving
<1>3. Recast(x, y, "AVAILABLE")
  BY <1>1, <1>2, IdleIs
<1>4. SameHistory(x, y) /\ y.state = "AVAILABLE" /\ y.basis = x.basis /\ y.reached = x.reached
  BY <1>3 DEF Recast
<1>5. Quiet(p, x) /\ x.shift # 0 /\ x.shift \in 1 .. Len(p)
  BY <1>2, ServingIs
<1>6. x.basis = "none"
  BY <1>2 DEF StateOK
<1>7. Past(p, y, t, ends) /\ (BreakFrom(x, t) => BreakFrom(y, t))
  BY <1>2, <1>4, HistoryStays, ScheduleStays
<1>8. x.reached => p[x.shift].end <= t
  BY <1>2, <1>5 DEF StateOK
<1>9. MayBecome(p, x, y, t)
  BY <1>2, <1>4, <1>5, <1>6, <1>8 DEF MayBecome
<1>10. StateOK(p, y, t)
  BY <1>9, StateStays
<1>11. y \in Employee /\ y.gone = x.gone /\ y.rests = x.rests /\ y.shift = x.shift
  BY <1>4 DEF SameHistory
<1>12. EndFrom(p, x, t) => EndFrom(p, y, t)
  BY <1>4, <1>11 DEF EndFrom
<1> QED
  BY <1>1, <1>4, <1>7, <1>10, <1>11, <1>12 DEF Freed, Sound

\* Who was told to go goes with his customer.
LEMMA LastCustomer ==
  ASSUME NEW p, PlanOK(p), NEW x, NEW t \in Nat, t >= Closing, NEW ends, Sound(p, x, t, ends),
         x.state = "SERVING_SHIFT_ENDED"
  PROVE  OffAt(p, x, t, ends, GoOff(p, x, t))
<1>1. x.state \in Serving
  BY DEF Serving
<1>2. Quiet(p, x) /\ x.shift \in 1 .. Len(p) /\ x \in Employee /\ Past(p, x, t, ends)
  BY <1>1, ServingIs DEF Sound
<1>3. MayRelease(p, x, t, ends)
  BY DEF MayRelease
<1> QED
  BY <1>2, <1>3, GoOffKeeps

\* After closing a service ends: who was released goes home, the others go on.
LEMMA LateCompletion ==
  ASSUME NEW p, PlanOK(p), NEW x, NEW t \in Nat, t >= Closing, NEW ends, x.state \in Serving, Late(p, x, t, ends, t)
  PROVE  LET y == Complete(p, x, t, FALSE)
         IN /\ Late(p, y, t, ends, t) /\ y.gone = x.gone
            /\ y.state = (IF x.gone THEN "OFF" ELSE "AVAILABLE")
            /\ (~x.gone => y.since = t)
<1>1. PICK y : y = Complete(p, x, t, FALSE)
  OBVIOUS
<1>2. /\ Sound(p, x, t, ends) /\ Cleared(x) /\ EndFrom(p, x, t) /\ Past(p, x, t, ends)
      /\ IF x.gone THEN x.state \in {"OFF", "SERVING_SHIFT_ENDED"} ELSE x.state \in {"AVAILABLE", "SERVING"}
  BY DEF Late, Sound
<1>3. CASE x.gone
  <2>1. x.state = "SERVING_SHIFT_ENDED"
    BY <1>2, <1>3 DEF Serving
  <2>2. y = GoOff(p, x, t)
    BY <1>1, <2>1 DEF Complete
  <2>3. OffAt(p, x, t, ends, y)
    BY <1>2, <2>1, <2>2, LastCustomer
  <2>4. Cleared(y)
    BY <1>2, <1>3, <2>3, OffForGood
  <2>5. Sound(p, y, t, ends) /\ y.state = "OFF" /\ y.shift = 0 /\ y.gone = x.gone
    BY <2>3 DEF OffAt
  <2> QED
    BY <1>1, <1>3, <2>4, <2>5 DEF Late, EndFrom
<1>4. CASE ~x.gone
  <2>1. x.state = "SERVING"
    BY <1>2, <1>4 DEF Serving
  <2>2. y = Idle(x, t)
    BY <1>1, <2>1 DEF Complete, Idle
  <2>3. Freed(p, x, t, ends, y)
    BY <1>2, <2>1, <2>2, FreedIs
  <2>4. Sound(p, y, t, ends) /\ y.state = "AVAILABLE" /\ y.gone = x.gone /\ y.rests = x.rests /\ EndFrom(p, y, t)
    BY <1>2, <2>3 DEF Freed
  <2>5. Cleared(y)
    BY <1>2, <2>4 DEF Cleared
  <2>6. y.since = t
    BY <1>2, <2>2, IdleIs DEF Sound
  <2> QED
    BY <1>1, <1>4, <2>4, <2>5, <2>6 DEF Late
<1> QED
  BY <1>3, <1>4

\* Who has nobody left to serve is released.
LEMMA LateRelease ==
  ASSUME NEW p, PlanOK(p), NEW x, NEW t \in Nat, t >= Closing, NEW ends, ~x.gone, Late(p, x, t, ends, t)
  PROVE  LET y == ApplyRelease(p, x, t)
         IN /\ Late(p, y, t, ends, t) /\ y.gone = TRUE
            /\ y.state = (IF x.state = "SERVING" THEN "SERVING_SHIFT_ENDED" ELSE "OFF")
<1>1. PICK y : y = ApplyRelease(p, x, t)
  OBVIOUS
<1>2. /\ Sound(p, x, t, ends) /\ Cleared(x) /\ EndFrom(p, x, t) /\ x.state \in {"AVAILABLE", "SERVING"}
  BY DEF Late
<1>3. ReleaseDone(p, x, t, ends, y)
  BY <1>1, <1>2, ReleaseKeeps
<1> QED
  BY <1>1, <1>2, <1>3 DEF ReleaseDone, Late, Serving

\* Between the closing inputs and the handover, after closing, only the end of a shift is noted.
Noticed(p, x, t) == IF x.shift # 0 /\ ~x.reached /\ p[x.shift].end = t THEN Passed(x) ELSE x

LateStage(p, x, t, ends, y) ==
  Late(p, y, t, ends, t + 1) /\ y.gone = x.gone /\ y.state = x.state /\ y = Noticed(p, x, t)

\* So the stages come to this.
LEMMA LateStages ==
  ASSUME NEW p, PlanOK(p), NEW x, NEW t \in Nat, NEW ends, Late(p, x, t, ends, t)
  PROVE  LateStage(p, x, t, ends, Scheduled(p, x, t, TRUE)[4])
<1>1. PICK y : y = Noticed(p, x, t)
  OBVIOUS
<1>2. /\ Sound(p, x, t, ends) /\ Cleared(x) /\ EndFrom(p, x, t) /\ x \in Employee
      /\ Past(p, x, t, ends) /\ StateOK(p, x, t)
      /\ IF x.gone THEN x.state \in {"OFF", "SERVING_SHIFT_ENDED"} ELSE x.state \in {"AVAILABLE", "SERVING"}
  BY DEF Late, Sound
<1>3. ShiftEnd(p, x, t, TRUE) = y
  BY <1>1, Zenon DEF ShiftEnd, Noticed, Passed
<1>4. /\ SameHistory(x, y) /\ y.state = x.state /\ y.basis = x.basis /\ (x.reached => y.reached)
      /\ (y.reached => x.reached \/ (x.shift # 0 /\ p[x.shift].end = t))
  <2>1. CASE y = x
    BY <1>2, <2>1 DEF SameHistory
  <2>2. CASE y = Passed(x) /\ x.shift # 0 /\ p[x.shift].end = t
    BY <1>2, <2>2, PassedIs
  <2> QED
    BY <1>1, <2>1, <2>2 DEF Noticed
<1>5. /\ y \in Employee /\ y.shift = x.shift /\ y.rests = x.rests /\ y.gone = x.gone /\ Past(p, y, t, ends)
  BY <1>2, <1>4, HistoryStays DEF SameHistory
<1>6. x.shift # 0 => x.shift \in 1 .. Len(p) /\ p[x.shift].end \in Nat
  BY <1>2 DEF Past, DutyOK, PlanOK
<1>7. StateOK(p, y, t)
  <2>1. y.shift # 0 /\ y.reached => p[y.shift].end <= t
    BY <1>2, <1>4, <1>5, <1>6 DEF StateOK
  <2> QED
    BY <1>2, <1>4, <1>5, <2>1 DEF StateOK
<1>8. Sound(p, y, t, ends) /\ Cleared(y)
  BY <1>2, <1>5, <1>7 DEF Sound, Cleared
<1>9. EndFrom(p, y, t + 1)
  <2>1. x.shift # 0 /\ ~y.reached => ~x.reached /\ p[x.shift].end # t
    <3>1. CASE x.shift # 0 /\ ~x.reached /\ p[x.shift].end = t
      BY <1>1, <1>2, <3>1, PassedIs DEF Noticed
    <3>2. CASE ~ (x.shift # 0 /\ ~x.reached /\ p[x.shift].end = t)
      BY <1>1, <3>2 DEF Noticed
    <3> QED
      BY <3>1, <3>2
  <2> QED
    BY <1>2, <1>5, <1>6, <2>1 DEF EndFrom
<1>10. y.state # "ON_BREAK" /\ (y.shift = 0 => y.gone)
  BY <1>2, <1>4, <1>5, <1>7 DEF StateOK
<1>11. BreakEnds(p, y, t) = y
  BY <1>10 DEF BreakEnds
<1>12. BreakDue(p, y, t) = y
  <2>1. DueTimes(p, y) = {}
    BY <1>8, NothingFallsDue
  <2> QED
    BY <2>1 DEF BreakDue
<1>13. Activate(p, y, t) = y
  <2>1. ActivationTimes(p, y) = {}
    BY <1>10 DEF ActivationTimes
  <2> QED
    BY <2>1 DEF Activate
<1>14. PICK stages : stages = Scheduled(p, x, t, TRUE)
  OBVIOUS
<1>15. stages = <<y, y, y, y>>
  BY <1>3, <1>11, <1>12, <1>13, <1>14 DEF Scheduled
<1>16. stages[4] = y
  BY <1>15
<1>17. Late(p, y, t, ends, t + 1)
  BY <1>2, <1>4, <1>5, <1>8, <1>9 DEF Late
<1>18. LateStage(p, x, t, ends, y)
  BY <1>1, <1>4, <1>5, <1>17 DEF LateStage
<1> QED
  BY <1>14, <1>16, <1>18

\* Who takes a customer after closing goes on.
LEMMA RecastLate ==
  ASSUME NEW p, PlanOK(p), NEW x, NEW t \in Nat, NEW ends, NEW e, Late(p, x, t, ends, e), x.state = "AVAILABLE",
         NEW y, Recast(x, y, "SERVING")
  PROVE  Late(p, y, t, ends, e) /\ y.gone = x.gone
<1>1. SameHistory(x, y) /\ y.state = "SERVING" /\ y.reached = x.reached /\ y.shift = x.shift /\ y.rests = x.rests /\ y.gone = x.gone
  BY DEF Recast, SameHistory
<1>2. /\ Sound(p, x, t, ends) /\ Cleared(x) /\ EndFrom(p, x, e) /\ ~x.gone
  BY DEF Late
<1>3. Sound(p, y, t, ends)
  BY <1>2, RecastSound
<1> QED
  BY <1>1, <1>2, <1>3 DEF Late, Cleared, EndFrom

\* x at closing, when the services that end with it have ended.
AtClosing(p, x, t, ends) == Sound(p, x, t, ends) /\ ~x.gone /\ EndFrom(p, x, t) /\ BreakFrom(x, t)

\* y is x when his service has ended at closing.
DoneAtClosing(p, x, t, ends, y) ==
  /\ AtClosing(p, y, t, ends)
  /\ y.state = (IF x.state = "SERVING_SHIFT_ENDED" THEN "OFF" ELSE "AVAILABLE")
  /\ x.state # "SERVING_SHIFT_ENDED" => y.since = t

\* A service that ends at closing: no break follows it.
LEMMA ClosingCompletion ==
  ASSUME NEW p, PlanOK(p), NEW x, NEW t \in Nat, t >= Closing, NEW ends, x.state \in Serving, AtClosing(p, x, t, ends)
  PROVE  DoneAtClosing(p, x, t, ends, Complete(p, x, t, TRUE))
<1>1. PICK y : y = Complete(p, x, t, TRUE)
  OBVIOUS
<1>2. /\ Sound(p, x, t, ends) /\ ~x.gone /\ EndFrom(p, x, t) /\ BreakFrom(x, t)
  BY DEF AtClosing
<1>3. CASE x.state = "SERVING_SHIFT_ENDED"
  <2>1. y = GoOff(p, x, t)
    BY <1>1, <1>3 DEF Complete
  <2>2. OffAt(p, x, t, ends, y)
    BY <1>2, <1>3, <2>1, LastCustomer
  <2> QED
    BY <1>1, <1>2, <1>3, <2>2 DEF OffAt, AtClosing, EndFrom, BreakFrom, DoneAtClosing
<1>4. CASE x.state \in {"SERVING", "SERVING_BREAK_DUE"}
  <2>1. y = Idle(x, t)
    BY <1>1, <1>4 DEF Complete, Idle
  <2>2. Freed(p, x, t, ends, y)
    BY <1>2, <1>4, <2>1, FreedIs
  <2>3. y.since = t
    BY <1>2, <2>1, IdleIs DEF Sound
  <2>4. AtClosing(p, y, t, ends) /\ y.state = "AVAILABLE"
    BY <1>2, <2>2 DEF Freed, AtClosing
  <2> QED
    BY <1>1, <1>4, <2>3, <2>4 DEF DoneAtClosing
<1> QED
  BY <1>3, <1>4 DEF Serving

\* Who drains the line only has his breaks cancelled.
LEMMA CrewIsTold ==
  ASSUME NEW p, PlanOK(p), NEW x, NEW t \in Nat, NEW ends, AtClosing(p, x, t, ends), x.state \in {"AVAILABLE", "SERVING"}
  PROVE  LET y == ApplyCancel(x) IN Late(p, y, t, ends, t) /\ y.gone = FALSE /\ y.state = x.state /\ y.since = x.since
<1>1. PICK y : y = ApplyCancel(x)
  OBVIOUS
<1>2. Sound(p, x, t, ends) /\ ~x.gone /\ EndFrom(p, x, t) /\ x \in Employee
  BY DEF AtClosing, Sound
<1>3. CancelDone(p, x, t, ends, y)
  BY <1>1, <1>2, CancelKeeps
<1>4. /\ Sound(p, y, t, ends) /\ Cleared(y) /\ y.state = x.state /\ y.gone = x.gone
      /\ y.shift = x.shift /\ y.reached = x.reached
  BY <1>3 DEF CancelDone, Alike
<1>5. y.gone = FALSE
  BY <1>2, <1>4 DEF Employee
<1>6. y.since = x.since
  BY <1>1, <1>2 DEF ApplyCancel, Employee
<1> QED
  BY <1>1, <1>2, <1>4, <1>5, <1>6 DEF Late, EndFrom

\* y is x, released and with no break to come; who serves goes on until the customer leaves.
ToldToGo(p, x, t, ends, y) == Late(p, y, t, ends, t) /\ y.gone = TRUE /\ (y.state \in Serving <=> x.state \in Serving)

\* Whoever else is at work or off is released.
LEMMA OthersAreTold ==
  ASSUME NEW p, PlanOK(p), NEW x, NEW t \in Nat, t >= Closing, NEW ends, AtClosing(p, x, t, ends), x.state # "ON_BREAK"
  PROVE  ToldToGo(p, x, t, ends, ApplyRelease(p, ApplyCancel(x), t))
<1>1. PICK z : z = ApplyCancel(x)
  OBVIOUS
<1>2. PICK y : y = ApplyRelease(p, z, t)
  OBVIOUS
<1>3. Sound(p, x, t, ends) /\ ~x.gone /\ EndFrom(p, x, t)
  BY DEF AtClosing
<1>4. CancelDone(p, x, t, ends, z)
  BY <1>1, <1>3, CancelKeeps
<1>5. /\ Sound(p, z, t, ends) /\ Cleared(z) /\ z.state # "ON_BREAK" /\ z.gone = x.gone
      /\ z.shift = x.shift /\ z.reached = x.reached
  BY <1>4 DEF CancelDone, Alike
<1>6. EndFrom(p, z, t)
  BY <1>3, <1>5 DEF EndFrom
<1>7. ReleaseDone(p, z, t, ends, y)
  BY <1>2, <1>3, <1>5, ReleaseKeeps
<1> QED
  <2>1. z.state \in Serving <=> x.state \in Serving
    BY <1>4 DEF CancelDone, Serving
  <2>2. y.state \in Serving <=> z.state \in Serving
    BY <1>5, <1>7 DEF ReleaseDone, Serving
  <2>3. Late(p, y, t, ends, t) /\ y.gone = TRUE
    BY <1>5, <1>6, <1>7 DEF ReleaseDone, Late
  <2> QED
    BY <1>1, <1>2, <2>1, <2>2, <2>3 DEF ToldToGo

\* So is who serves with a break due, before the break is cancelled.
LEMMA DueIsTold ==
  ASSUME NEW p, PlanOK(p), NEW x, NEW t \in Nat, t >= Closing, NEW ends, AtClosing(p, x, t, ends),
         x.state = "SERVING_BREAK_DUE"
  PROVE  ToldToGo(p, x, t, ends, ApplyCancel(ApplyRelease(p, x, t)))
<1>1. PICK z : z = ApplyRelease(p, x, t)
  OBVIOUS
<1>2. PICK y : y = ApplyCancel(z)
  OBVIOUS
<1>3. Sound(p, x, t, ends) /\ ~x.gone /\ EndFrom(p, x, t)
  BY DEF AtClosing
<1>4. ReleaseDone(p, x, t, ends, z)
  BY <1>1, <1>3, ReleaseKeeps
<1>5. Sound(p, z, t, ends) /\ z.gone = TRUE /\ z.state = "SERVING_SHIFT_ENDED" /\ EndFrom(p, z, t)
  BY <1>3, <1>4 DEF ReleaseDone, Serving
<1>6. CancelDone(p, z, t, ends, y)
  BY <1>2, <1>5, CancelKeeps
<1>7. /\ Sound(p, y, t, ends) /\ Cleared(y) /\ y.state = z.state /\ y.gone = z.gone
      /\ y.shift = z.shift /\ y.reached = z.reached
  BY <1>5, <1>6 DEF CancelDone, Alike
<1> QED
  BY <1>1, <1>2, <1>5, <1>7 DEF Late, EndFrom, ToldToGo, Serving

\* A break is cut short, and the employee goes home.
LEMMA BreakIsCut ==
  ASSUME NEW p, PlanOK(p), NEW x, NEW t \in Nat, t = Closing, NEW ends, AtClosing(p, x, t, ends), x.state = "ON_BREAK"
  PROVE  ToldToGo(p, x, t, ends, EndBreakAtClosing(p, ApplyRelease(p, ApplyCancel(x), t), t))
<1>1. PICK z : z = ApplyCancel(x)
  OBVIOUS
<1>2. PICK w : w = ApplyRelease(p, z, t)
  OBVIOUS
<1>3. Sound(p, x, t, ends) /\ ~x.gone /\ EndFrom(p, x, t) /\ BreakFrom(x, t)
  BY DEF AtClosing
<1>4. CancelDone(p, x, t, ends, z)
  BY <1>1, <1>3, CancelKeeps
<1>5. Sound(p, z, t, ends) /\ Cleared(z) /\ z.state = "ON_BREAK" /\ z.gone = x.gone /\ BreakFrom(z, t)
  BY <1>3, <1>4 DEF CancelDone, Alike
<1>6. ReleaseDone(p, z, t, ends, w)
  BY <1>2, <1>3, <1>5, ReleaseKeeps
<1>7. /\ Sound(p, w, t, ends) /\ w.gone = TRUE /\ w.state = "ON_BREAK" /\ w.basis # "none" /\ Cleared(w) /\ BreakFrom(w, t)
  BY <1>5, <1>6 DEF ReleaseDone, Serving
<1>8. PICK i : Current(w, i)
  BY DEF Current
<1>9. w.shift # 0 /\ i \in DOMAIN w.rests[w.shift] /\ Underway(w.rests[w.shift][i])
  <2>1. w.shift \in 1 .. Len(p) /\ Len(p) \in Nat
    BY <1>7, CurrentIs DEF PlanOK
  <2> QED
    BY <1>7, <1>8, <2>1, CurrentIs DEF Current
<1>10. PICK row : row = w.rests[w.shift][i]
  OBVIOUS
<1>11. StopsAt(row, t, "truncated_by_closing")
  BY <1>7, <1>9, <1>10 DEF StopsAt, BreakFrom
<1>12. StopsAt(w.rests[w.shift][i], t, "truncated_by_closing")
  BY <1>10, <1>11
<1>13. PICK s : s = Stopped(w, i, t, "truncated_by_closing")
  OBVIOUS
<1>14. PICK y : y = EndBreak(p, w, t, "truncated_by_closing")
  OBVIOUS
<1>15. OffAt(p, s, t, ends, y)
  BY <1>7, <1>8, <1>12, <1>13, <1>14, EndBreakKeeps
<1>16. AfterBreak(p, w, t, ends, i, s)
  BY <1>7, <1>8, <1>12, <1>13, BreakOver
<1>17. Past(p, s, t, ends) /\ s.gone
  BY <1>7, <1>16 DEF AfterBreak, Alike
<1>18. Cleared(y)
  BY <1>15, <1>17, OffForGood
<1>19. Sound(p, y, t, ends) /\ y.state = "OFF" /\ y.shift = 0 /\ y.gone = TRUE
  <2>1. s.gone = TRUE
    BY <1>7, <1>16 DEF AfterBreak, Alike
  <2> QED
    BY <1>15, <2>1 DEF OffAt
<1>20. EndBreakAtClosing(p, w, t) = y
  BY <1>7, <1>14 DEF EndBreakAtClosing
<1> QED
  BY <1>1, <1>2, <1>18, <1>19, <1>20 DEF Late, EndFrom, ToldToGo, Serving

-----------------------------------------------------------------------------
(* The next instant *)

\* One break goes on at most.
LEMMA OneBreakGoesOn ==
  ASSUME NEW p, PlanOK(p), NEW x, NEW t \in Int, NEW ends, Sound(p, x, t, ends), x.state = "ON_BREAK",
         NEW i \in DOMAIN x.rests[x.shift], Underway(x.rests[x.shift][i])
  PROVE  i = CurrentBreak(x)
<1>1. PICK j : j = CurrentBreak(x)
  OBVIOUS
<1>2. x.shift \in 1 .. Len(p) /\ j \in DOMAIN x.rests[x.shift] /\ Underway(x.rests[x.shift][j])
  BY <1>1, CurrentIs
<1>3. RowsOK(x.rests[x.shift], t) /\ DOMAIN x.rests[x.shift] = DOMAIN p[x.shift].breaks
  BY <1>2 DEF Sound, Past, RestsOK
<1>4. PICK m \in Nat : DOMAIN x.rests[x.shift] = 1 .. m
  BY <1>2, <1>3 DEF PlanOK
<1>5. x.rests[x.shift][i].due # None /\ x.rests[x.shift][j].due # None
  BY <1>2, <1>3 DEF RowsOK, RowOK, Underway
<1>6. ~ (i < j) /\ ~ (j < i)
  BY <1>2, <1>3, <1>5 DEF RowsOK, Underway
<1> QED
  BY <1>1, <1>2, <1>4, <1>6

\* The end of a break is a minute.
LEMMA BreakEndIs ==
  ASSUME NEW p, PlanOK(p), NEW x, NEW t \in Int, NEW ends, Sound(p, x, t, ends), x.state = "ON_BREAK"
  PROVE  /\ BreakEnd(x) \in Nat
         /\ \A i \in DOMAIN x.rests[x.shift] : Underway(x.rests[x.shift][i]) => BreakEnd(x) = x.rests[x.shift][i].start + BreakLength
         /\ \A u : BreakFrom(x, u) => u <= BreakEnd(x)
<1>1. PICK j : j = CurrentBreak(x)
  OBVIOUS
<1>2. x.shift \in 1 .. Len(p) /\ j \in DOMAIN x.rests[x.shift] /\ Underway(x.rests[x.shift][j])
  BY <1>1, CurrentIs
<1>3. BreakEnd(x) = x.rests[x.shift][j].start + BreakLength
  BY <1>1 DEF BreakEnd
<1>4. RowOK(x.rests[x.shift][j], t)
  BY <1>2 DEF Sound, Past, RestsOK, RowsOK
<1>5. x.rests[x.shift][j].start \in Nat
  BY <1>2, <1>4 DEF RowOK, BreakRow, Time, None, Underway
<1>6. \A i \in DOMAIN x.rests[x.shift] : Underway(x.rests[x.shift][i]) => i = j
  BY <1>1, OneBreakGoesOn
<1>7. x.shift # 0
  <2>1. Len(p) \in Nat
    BY DEF PlanOK
  <2> QED
    BY <1>2, <2>1
<1>8. \A u : BreakFrom(x, u) => u <= BreakEnd(x)
  BY <1>2, <1>3, <1>7 DEF BreakFrom
<1> QED
  BY <1>3, <1>5, <1>6, <1>8, WorkforceAssumption

\* The start of a shift is a minute.
LEMMA ActivationIsATime ==
  ASSUME NEW p, PlanOK(p), NEW x, NEW t \in Int, NEW ends, Sound(p, x, t, ends), x.next <= Len(p)
  PROVE  Activation(p, x.next, x.last) \in Nat
<1>1. x.last \in Time /\ x.next \in 1 .. Len(p) + 1 /\ Len(p) \in Nat
  BY DEF Sound, Past, DutyOK, PlanOK
<1>2. p[x.next].start \in Nat
  BY <1>1 DEF PlanOK
<1> QED
  BY <1>1, <1>2, WorkforceAssumption DEF Activation, Larger, Time, None

\* What is scheduled for somebody before closing is later than the last instant.
LEMMA TimesAhead ==
  ASSUME NEW p, PlanOK(p), NEW x, NEW n \in Int, n >= -1, NEW ends, Fit(p, x, n, ends, n + 1, n + 1, n + 1, n + 1),
         NEW v \in Times(p, x)
  PROVE  v \in Nat /\ v > n
<1>1. /\ Sound(p, x, n, ends) /\ ~x.gone
      /\ EndFrom(p, x, n + 1) /\ BreakFrom(x, n + 1) /\ DueFrom(p, x, n + 1) /\ ActivationFrom(p, x, n + 1)
  BY DEF Fit, Ahead
<1>2. x.shift \in 0 .. Len(p) /\ Len(p) \in Nat /\ x.next \in 1 .. Len(p) + 1
  BY <1>1 DEF Sound, Past, DutyOK, PlanOK
<1>3. CASE v \in ActivationTimes(p, x)
  <2>1. x.shift = 0 /\ x.next <= Len(p) /\ v = Activation(p, x.next, x.last)
    BY <1>2, <1>3 DEF ActivationTimes
  <2>2. v \in Nat
    BY <1>1, <2>1, ActivationIsATime
  <2> QED
    BY <1>1, <2>1, <2>2 DEF ActivationFrom
<1>4. CASE v \in DueTimes(p, x)
  <2>1. v \in Int
    BY <1>1, <1>4, DueBreak
  <2> QED
    BY <1>1, <1>4, <2>1 DEF DueFrom
<1>5. CASE x.shift # 0 /\ ~x.reached /\ v = p[x.shift].end
  <2>1. v \in Nat
    BY <1>2, <1>5 DEF PlanOK
  <2> QED
    BY <1>1, <1>5, <2>1 DEF EndFrom
<1>6. CASE x.state = "ON_BREAK" /\ v = BreakEnd(x)
  <2>1. v \in Nat /\ n + 1 <= v
    BY <1>1, <1>6, BreakEndIs
  <2> QED
    BY <2>1
<1> QED
  BY <1>3, <1>4, <1>5, <1>6 DEF Times

\* So it is after closing.
LEMMA LateTimesAhead ==
  ASSUME NEW p, PlanOK(p), NEW x, NEW n \in Int, n >= -1, NEW ends, Late(p, x, n, ends, n + 1), NEW v \in Times(p, x)
  PROVE  v \in Nat /\ v > n /\ x.shift # 0 /\ ~x.reached /\ v = p[x.shift].end
<1>1. Sound(p, x, n, ends) /\ Cleared(x) /\ EndFrom(p, x, n + 1) /\ x.state # "ON_BREAK" /\ (x.shift = 0 => x.gone)
  BY DEF Late, Sound, StateOK
<1>2. x.shift \in 0 .. Len(p) /\ Len(p) \in Nat
  BY <1>1 DEF Sound, Past, DutyOK, PlanOK
<1>3. DueTimes(p, x) = {} /\ ActivationTimes(p, x) = {}
  BY <1>1, NothingFallsDue DEF ActivationTimes
<1>4. x.shift # 0 /\ ~x.reached /\ v = p[x.shift].end
  BY <1>1, <1>3 DEF Times
<1>5. v \in Nat
  BY <1>2, <1>4 DEF PlanOK
<1> QED
  BY <1>1, <1>4, <1>5 DEF EndFrom

\* Time goes on to the next instant t.
LEMMA FitUntil ==
  ASSUME NEW p, PlanOK(p), NEW x, NEW n \in Int, NEW ends, Fit(p, x, n, ends, n + 1, n + 1, n + 1, n + 1),
         NEW t \in Nat, n < t, \A v \in Times(p, x) : t <= v, NEW more, ends \subseteq more
  PROVE  Fit(p, x, t, more, t, t, t, t)
<1>1. Sound(p, x, n, ends) /\ Settled(x) /\ ~x.gone /\ ActivationFrom(p, x, n + 1)
  BY DEF Fit, Ahead
<1>2. n <= t
  OBVIOUS
<1>3. Sound(p, x, t, more)
  BY <1>1, <1>2, SoundLater
<1>4. EndFrom(p, x, t) /\ DueFrom(p, x, t)
  BY DEF EndFrom, DueFrom, Times
<1>5. BreakFrom(x, t)
  <2> SUFFICES ASSUME x.shift # 0, NEW i \in DOMAIN x.rests[x.shift], Underway(x.rests[x.shift][i])
               PROVE  t <= x.rests[x.shift][i].start + BreakLength
    BY DEF BreakFrom
  <2>1. x.state = "ON_BREAK"
    BY <1>1 DEF Sound, StateOK, Past, DutyOK, PlanOK
  <2>2. BreakEnd(x) = x.rests[x.shift][i].start + BreakLength
    BY <1>1, <2>1, BreakEndIs
  <2>3. t <= BreakEnd(x)
    BY <2>1 DEF Times
  <2> QED
    BY <2>2, <2>3
<1>6. ActivationFrom(p, x, t)
  <2> SUFFICES ASSUME x.shift = 0, ~x.gone, x.next <= Len(p)
               PROVE  t <= Activation(p, x.next, x.last) /\ Activation(p, x.next, x.last) < p[x.next].end
    BY DEF ActivationFrom
  <2>1. Activation(p, x.next, x.last) < p[x.next].end
    BY <1>1 DEF ActivationFrom
  <2>2. ~ (x.next > Len(p))
    BY <1>1 DEF Sound, Past, DutyOK, PlanOK
  <2>3. t <= Activation(p, x.next, x.last)
    BY <2>2 DEF Times, ActivationTimes
  <2> QED
    BY <2>1, <2>3
<1> QED
  BY <1>1, <1>3, <1>4, <1>5, <1>6 DEF Fit, Ahead

\* So it does after closing.
LEMMA LateUntil ==
  ASSUME NEW p, PlanOK(p), NEW x, NEW n \in Int, NEW ends, Late(p, x, n, ends, n + 1),
         NEW t \in Nat, n < t, \A v \in Times(p, x) : t <= v, NEW more, ends \subseteq more
  PROVE  Late(p, x, t, more, t)
<1>1. n <= t /\ Sound(p, x, n, ends) /\ Cleared(x)
  BY DEF Late
<1>2. Sound(p, x, t, more)
  BY <1>1, SoundLater
<1>3. EndFrom(p, x, t)
  BY DEF EndFrom, Times
<1> QED
  BY <1>1, <1>2, <1>3 DEF Late

-----------------------------------------------------------------------------
(* The end of an instant, for the employees *)

\* y is x, or x with a register.
HandedOver(x, y, t) == y = x \/ (x.state = "WAITING_FOR_REGISTER" /\ Recast(x, y, "AVAILABLE") /\ y.since = t)

\* The handover gives a register to some of those who wait, and leaves the others alone.
LEMMA HandoverIs ==
  ASSUME NEW x, NEW k \in Nat, NEW t \in Nat, NEW e \in Employees, x[e] \in Employee
  PROVE  HandedOver(x[e], Handover(x, k, t)[e], t)
<1> DEFINE free == (1 .. k) \ Held(x)
           waiting == {d \in Employees : x[d].state = "WAITING_FOR_REGISTER"}
           before(d) == {c \in waiting : x[c].wait < x[d].wait \/ (x[c].wait = x[d].wait /\ c < d)}
           takes(d) == {r \in free : Cardinality({q \in free : q < r}) = Cardinality(before(d))}
<1>1. PICK S : S = takes(e)
  OBVIOUS
<1>2. S \subseteq Nat
  BY <1>1
<1>3. Handover(x, k, t)[e] = IF e \in waiting /\ S # {} THEN TakesRegister(x[e], Least(S), t) ELSE x[e]
  BY <1>1, Zenon DEF Handover, TakesRegister
<1>4. e \in waiting => x[e].state = "WAITING_FOR_REGISTER"
  OBVIOUS
<1> HIDE DEF free, waiting, before, takes
<1>5. CASE e \in waiting /\ S # {}
  <2>1. Least(S) \in Nat
    BY <1>2, <1>5, LeastIs
  <2>2. PICK y : y = TakesRegister(x[e], Least(S), t)
    OBVIOUS
  <2>3. Recast(x[e], y, "AVAILABLE") /\ y.since = t
    BY <2>1, <2>2, TakesRegisterIs
  <2>4. y = Handover(x, k, t)[e]
    BY <1>3, <1>5, <2>2
  <2> QED
    BY <1>4, <1>5, <2>3, <2>4 DEF HandedOver
<1>6. CASE ~ (e \in waiting /\ S # {})
  BY <1>3, <1>6 DEF HandedOver
<1> QED
  BY <1>5, <1>6

\* Who comes at t, in the order of the numbers.
Coming(t) == [k \in 1 .. Cardinality(Arriving(t)) |-> sim.come + k]

\* The employees after the stages of t, d being those before them.
Staged(d, t, closed) == [e \in Employees |-> Scheduled(day.roster[e], d[e], t, closed)[4]]

\* The first customers of queue who are taken, each by one of the employees x.
TakenBy(x, queue, e) == queue[Rank(x, e) + 1]

Taken(x, queue) == {TakenBy(x, queue, e) : e \in Taking(x, queue)}

Taker(x, queue, c) == CHOOSE e \in Taking(x, queue) : TakenBy(x, queue, e) = c

\* The customers after t.
CustomersThen(x, queue, sentAway, t, work) ==
  [c \in Customers |->
    IF c \in Taken(x, queue)
    THEN [by |-> Taker(x, queue, c), start |-> t, finish |-> t + work[Taker(x, queue, c)], departed |-> FALSE,
          unserved |-> "no"]
    ELSE IF c \in Departing(t) THEN [sim.customer[c] EXCEPT !.departed = TRUE]
    ELSE IF c \in sentAway
    THEN [sim.customer[c] EXCEPT !.unserved = IF day.policy = "HARD_CUTOFF" THEN "hard_cutoff" ELSE "no_eligible_employee"]
    ELSE sim.customer[c]]

\* What an instant comes to, ready being the employees and queue the line before customers are taken.
Turn(ready, queue, sentAway, crew, t, closed, work) ==
  /\ work \in [Taking(ready, queue) -> Works]
  /\ emp' = [e \in Employees |-> IF e \in Taking(ready, queue) THEN WithState(ready[e], "SERVING") ELSE ready[e]]
  /\ sim'.line = SubSeq(queue, Cardinality(Taking(ready, queue)) + 1, Len(queue))
  /\ sim'.come = sim.come + Len(Coming(t)) /\ sim'.crew = crew
  /\ sim'.customer = CustomersThen(ready, queue, sentAway, t, work)
  /\ clock' = [now |-> t, closed |-> closed]
  /\ day' = day

\* steps are four steps of each employee, the last of them d.
StepsTo(steps, d) == \A e \in Employees : \E a, b, c : steps[e] = <<a, b, c, d[e]>>

\* The last of eight.
LEMMA LastOfEight ==
  ASSUME NEW s, NEW a, NEW b, NEW c, NEW d, s = <<a, b, c, d>>, NEW u, NEW e, NEW f, NEW g, NEW h, u = <<e, f, g, h>>
  PROVE  Last(s) = d /\ Last(s \o u) = h
<1> DEFINE T == {a, b, c, d, e, f, g, h}
<1>1. s \in Seq(T) /\ u \in Seq(T) /\ Len(s) = 4 /\ Len(u) = 4
  OBVIOUS
<1>2. s \o u \in Seq(T) /\ Len(s \o u) = 8 /\ (s \o u)[8] = u[4]
  BY <1>1
<1> QED
  BY <1>1, <1>2 DEF Last

\* Finished is such a turn.
LEMMA FinishedIs ==
  ASSUME NEW steps, NEW d, StepsTo(steps, d), NEW line, NEW sentAway, NEW crew, NEW t, NEW closed,
         Finished(steps, line, sentAway, crew, t, closed)
  PROVE  \E work : Turn(Handover(Staged(d, t, closed), day.registers, t), line \o Coming(t), sentAway, crew, t, closed, work)
<1>1. PICK staged : staged = Staged(d, t, closed)
  OBVIOUS
<1>2. PICK more : more = [e \in Employees |-> steps[e] \o Scheduled(day.roster[e], Last(steps[e]), t, closed)]
  OBVIOUS
<1>3. ASSUME NEW e \in Employees PROVE Last(steps[e]) = d[e] /\ Last(more[e]) = staged[e]
  <2>1. PICK u : u = Scheduled(day.roster[e], d[e], t, closed)
    OBVIOUS
  <2>2. PICK y1, y2, y3, y4 : u = <<y1, y2, y3, y4>>
    BY <2>1 DEF Scheduled
  <2>3. PICK s : s = steps[e]
    OBVIOUS
  <2>4. PICK a, b, c : s = <<a, b, c, d[e]>>
    BY <2>3 DEF StepsTo
  <2>5. Last(s) = d[e] /\ Last(s \o u) = y4
    BY <2>2, <2>4, LastOfEight
  <2>6. staged[e] = u[4] /\ u[4] = y4
    <3>1. staged[e] = Scheduled(day.roster[e], d[e], t, closed)[4]
      BY <1>1, Zenon DEF Staged
    <3>2. staged[e] = u[4]
      BY <2>1, <3>1, Zenon
    <3>3. u[4] = y4
      BY <2>2
    <3> QED
      BY <3>2, <3>3
  <2>7. more[e] = s \o u
    BY <1>2, <2>1, <2>3, <2>5
  <2> QED
    BY <2>3, <2>5, <2>6, <2>7
<1>4. [e \in Employees |-> Last(more[e])] = staged
  BY <1>1, <1>3 DEF Staged
<1>5. PICK ready : ready = Handover(staged, day.registers, t)
  OBVIOUS
<1>6. PICK queue : queue = line \o Coming(t)
  OBVIOUS
<1>7. PICK work \in [Taking(ready, queue) -> Works] :
        \E a \in {Assign(ready, queue, t, work)} :
          /\ emp' = a.emp
          /\ sim' = [line |-> a.line, come |-> sim.come + Len(Coming(t)), crew |-> crew, area |-> Area(t),
                     most |-> IF t < Closing THEN Larger(sim.most, Len(a.line)) ELSE sim.most,
                     customer |-> [c \in Customers |->
                       IF c \in DOMAIN a.served THEN a.served[c]
                       ELSE IF c \in Departing(t) THEN [sim.customer[c] EXCEPT !.departed = TRUE]
                       ELSE IF c \in sentAway
                       THEN [sim.customer[c] EXCEPT
                               !.unserved = IF day.policy = "HARD_CUTOFF" THEN "hard_cutoff" ELSE "no_eligible_employee"]
                       ELSE sim.customer[c]]]
          /\ clock' = [now |-> t, closed |-> closed]
          /\ UNCHANGED day
  <2>1. \E ready2 \in {Handover([e \in Employees |-> Last(more[e])], day.registers, t)}, queue2 \in {Queue(line, Coming(t))} :
        \E all \in {[e \in Employees |-> Append(more[e], ready2[e])]} :
          Concluded(ready2, queue2, all, line, Coming(t), sentAway, crew, t, closed)
    BY <1>2, Zenon DEF Finished, Coming
  <2>2. PICK all : Concluded(ready, queue, all, line, Coming(t), sentAway, crew, t, closed)
    BY <1>4, <1>5, <1>6, <2>1, Zenon DEF Queue
  <2>3. PICK come : come = Coming(t)
    OBVIOUS
  <2>4. Concluded(ready, queue, all, line, come, sentAway, crew, t, closed)
    BY <2>2, <2>3
  <2> QED
    BY <2>3, <2>4, ZenonT(60) DEF Concluded
<1>8. PICK a : a = Assign(ready, queue, t, work)
  OBVIOUS
<1>9. /\ a.emp = [e \in Employees |-> IF e \in Taking(ready, queue) THEN WithState(ready[e], "SERVING") ELSE ready[e]]
      /\ a.line = SubSeq(queue, Cardinality(Taking(ready, queue)) + 1, Len(queue))
      /\ a.served = [c \in Taken(ready, queue) |->
            [by |-> Taker(ready, queue, c), start |-> t, finish |-> t + work[Taker(ready, queue, c)], departed |-> FALSE,
             unserved |-> "no"]]
  BY <1>8 DEF Assign, Taken, Taker, TakenBy, WithState
<1>10. PICK served : served = a.served
  OBVIOUS
<1>11. DOMAIN served = Taken(ready, queue) /\ \A c \in Taken(ready, queue) : served[c] =
            [by |-> Taker(ready, queue, c), start |-> t, finish |-> t + work[Taker(ready, queue, c)], departed |-> FALSE,
             unserved |-> "no"]
  BY <1>9, <1>10
<1>12. sim'.customer = [c \in Customers |->
                       IF c \in DOMAIN served THEN served[c]
                       ELSE IF c \in Departing(t) THEN [sim.customer[c] EXCEPT !.departed = TRUE]
                       ELSE IF c \in sentAway
                       THEN [sim.customer[c] EXCEPT
                               !.unserved = IF day.policy = "HARD_CUTOFF" THEN "hard_cutoff" ELSE "no_eligible_employee"]
                       ELSE sim.customer[c]]
  BY <1>7, <1>8, <1>10
<1>13. sim'.customer = CustomersThen(ready, queue, sentAway, t, work)
  BY <1>11, <1>12 DEF CustomersThen
<1>14. Turn(ready, queue, sentAway, crew, t, closed, work)
  BY <1>7, <1>8, <1>9, <1>13 DEF Turn
<1> QED
  BY <1>1, <1>5, <1>6, <1>14

-----------------------------------------------------------------------------
(* Who serves, and since when who is free *)

\* x has a state and a time since when he is free; y has them too, and this state.
Stated(x) == "state" \in DOMAIN x /\ "since" \in DOMAIN x

InState(x, y, s) == Stated(y) /\ y.state = s /\ y.since = x.since

\* Nothing that sends somebody home, to a break or to wait touches the time since when he is free.
LEMMA GoOffState ==
  ASSUME NEW p, NEW x, Stated(x), NEW t
  PROVE  InState(x, GoOff(p, x, t), "OFF")
<1>1. PICK next, duty, rests :
        GoOff(p, x, t) = [x EXCEPT !.state = "OFF", !.register = 0, !.wait = None, !.shift = 0, !.basis = "none",
                                   !.last = t, !.next = next, !.duty = duty, !.rests = rests]
  BY Zenon DEF GoOff
<1>2. PICK y : y = [x EXCEPT !.state = "OFF", !.register = 0, !.wait = None, !.shift = 0, !.basis = "none",
                             !.last = t, !.next = next, !.duty = duty, !.rests = rests]
  OBVIOUS
<1>3. DOMAIN y = DOMAIN x
  BY <1>2, Zenon
<1>4. y.state = "OFF"
  BY <1>2, Zenon DEF Stated
<1>5. y.since = x.since
  BY <1>2, Zenon DEF Stated
<1>6. InState(x, y, "OFF")
  BY <1>3, <1>4, <1>5 DEF InState, Stated
<1> QED
  BY <1>1, <1>2, <1>6, Zenon

\* Nor does what begins a break.
LEMMA StartBreakState ==
  ASSUME NEW x, Stated(x), NEW t
  PROVE  InState(x, StartBreak(x, t), "ON_BREAK")
<1>1. PICK rests :
        StartBreak(x, t) = [x EXCEPT !.state = "ON_BREAK", !.register = 0, !.wait = None, !.rests = rests]
  BY Zenon DEF StartBreak
<1>2. PICK y : y = [x EXCEPT !.state = "ON_BREAK", !.register = 0, !.wait = None, !.rests = rests]
  OBVIOUS
<1>3. Stated(y) /\ y.state = "ON_BREAK" /\ y.since = x.since
  BY <1>2 DEF Stated
<1> QED
  BY <1>1, <1>2, <1>3 DEF InState

\* Nor does what joins those who wait for a register.
LEMMA JoinWaitState ==
  ASSUME NEW x, Stated(x), NEW t
  PROVE  InState(x, JoinWait(x, t), "WAITING_FOR_REGISTER")
<1>1. PICK y : y = JoinWait(x, t)
  OBVIOUS
<1>2. Stated(y) /\ y.state = "WAITING_FOR_REGISTER" /\ y.since = x.since
  BY <1>1 DEF Stated, JoinWait
<1> QED
  BY <1>1, <1>2 DEF InState

\* y serves if and only if x does, and is free since when x was.
Moves(x, y) == Stated(y) /\ y.since = x.since /\ (y.state \in Serving <=> x.state \in Serving)

\* The states nobody serves in.
LEMMA NotServing ==
  ASSUME NEW x, NEW y, NEW s \in {"OFF", "ON_BREAK", "WAITING_FOR_REGISTER"}, InState(x, y, s), x.state \notin Serving
  PROVE  Moves(x, y)
BY DEF InState, Moves, Serving

\* The end of a shift takes nobody from his customer.
LEMMA ShiftEndMoves ==
  ASSUME NEW p, NEW x \in Employee, NEW t, NEW closed \in BOOLEAN
  PROVE  Moves(x, ShiftEnd(p, x, t, closed))
<1>1. PICK z : z = Passed(x)
  OBVIOUS
<1>2. PICK due : due = Over(z)
  OBVIOUS
<1>3. z \in Employee /\ z.since = x.since /\ z.state = x.state
  BY <1>1 DEF Passed, Employee
<1>4. due \in Employee /\ due.since = x.since /\ due.state = x.state
  BY <1>2, <1>3 DEF Over, Employee
<1>5. Stated(x) /\ Stated(z) /\ Stated(due)
  BY <1>3, <1>4 DEF Employee, Stated
<1>6. PICK y : y = ShiftEnd(p, x, t, closed)
  OBVIOUS
<1>7. \/ y = x \/ y = z \/ y = due
      \/ x.state \in {"AVAILABLE", "WAITING_FOR_REGISTER"} /\ y = GoOff(p, due, t)
      \/ x.state \in Serving /\ y = WithState(due, "SERVING_SHIFT_ENDED")
  BY <1>1, <1>2, <1>6, Zenon DEF ShiftEnd, Passed, Over, WithState
<1>8. CASE y = x \/ y = z \/ y = due
  BY <1>3, <1>4, <1>5, <1>6, <1>8 DEF Moves
<1>9. CASE x.state \in {"AVAILABLE", "WAITING_FOR_REGISTER"} /\ y = GoOff(p, due, t)
  <2>1. InState(due, y, "OFF") /\ x.state \notin Serving
    BY <1>5, <1>9, GoOffState DEF Serving
  <2> QED
    BY <1>4, <1>6, <2>1 DEF InState, Moves, Serving
<1>10. CASE x.state \in Serving /\ y = WithState(due, "SERVING_SHIFT_ENDED")
  <2>1. Stated(y) /\ y.since = due.since /\ y.state = "SERVING_SHIFT_ENDED"
    BY <1>5, <1>10 DEF WithState, Stated
  <2> QED
    BY <1>4, <1>6, <1>10, <2>1 DEF Moves, Serving
<1> QED
  BY <1>7, <1>8, <1>9, <1>10

\* The end of a break brings nobody a customer.
LEMMA BreakEndsMoves ==
  ASSUME NEW p, NEW x \in Employee, NEW t
  PROVE  Moves(x, BreakEnds(p, x, t))
<1>1. PICK y : y = BreakEnds(p, x, t)
  OBVIOUS
<1>2. Stated(x)
  BY DEF Employee, Stated
<1>3. y = x \/ (x.state = "ON_BREAK" /\ y = EndBreak(p, x, t, "completed"))
  BY <1>1 DEF BreakEnds
<1>4. CASE y = x
  BY <1>1, <1>2, <1>4 DEF Moves
<1>5. CASE x.state = "ON_BREAK" /\ y = EndBreak(p, x, t, "completed")
  <2>1. PICK rests : y = GoOff(p, WithRests(x, rests), t) \/ y = JoinWait(WithRests(x, rests), t)
    BY <1>5, Zenon DEF EndBreak, WithRests
  <2>2. PICK z : z = WithRests(x, rests)
    OBVIOUS
  <2>3. Stated(z) /\ z.since = x.since /\ z.state = x.state
    BY <1>2, <2>2 DEF Stated, WithRests
  <2>4. InState(z, y, "OFF") \/ InState(z, y, "WAITING_FOR_REGISTER")
    BY <2>1, <2>2, <2>3, GoOffState, JoinWaitState
  <2> QED
    BY <1>1, <1>5, <2>3, <2>4 DEF InState, Moves, Serving
<1> QED
  BY <1>3, <1>4, <1>5

\* A break that falls due waits for the end of a service.
LEMMA BreakDueMoves ==
  ASSUME NEW p, NEW x \in Employee, NEW t, BreakDue(p, x, t) \in Employee
  PROVE  Moves(x, BreakDue(p, x, t))
<1>1. PICK y : y = BreakDue(p, x, t)
  OBVIOUS
<1>2. Stated(x)
  BY DEF Employee, Stated
<1>3. PICK rests :
        \/ y = x
        \/ x.state \in {"AVAILABLE", "WAITING_FOR_REGISTER"} /\ y = StartBreak(WithRests(x, rests), t)
        \/ x.state = "SERVING" /\ y = WithState(WithRests(x, rests), "SERVING_BREAK_DUE")
        \/ y = WithState(WithRests(x, rests), "REFUSED")
  <2>1. CASE t \notin DueTimes(p, x)
    BY <1>1, <2>1 DEF BreakDue
  <2>2. CASE t \in DueTimes(p, x)
    <3>1. PICK rests : rests = Noted(x, Least(Pending(x)), [x.rests[x.shift][Least(Pending(x))] EXCEPT !.due = t])
      OBVIOUS
    <3>2. y = CASE x.state \in {"AVAILABLE", "WAITING_FOR_REGISTER"} -> StartBreak(WithRests(x, rests), t)
              [] x.state = "SERVING" -> WithState(WithRests(x, rests), "SERVING_BREAK_DUE")
              [] OTHER -> WithState(WithRests(x, rests), "REFUSED")
      BY <1>1, <2>2, <3>1, Zenon DEF BreakDue, WithRests, WithState
    <3>3. PICK z : z = WithRests(x, rests)
      OBVIOUS
    <3>4. y = CASE x.state \in {"AVAILABLE", "WAITING_FOR_REGISTER"} -> StartBreak(z, t)
              [] x.state = "SERVING" -> WithState(z, "SERVING_BREAK_DUE")
              [] OTHER -> WithState(z, "REFUSED")
      BY <3>2, <3>3
    <3>5. \/ x.state \in {"AVAILABLE", "WAITING_FOR_REGISTER"} /\ y = StartBreak(z, t)
          \/ x.state = "SERVING" /\ y = WithState(z, "SERVING_BREAK_DUE")
          \/ y = WithState(z, "REFUSED")
      BY <3>4
    <3> QED
      BY <3>3, <3>5
  <2> QED
    BY <2>1, <2>2
<1>4. PICK z : z = WithRests(x, rests)
  OBVIOUS
<1>5. Stated(z) /\ z.since = x.since /\ z.state = x.state
  BY <1>2, <1>4 DEF Stated, WithRests
<1>6. CASE y = x
  BY <1>1, <1>2, <1>6 DEF Moves
<1>7. CASE x.state \in {"AVAILABLE", "WAITING_FOR_REGISTER"} /\ y = StartBreak(z, t)
  <2>1. InState(z, y, "ON_BREAK")
    BY <1>5, <1>7, StartBreakState
  <2> QED
    BY <1>1, <1>5, <1>7, <2>1 DEF InState, Moves, Serving
<1>8. CASE x.state = "SERVING" /\ y = WithState(z, "SERVING_BREAK_DUE")
  <2>1. Stated(y) /\ y.since = z.since /\ y.state = "SERVING_BREAK_DUE"
    BY <1>5, <1>8 DEF WithState, Stated
  <2> QED
    BY <1>1, <1>5, <1>8, <2>1 DEF Moves, Serving
<1>9. CASE y = WithState(z, "REFUSED")
  <2>1. y.state = "REFUSED"
    BY <1>5, <1>9 DEF WithState, Stated
  <2>2. y.state \in BaseStates
    BY <1>1 DEF Employee
  <2> QED
    BY <2>1, <2>2 DEF BaseStates, Registered
<1> QED
  BY <1>3, <1>4, <1>6, <1>7, <1>8, <1>9

\* Nobody who starts a shift has a customer yet.
LEMMA ActivateMoves ==
  ASSUME NEW p, NEW x \in Employee, NEW t, x.shift = 0 => x.state = "OFF"
  PROVE  Moves(x, Activate(p, x, t))
<1>1. PICK y : y = Activate(p, x, t)
  OBVIOUS
<1>2. Stated(x)
  BY DEF Employee, Stated
<1>3. CASE t \notin ActivationTimes(p, x)
  BY <1>1, <1>2, <1>3 DEF Activate, Moves
<1>4. CASE t \in ActivationTimes(p, x)
  <2>1. x.state = "OFF"
    BY <1>4 DEF ActivationTimes
  <2>2. PICK z : z = Activated(p, x, t)
    OBVIOUS
  <2>3. y = IF t \in DueTimes(p, z) THEN StartBreak(z, t) ELSE JoinWait(z, t)
    <3>1. z = [x EXCEPT !.shift = x.next, !.next = @ + 1, !.reached = FALSE, !.duty[x.next].start = t]
      BY <2>2, Zenon DEF Activated, Begun, StartNoted
    <3>2. Activate(p, x, t) =
            ActivateAs(p, x, t, [x EXCEPT !.shift = x.next, !.next = @ + 1, !.reached = FALSE, !.duty[x.next].start = t])
      BY DEF Activate, ActivateAs
    <3>3. Activate(p, x, t) = ActivateAs(p, x, t, z)
      BY <3>1, <3>2, Zenon
    <3> QED
      BY <1>1, <1>4, <3>3 DEF ActivateAs
  <2>4. DOMAIN z = DOMAIN x
    BY <2>2, Zenon DEF Activated, Begun
  <2>5. z.since = x.since
    <3>1. PICK n, k, duty : z = [x EXCEPT !.shift = n, !.next = k, !.reached = FALSE, !.duty = duty]
      BY <2>2, Zenon DEF Activated, Begun
    <3> QED
      BY <1>2, <3>1 DEF Stated
  <2>6. Stated(z)
    BY <1>2, <2>4 DEF Stated
  <2>7. InState(z, y, "ON_BREAK") \/ InState(z, y, "WAITING_FOR_REGISTER")
    BY <2>3, <2>6, StartBreakState, JoinWaitState
  <2> QED
    BY <1>1, <2>1, <2>5, <2>7 DEF InState, Moves, Serving
<1> QED
  BY <1>3, <1>4

\* So do all stages together, before closing.
LEMMA OpenMoves ==
  ASSUME NEW p, PlanOK(p), NEW x, NEW t \in Nat, t < Closing, NEW ends, Fit(p, x, t, ends, t, t, t, t)
  PROVE  Moves(x, Scheduled(p, x, t, FALSE)[4])
<1>1. PICK a : a = ShiftEnd(p, x, t, FALSE)
  OBVIOUS
<1>2. PICK b : b = BreakEnds(p, a, t)
  OBVIOUS
<1>3. PICK c : c = BreakDue(p, b, t)
  OBVIOUS
<1>4. PICK d : d = Activate(p, c, t)
  OBVIOUS
<1>5. Fit(p, a, t, ends, t + 1, t, t, t)
  BY <1>1, ShiftEndKeeps
<1>6. Fit(p, b, t, ends, t + 1, t + 1, t, t)
  BY <1>2, <1>5, BreakEndsKeeps
<1>7. Fit(p, c, t, ends, t + 1, t + 1, t + 1, t)
  BY <1>3, <1>6, BreakDueKeeps
<1>8. x \in Employee /\ a \in Employee /\ b \in Employee /\ c \in Employee /\ (c.shift = 0 => c.state = "OFF")
  BY <1>5, <1>6, <1>7 DEF Fit, Sound, StateOK
<1>9. Moves(x, a) /\ Moves(a, b) /\ Moves(b, c) /\ Moves(c, d)
  BY <1>1, <1>2, <1>3, <1>4, <1>8, ShiftEndMoves, BreakEndsMoves, BreakDueMoves, ActivateMoves
<1>10. Moves(x, d)
  BY <1>9 DEF Moves
<1>11. PICK stages : stages = Scheduled(p, x, t, FALSE)
  OBVIOUS
<1>12. stages = <<a, b, c, d>>
  BY <1>1, <1>2, <1>3, <1>4, <1>11 DEF Scheduled
<1>13. stages[4] = d
  BY <1>12
<1> QED
  BY <1>10, <1>11, <1>13

\* And after it.
LEMMA LateMoves ==
  ASSUME NEW p, PlanOK(p), NEW x, NEW t \in Nat, NEW ends, Late(p, x, t, ends, t)
  PROVE  Moves(x, Scheduled(p, x, t, TRUE)[4])
<1>1. PICK y : y = Scheduled(p, x, t, TRUE)[4]
  OBVIOUS
<1>2. y = Noticed(p, x, t) /\ x \in Employee /\ Stated(x)
  <2>1. LateStage(p, x, t, ends, y)
    BY <1>1, LateStages
  <2>2. x \in Employee
    BY DEF Late, Sound
  <2> QED
    BY <2>1, <2>2 DEF LateStage, Employee, Stated
<1>3. CASE y = x
  BY <1>1, <1>2, <1>3 DEF Moves
<1>4. CASE y = Passed(x)
  <2>1. Stated(y) /\ y.since = x.since /\ y.state = x.state
    BY <1>2, <1>4 DEF Passed, Stated
  <2> QED
    BY <1>1, <2>1 DEF Moves
<1> QED
  BY <1>2, <1>3, <1>4 DEF Noticed

\* ready are the employees before customers are taken, d those before the stages of t.
ReadyIs(ready, d, t, closed) == ready = Handover(Staged(d, t, closed), day.registers, t)

\* An employee after the stages, after the handover and after the assignment.
AfterTurn(s, r, y, e, takers, t) ==
  /\ HandedOver(s, r, t)
  /\ IF e \in takers THEN r.state = "AVAILABLE" /\ Recast(r, y, "SERVING") /\ y.since = r.since ELSE y = r

\* What the turn of an instant does to one employee.
LEMMA TurnOfOne ==
  ASSUME NEW d, NEW t \in Nat, NEW closed, day.registers \in Nat, NEW e \in Employees,
         Scheduled(day.roster[e], d[e], t, closed)[4] \in Employee, NEW ready, ReadyIs(ready, d, t, closed),
         NEW queue, NEW sentAway, NEW crew, NEW work, Turn(ready, queue, sentAway, crew, t, closed, work)
  PROVE  AfterTurn(Scheduled(day.roster[e], d[e], t, closed)[4], ready[e], emp'[e], e, Taking(ready, queue), t)
<1>1. PICK staged : staged = Staged(d, t, closed)
  OBVIOUS
<1>2. PICK s : s = Scheduled(day.roster[e], d[e], t, closed)[4]
  OBVIOUS
<1>3. staged[e] = Scheduled(day.roster[e], d[e], t, closed)[4]
  BY <1>1, Zenon DEF Staged
<1>4. staged[e] = s /\ s \in Employee
  BY <1>2, <1>3
<1>5. ready = Handover(staged, day.registers, t)
  BY <1>1 DEF ReadyIs
<1>6. HandedOver(staged[e], ready[e], t)
  BY <1>4, <1>5, HandoverIs
<1>7. PICK r : r = ready[e]
  OBVIOUS
<1>8. HandedOver(s, r, t) /\ r \in Employee
  BY <1>4, <1>6, <1>7 DEF HandedOver, Recast, SameHistory
<1>9. e \in Taking(ready, queue) => r.state = "AVAILABLE"
  BY <1>7 DEF Taking, Available
<1>10. emp'[e] = IF e \in Taking(ready, queue) THEN WithState(r, "SERVING") ELSE r
  BY <1>7, Zenon DEF Turn
<1>11. PICK y : y = WithState(r, "SERVING")
  OBVIOUS
<1>12. Recast(r, y, "SERVING") /\ y.since = r.since
  <2>1. "SERVING" \in BaseStates
    BY DEF BaseStates, Registered
  <2>2. y.since = r.since
    BY <1>8, <1>11 DEF WithState, Employee
  <2> QED
    BY <1>8, <1>11, <2>1, <2>2, WithStateIs
<1>13. AfterTurn(s, r, emp'[e], e, Taking(ready, queue), t)
  BY <1>8, <1>9, <1>10, <1>11, <1>12 DEF AfterTurn
<1> QED
  BY <1>2, <1>7, <1>13

\* Who serves after an instant has taken a customer in it or has gone on serving, and is free since no later.
Onward(x, y, e, takers, t) ==
  /\ e \in takers => x.state \notin Serving
  /\ y.state \in Serving <=> (e \in takers \/ x.state \in Serving)
  /\ y.since = x.since \/ y.since = t

\* So who serves after it has taken a customer in it or gone on serving.
LEMMA TurnMoves ==
  ASSUME NEW x, NEW s, NEW r, NEW y, NEW e, NEW takers, NEW t, Moves(x, s), AfterTurn(s, r, y, e, takers, t)
  PROVE  Onward(x, y, e, takers, t)
<1>1. s.since = x.since /\ (s.state \in Serving <=> x.state \in Serving)
  BY DEF Moves
<1>2. r.state \in Serving <=> s.state \in Serving
  BY DEF AfterTurn, HandedOver, Recast, Serving
<1>3. r.since = s.since \/ r.since = t
  BY DEF AfterTurn, HandedOver
<1>4. CASE e \in takers
  BY <1>1, <1>2, <1>3, <1>4 DEF AfterTurn, Recast, Onward, Serving
<1>5. CASE e \notin takers
  BY <1>1, <1>2, <1>3, <1>5 DEF AfterTurn, Onward
<1> QED
  BY <1>4, <1>5

\* Before closing, who was fit for the stages of t is fit for the instants after it.
LEMMA OpenTurn ==
  ASSUME NEW d, NEW t \in Nat, t < Closing, day.registers \in Nat, NEW e \in Employees, PlanOK(day.roster[e]),
         NEW ends, Fit(day.roster[e], d[e], t, ends, t, t, t, t), NEW ready, ReadyIs(ready, d, t, FALSE),
         NEW queue, NEW sentAway, NEW crew, NEW work, Turn(ready, queue, sentAway, crew, t, FALSE, work)
  PROVE  /\ Fit(day.roster[e], emp'[e], t, ends, t + 1, t + 1, t + 1, t + 1)
         /\ Onward(d[e], emp'[e], e, Taking(ready, queue), t)
<1>1. PICK p : p = day.roster[e]
  OBVIOUS
<1>2. PICK s : s = Scheduled(day.roster[e], d[e], t, FALSE)[4]
  OBVIOUS
<1>3. Fit(p, s, t, ends, t + 1, t + 1, t + 1, t + 1) /\ Moves(d[e], s)
  BY <1>1, <1>2, OpenStages, OpenMoves
<1>4. s \in Employee
  BY <1>3 DEF Fit, Sound
<1>5. AfterTurn(s, ready[e], emp'[e], e, Taking(ready, queue), t)
  BY <1>2, <1>4, TurnOfOne
<1>6. PICK r : r = ready[e]
  OBVIOUS
<1>7. Fit(p, r, t, ends, t + 1, t + 1, t + 1, t + 1)
  <2>1. r = s \/ (s.state = "WAITING_FOR_REGISTER" /\ Recast(s, r, "AVAILABLE"))
    BY <1>5, <1>6 DEF AfterTurn, HandedOver
  <2> QED
    BY <1>1, <1>3, <2>1, RecastFits
<1>8. Fit(p, emp'[e], t, ends, t + 1, t + 1, t + 1, t + 1)
  <2>1. emp'[e] = r \/ (r.state = "AVAILABLE" /\ Recast(r, emp'[e], "SERVING"))
    BY <1>5, <1>6 DEF AfterTurn
  <2> QED
    BY <1>1, <1>7, <2>1, RecastFits
<1>9. Onward(d[e], emp'[e], e, Taking(ready, queue), t)
  BY <1>3, <1>5, TurnMoves
<1> QED
  BY <1>1, <1>8, <1>9

\* y stands as x: in the same state, free since the same time, and gone or not.
StandsAs(x, y) == y.state = x.state /\ y.since = x.since /\ y.gone = x.gone

\* So it is after closing; and who has been released stays so.
LEMMA LateTurn ==
  ASSUME NEW d, NEW t \in Nat, day.registers \in Nat, NEW e \in Employees, PlanOK(day.roster[e]),
         NEW ends, Late(day.roster[e], d[e], t, ends, t), NEW ready, ReadyIs(ready, d, t, TRUE),
         NEW queue, NEW sentAway, NEW crew, NEW work, Turn(ready, queue, sentAway, crew, t, TRUE, work)
  PROVE  /\ Late(day.roster[e], emp'[e], t, ends, t + 1)
         /\ Onward(d[e], emp'[e], e, Taking(ready, queue), t) /\ emp'[e].gone = d[e].gone
         /\ StandsAs(d[e], ready[e])
<1>1. PICK p : p = day.roster[e]
  OBVIOUS
<1>2. PICK s : s = Scheduled(day.roster[e], d[e], t, TRUE)[4]
  OBVIOUS
<1>3. Late(p, s, t, ends, t + 1) /\ s.gone = d[e].gone /\ s.state = d[e].state /\ Moves(d[e], s)
  <2>1. LateStage(p, d[e], t, ends, s) /\ Moves(d[e], s)
    BY <1>1, <1>2, LateStages, LateMoves
  <2> QED
    BY <2>1 DEF LateStage
<1>4. s \in Employee /\ s.state # "WAITING_FOR_REGISTER"
  BY <1>3 DEF Late, Sound
<1>5. AfterTurn(s, ready[e], emp'[e], e, Taking(ready, queue), t)
  BY <1>2, <1>4, TurnOfOne
<1>6. ready[e] = s
  BY <1>4, <1>5 DEF AfterTurn, HandedOver
<1>7. emp'[e] = s \/ (s.state = "AVAILABLE" /\ Recast(s, emp'[e], "SERVING"))
  BY <1>5, <1>6 DEF AfterTurn
<1>8. Late(p, emp'[e], t, ends, t + 1) /\ emp'[e].gone = s.gone
  BY <1>1, <1>3, <1>7, RecastLate
<1>9. Onward(d[e], emp'[e], e, Taking(ready, queue), t)
  BY <1>3, <1>5, TurnMoves
<1>10. StandsAs(d[e], ready[e])
  BY <1>3, <1>6 DEF StandsAs, Moves
<1> QED
  BY <1>1, <1>3, <1>8, <1>9, <1>10

-----------------------------------------------------------------------------
(* Who takes whom *)

\* The order of those available is a strict one.
LEMMA BeforeOrders ==
  ASSUME NEW x, \A e \in Employees : x[e] \in Employee
  PROVE  /\ \A e \in Employees : ~Before(x, e, e)
         /\ \A c, d, e \in Employees : Before(x, c, d) /\ Before(x, d, e) => Before(x, c, e)
         /\ \A d, e \in Employees : d # e => Before(x, d, e) \/ Before(x, e, d)
<1>1. ASSUME NEW e \in Employees PROVE x[e].since \in Int /\ e \in Int
  <2>1. x[e].since \in Time
    BY DEF Employee
  <2>2. e \in Nat
    BY WorkforceAssumption
  <2> QED
    BY <2>1, <2>2 DEF Time, None
<1>2. ASSUME NEW e \in Employees PROVE ~Before(x, e, e)
  BY <1>1 DEF Before
<1>3. ASSUME NEW c \in Employees, NEW d \in Employees, NEW e \in Employees, Before(x, c, d), Before(x, d, e)
      PROVE  Before(x, c, e)
  BY <1>1, <1>3 DEF Before
<1>4. ASSUME NEW d \in Employees, NEW e \in Employees, d # e PROVE Before(x, d, e) \/ Before(x, e, d)
  BY <1>1, <1>4 DEF Before
<1> QED
  BY <1>2, <1>3, <1>4

\* Who comes before another has the lower rank.
LEMMA RanksRise ==
  ASSUME NEW x, \A e \in Employees : x[e] \in Employee, NEW e \in Employees
  PROVE  /\ Rank(x, e) \in Nat
         /\ \A d \in Available(x) : Before(x, d, e) => Rank(x, d) < Rank(x, e)
<1> DEFINE Ahead2(c) == {b \in Available(x) : Before(x, b, c)}
<1>1. \A c \in Employees : IsFiniteSet(Ahead2(c)) /\ Cardinality(Ahead2(c)) \in Nat /\ Rank(x, c) = Cardinality(Ahead2(c))
  <2> SUFFICES ASSUME NEW c \in Employees
               PROVE  IsFiniteSet(Ahead2(c)) /\ Cardinality(Ahead2(c)) \in Nat
    BY DEF Rank
  <2>1. Ahead2(c) \in SUBSET Employees
    BY DEF Available
  <2> HIDE DEF Ahead2
  <2> QED
    BY <2>1, WorkforceAssumption, FS_Subset, FS_CardinalityType
<1>2. ASSUME NEW d \in Available(x), Before(x, d, e) PROVE Rank(x, d) < Rank(x, e)
  <2>1. d \in Employees
    BY DEF Available
  <2>2. Ahead2(d) \in SUBSET Ahead2(e)
    <3> SUFFICES ASSUME NEW c \in Available(x), Before(x, c, d) PROVE Before(x, c, e)
      OBVIOUS
    <3>1. c \in Employees
      BY DEF Available
    <3> QED
      BY <1>2, <2>1, <3>1, BeforeOrders
  <2>3. d \in Ahead2(e) /\ d \notin Ahead2(d)
    BY <1>2, <2>1, BeforeOrders
  <2> HIDE DEF Ahead2
  <2>4. Cardinality(Ahead2(d)) <= Cardinality(Ahead2(e)) /\ Cardinality(Ahead2(e)) # Cardinality(Ahead2(d))
    BY <1>1, <2>2, <2>3, FS_Subset
  <2> QED
    BY <1>1, <2>1, <2>4
<1> HIDE DEF Ahead2
<1> QED
  BY <1>1, <1>2

\* There are n numbers below n.
LEMMA UpTo ==
  ASSUME NEW n \in Nat
  PROVE  IsFiniteSet(0 .. n - 1) /\ Cardinality(0 .. n - 1) = n
<1>1. PICK b \in Int : b = n - 1
  OBVIOUS
<1>2. IsFiniteSet(0 .. b) /\ Cardinality(0 .. b) = IF 0 > b THEN 0 ELSE b - 0 + 1
  BY FS_Interval, 0 \in Int
<1>3. (IF 0 > b THEN 0 ELSE b - 0 + 1) = n
  BY <1>1
<1> QED
  BY <1>1, <1>2, <1>3

\* Those who take customers are ranked without a gap, and no two alike.
LEMMA TakersAreRanked ==
  ASSUME NEW x, \A e \in Employees : x[e] \in Employee, NEW queue, Len(queue) \in Nat,
         NEW takers, takers = Taking(x, queue)
  PROVE  /\ IsFiniteSet(takers) /\ Cardinality(takers) \in 0 .. Len(queue)
         /\ \A e \in takers : Rank(x, e) \in 0 .. Cardinality(takers) - 1
         /\ \A d, e \in takers : Rank(x, d) = Rank(x, e) => d = e
         /\ \A k \in 0 .. Cardinality(takers) - 1 : \E e \in takers : Rank(x, e) = k
<1>1. takers \in SUBSET Employees /\ takers \subseteq Available(x) /\ \A e \in takers : Rank(x, e) < Len(queue)
  BY DEF Taking, Available
<1>2. IsFiniteSet(takers) /\ Cardinality(takers) \in Nat
  BY <1>1, WorkforceAssumption, FS_Subset, FS_CardinalityType
<1>3. \A e \in takers : Rank(x, e) \in Nat /\ \A d \in takers : Before(x, d, e) => Rank(x, d) < Rank(x, e)
  BY <1>1, RanksRise
<1>4. \A d, e \in takers : Rank(x, d) = Rank(x, e) => d = e
  <2> SUFFICES ASSUME NEW d \in takers, NEW e \in takers, d # e PROVE Rank(x, d) # Rank(x, e)
    OBVIOUS
  <2>1. Before(x, d, e) \/ Before(x, e, d)
    BY <1>1, BeforeOrders
  <2> QED
    BY <1>3, <2>1
<1>5. PICK n \in Nat : n = Cardinality(takers)
  BY <1>2
<1>6. ASSUME NEW e \in takers PROVE Rank(x, e) < n
  <2>1. PICK S : S = {d \in Available(x) : Before(x, d, e)}
    OBVIOUS
  <2>2. S \in SUBSET (takers \ {e})
    <3> SUFFICES ASSUME NEW d \in Available(x), Before(x, d, e) PROVE d \in takers /\ d # e
      BY <2>1
    <3>1. d \in Employees /\ d # e
      BY <1>1, BeforeOrders DEF Available
    <3>2. Rank(x, d) < Rank(x, e) /\ Rank(x, d) \in Nat /\ Rank(x, e) \in Nat /\ Rank(x, e) < Len(queue)
      BY <1>1, <3>1, RanksRise
    <3> QED
      BY <3>1, <3>2 DEF Taking
  <2>3. IsFiniteSet(takers \ {e}) /\ Cardinality(takers \ {e}) = n - 1
    BY <1>2, <1>5, FS_RemoveElement
  <2>4. Cardinality(S) <= n - 1
    BY <2>2, <2>3, FS_Subset
  <2>5. Rank(x, e) = Cardinality(S)
    BY <2>1 DEF Rank
  <2> QED
    BY <1>3, <1>5, <2>4, <2>5
<1>7. PICK f : f = [e \in takers |-> Rank(x, e)]
  OBVIOUS
<1>8. f \in Injection(takers, 0 .. n - 1) /\ f \in Injection(takers, 0 .. Len(queue) - 1)
  <2>1. f \in [takers -> 0 .. n - 1] /\ f \in [takers -> 0 .. Len(queue) - 1]
    BY <1>1, <1>3, <1>6, <1>7
  <2>2. \A d, e \in takers : f[d] = f[e] => d = e
    BY <1>4, <1>7
  <2> QED
    BY <2>1, <2>2 DEF Injection, IsInjective
<1>9. IsFiniteSet(0 .. n - 1) /\ Cardinality(0 .. n - 1) = n
  BY UpTo
<1>10. IsFiniteSet(0 .. Len(queue) - 1) /\ Cardinality(0 .. Len(queue) - 1) = Len(queue)
  BY UpTo
<1>11. n <= Len(queue)
  <2>1. Cardinality(takers) <= Cardinality(0 .. Len(queue) - 1)
    BY <1>8, <1>10, FS_Injection
  <2> QED
    BY <1>5, <1>10, <2>1
<1>12. f \in Surjection(takers, 0 .. n - 1)
  <2>1. (Cardinality(takers) = Cardinality(0 .. n - 1)) <=> f \in Surjection(takers, 0 .. n - 1)
    BY <1>8, <1>9, FS_Injection
  <2> QED
    BY <1>5, <1>9, <2>1
<1>13. \A k \in 0 .. n - 1 : \E e \in takers : Rank(x, e) = k
  BY <1>7, <1>12 DEF Surjection
<1> QED
  BY <1>2, <1>3, <1>4, <1>5, <1>6, <1>11, <1>13

-----------------------------------------------------------------------------
(* The customers of an instant *)

\* The customers of a line stand in the order of their arrival.
InOrder(line) == \A i, j \in DOMAIN line : i < j => line[i] < line[j]

\* Those taken are the first of the line, and each is taken by one employee.
LEMMA TakenAre ==
  ASSUME NEW x, \A e \in Employees : x[e] \in Employee, NEW queue \in Seq(Customers), InOrder(queue)
  PROVE  LET m == Cardinality(Taking(x, queue))
         IN /\ m \in 0 .. Len(queue)
            /\ \A k \in 1 .. m : queue[k] \in Taken(x, queue)
            /\ \A c \in Taken(x, queue) : \E k \in 1 .. m : c = queue[k]
            /\ \A e \in Taking(x, queue) : TakenBy(x, queue, e) \in Taken(x, queue) /\ Taker(x, queue, TakenBy(x, queue, e)) = e
            /\ \A c \in Taken(x, queue) :
                 Taker(x, queue, c) \in Taking(x, queue) /\ TakenBy(x, queue, Taker(x, queue, c)) = c
<1>1. PICK takers : takers = Taking(x, queue)
  OBVIOUS
<1>2. PICK m : m = Cardinality(takers)
  OBVIOUS
<1>3. /\ m \in 0 .. Len(queue)
      /\ \A e \in takers : Rank(x, e) \in 0 .. m - 1
      /\ \A d, e \in takers : Rank(x, d) = Rank(x, e) => d = e
      /\ \A k \in 0 .. m - 1 : \E e \in takers : Rank(x, e) = k
  <2>1. Len(queue) \in Nat
    OBVIOUS
  <2>2. IsFiniteSet(takers) /\ Cardinality(takers) \in 0 .. Len(queue)
        /\ (\A e \in takers : Rank(x, e) \in 0 .. Cardinality(takers) - 1)
        /\ (\A d, e \in takers : Rank(x, d) = Rank(x, e) => d = e)
        /\ (\A k \in 0 .. Cardinality(takers) - 1 : \E e \in takers : Rank(x, e) = k)
    BY <1>1, <2>1, TakersAreRanked
  <2> QED
    BY <1>2, <2>2
<1>4. \A i, j \in 1 .. Len(queue) : queue[i] = queue[j] => i = j
  <2>1. \A i \in 1 .. Len(queue) : queue[i] \in Customers
    OBVIOUS
  <2>2. DOMAIN queue = 1 .. Len(queue) /\ Len(queue) \in Nat /\ Customers \subseteq Int
    BY DEF Customers
  <2> SUFFICES ASSUME NEW i \in 1 .. Len(queue), NEW j \in 1 .. Len(queue), i < j PROVE queue[i] # queue[j]
    BY <2>2
  <2>3. queue[i] < queue[j] /\ queue[i] \in Int /\ queue[j] \in Int
    BY <2>1, <2>2 DEF InOrder
  <2> QED
    BY <2>3
<1>5. \A d, e \in takers : TakenBy(x, queue, d) = TakenBy(x, queue, e) => d = e
  BY <1>3, <1>4 DEF TakenBy
<1>6. ASSUME NEW k \in 1 .. m PROVE queue[k] \in Taken(x, queue)
  <2>1. PICK e \in takers : Rank(x, e) = k - 1
    BY <1>3
  <2>2. TakenBy(x, queue, e) = queue[k]
    BY <2>1 DEF TakenBy
  <2> QED
    BY <1>1, <2>2 DEF Taken
<1>7. ASSUME NEW c \in Taken(x, queue) PROVE \E k \in 1 .. m : c = queue[k]
  <2>1. PICK e \in takers : c = queue[Rank(x, e) + 1]
    BY <1>1 DEF Taken, TakenBy
  <2> QED
    BY <1>3, <2>1
<1>8. ASSUME NEW c \in Taken(x, queue)
      PROVE  Taker(x, queue, c) \in takers /\ TakenBy(x, queue, Taker(x, queue, c)) = c
  <2>1. \E e \in takers : TakenBy(x, queue, e) = c
    BY <1>1 DEF Taken
  <2> QED
    BY <1>1, <2>1, Zenon DEF Taker
<1>9. ASSUME NEW e \in takers
      PROVE  TakenBy(x, queue, e) \in Taken(x, queue) /\ Taker(x, queue, TakenBy(x, queue, e)) = e
  <2>1. TakenBy(x, queue, e) \in Taken(x, queue)
    BY <1>1 DEF Taken
  <2> QED
    BY <1>5, <1>8, <2>1
<1> QED
  BY <1>1, <1>2, <1>3, <1>6, <1>7, <1>8, <1>9

\* The line without its first m customers.
LEMMA RestOfLine ==
  ASSUME NEW come \in Nat, NEW queue \in Seq(1 .. come), InOrder(queue), NEW m \in 0 .. Len(queue)
  PROVE  LET rest == SubSeq(queue, m + 1, Len(queue))
         IN /\ rest \in Seq(1 .. come) /\ InOrder(rest) /\ Len(rest) = Len(queue) - m
            /\ \A c : c \in Range(rest) <=> c \in Range(queue) /\ \A k \in 1 .. m : c # queue[k]
<1>1. PICK rest : rest = SubSeq(queue, m + 1, Len(queue))
  OBVIOUS
<1>2. PICK l \in Nat : l = Len(queue)
  OBVIOUS
<1>3. rest \in Seq(1 .. come) /\ Len(rest) = l - m /\ \A i \in 1 .. l - m : rest[i] = queue[m + i]
  <2>1. PICK S : S = 1 .. come
    OBVIOUS
  <2>2. queue \in Seq(S) /\ m + 1 \in 1 .. Len(queue) + 1 /\ Len(queue) \in Len(queue) .. Len(queue)
    BY <2>1
  <2>3. rest \in Seq(S) /\ Len(rest) = l - m
    BY <1>1, <1>2, <2>2
  <2>4. \A i \in 1 .. l - m : rest[i] = queue[m + i]
    BY <1>1, <1>2, <2>2
  <2> QED
    BY <2>1, <2>3, <2>4
<1>4. DOMAIN rest = 1 .. l - m /\ DOMAIN queue = 1 .. l /\ m \in 0 .. l /\ l \in Nat
  BY <1>2, <1>3
<1>5. InOrder(rest)
  <2> SUFFICES ASSUME NEW i \in 1 .. l - m, NEW j \in 1 .. l - m, i < j PROVE rest[i] < rest[j]
    BY <1>4 DEF InOrder
  <2>1. m + i \in 1 .. l /\ m + j \in 1 .. l /\ m + i < m + j
    BY <1>4
  <2>2. queue[m + i] < queue[m + j]
    BY <1>4, <2>1 DEF InOrder
  <2> QED
    BY <1>3, <2>2
<1>6. ASSUME NEW i \in 1 .. l, NEW j \in 1 .. l, queue[i] = queue[j] PROVE i = j
  <2>1. (i < j => queue[i] < queue[j]) /\ (j < i => queue[j] < queue[i])
    BY <1>4 DEF InOrder
  <2>2. queue[i] \in 1 .. come /\ queue[j] \in 1 .. come
    <3>1. PICK S : S = 1 .. come
      OBVIOUS
    <3>2. queue \in Seq(S) /\ i \in DOMAIN queue /\ j \in DOMAIN queue
      BY <1>4, <3>1
    <3>3. queue[i] \in S /\ queue[j] \in S
      BY <3>2, ElementOfSeq
    <3> QED
      BY <3>1, <3>3
  <2> QED
    BY <1>6, <2>1, <2>2
<1>7. ASSUME NEW c \in Range(rest) PROVE c \in Range(queue) /\ \A k \in 1 .. m : c # queue[k]
  <2>1. PICK i \in 1 .. l - m : c = queue[m + i]
    BY <1>3, <1>4 DEF Range
  <2>2. m + i \in 1 .. l /\ \A k \in 1 .. m : k \in 1 .. l /\ k # m + i
    BY <1>4
  <2> QED
    BY <1>4, <1>6, <2>1, <2>2 DEF Range
<1>8. ASSUME NEW c \in Range(queue), \A k \in 1 .. m : c # queue[k] PROVE c \in Range(rest)
  <2>1. PICK i \in 1 .. l : c = queue[i]
    BY <1>4 DEF Range
  <2>2. i - m \in 1 .. l - m /\ m + (i - m) = i
    BY <1>4, <1>8, <2>1
  <2>3. rest[i - m] = c
    BY <1>3, <2>1, <2>2
  <2> QED
    BY <1>4, <2>2, <2>3 DEF Range
<1> QED
  BY <1>1, <1>2, <1>3, <1>5, <1>7, <1>8

\* The line and those who come after it.
LEMMA QueueIs ==
  ASSUME NEW come \in Nat, NEW n \in Nat, NEW line \in Seq(1 .. come), InOrder(line), NEW new, new = [k \in 1 .. n |-> come + k]
  PROVE  /\ line \o new \in Seq(1 .. come + n) /\ InOrder(line \o new) /\ Len(line \o new) = Len(line) + n
         /\ Range(line \o new) = Range(line) \cup (come + 1 .. come + n)
<1>1. PICK l \in Nat : l = Len(line)
  OBVIOUS
<1>2. new \in Seq(1 .. come + n) /\ Len(new) = n /\ \A k \in 1 .. n : new[k] = come + k
  <2>1. new \in [1 .. n -> 1 .. come + n]
    OBVIOUS
  <2> QED
    BY <2>1
<1>3. PICK queue : queue = line \o new
  OBVIOUS
<1>4. /\ queue \in Seq(1 .. come + n) /\ Len(queue) = l + n
      /\ \A i \in 1 .. l + n : queue[i] = IF i <= l THEN line[i] ELSE new[i - l]
  <2>1. PICK S : S = 1 .. come + n
    OBVIOUS
  <2>2. line \in Seq(S) /\ new \in Seq(S)
    BY <1>2, <2>1
  <2>3. queue \in Seq(S) /\ Len(queue) = Len(line) + Len(new)
    BY <1>3, <2>2
  <2>4. \A i \in 1 .. Len(line) + Len(new) : queue[i] = IF i <= Len(line) THEN line[i] ELSE new[i - Len(line)]
    BY <1>3, <2>2
  <2> QED
    BY <1>1, <1>2, <2>1, <2>3, <2>4
<1>5. /\ \A i \in 1 .. l : queue[i] = line[i] /\ line[i] \in 1 .. come
      /\ \A i \in l + 1 .. l + n : i - l \in 1 .. n /\ queue[i] = come + (i - l)
  <2>1. ASSUME NEW i \in 1 .. l PROVE queue[i] = line[i] /\ line[i] \in 1 .. come
    <3>1. i \in 1 .. l + n /\ i <= l
      BY <1>1
    <3>2. PICK S : S = 1 .. come
      OBVIOUS
    <3>3. line \in Seq(S) /\ i \in 1 .. Len(line)
      BY <1>1, <3>2
    <3>4. line[i] \in S
      BY <3>3, ElementOfSeq
    <3> QED
      BY <1>4, <3>1, <3>2, <3>4
  <2>2. ASSUME NEW i \in l + 1 .. l + n PROVE i - l \in 1 .. n /\ queue[i] = come + (i - l)
    <3>1. i \in 1 .. l + n /\ ~(i <= l) /\ i - l \in 1 .. n
      BY <1>1
    <3>2. queue[i] = new[i - l]
      BY <1>4, <3>1
    <3> QED
      BY <1>2, <3>1, <3>2
  <2> QED
    BY <2>1, <2>2
<1>6. DOMAIN queue = 1 .. l + n /\ DOMAIN line = 1 .. l
  BY <1>1, <1>4
<1>7. InOrder(queue)
  <2> SUFFICES ASSUME NEW i \in 1 .. l + n, NEW j \in 1 .. l + n, i < j PROVE queue[i] < queue[j]
    BY <1>6 DEF InOrder
  <2>1. CASE j <= l
    <3>1. i \in 1 .. l /\ j \in 1 .. l
      BY <1>1, <2>1
    <3>2. line[i] < line[j]
      BY <1>6, <3>1 DEF InOrder
    <3> QED
      BY <1>5, <3>1, <3>2
  <2>2. CASE i <= l /\ l < j
    <3>1. i \in 1 .. l /\ j \in l + 1 .. l + n /\ come + (j - l) > come
      BY <1>1, <2>2
    <3>2. queue[i] \in 1 .. come /\ queue[j] = come + (j - l)
      BY <1>5, <3>1
    <3> QED
      BY <3>1, <3>2
  <2>3. CASE l < i
    <3>1. i \in l + 1 .. l + n /\ j \in l + 1 .. l + n /\ come + (i - l) < come + (j - l)
      BY <1>1, <2>3
    <3> QED
      BY <1>5, <3>1
  <2> QED
    BY <2>1, <2>2, <2>3
<1>8. ASSUME NEW c \in Range(queue) PROVE c \in Range(line) \cup (come + 1 .. come + n)
  <2>1. PICK i \in 1 .. l + n : c = queue[i]
    BY <1>6 DEF Range
  <2>2. CASE i <= l
    BY <1>5, <1>6, <2>1, <2>2 DEF Range
  <2>3. CASE i > l
    BY <1>5, <2>1, <2>3
  <2> QED
    BY <2>2, <2>3
<1>9. ASSUME NEW c \in Range(line) PROVE c \in Range(queue)
  <2>1. PICK i \in 1 .. l : c = line[i]
    BY <1>6 DEF Range
  <2> QED
    <3>1. queue[i] = c /\ i \in 1 .. l + n
      BY <1>1, <1>5, <2>1
    <3> QED
      BY <1>6, <3>1 DEF Range
<1>10. ASSUME NEW c \in come + 1 .. come + n PROVE c \in Range(queue)
  <2>1. PICK i \in Int : i = l + (c - come)
    OBVIOUS
  <2>2. i \in l + 1 .. l + n /\ come + (i - l) = c /\ i \in 1 .. l + n
    BY <1>1, <2>1
  <2>3. queue[i] = c /\ i \in 1 .. l + n
    BY <1>5, <2>2
  <2> QED
    BY <1>6, <2>3 DEF Range
<1> QED
  BY <1>1, <1>3, <1>4, <1>7, <1>8, <1>9, <1>10

-----------------------------------------------------------------------------
(* Who comes *)

\* Customers come in the order of their numbers.
LEMMA ArrivalsRise ==
  ASSUME NEW arrival \in Arrivals, NEW a \in Customers, NEW b \in Customers, a <= b
  PROVE  arrival[a] \in Nat /\ arrival[b] \in Nat /\ arrival[a] <= arrival[b]
<1>1. \A c \in Customers : arrival[c] \in Nat /\ (c > 1 => arrival[c] >= arrival[c - 1])
  BY NamedDayAssumption DEF Arrivals
<1>2. Customers \subseteq Nat
  BY NamedDayAssumption DEF Customers
<1>3. PICK S : S = {c \in Customers : a <= c /\ arrival[c] < arrival[a]}
  OBVIOUS
<1>4. CASE S = {}
  BY <1>1, <1>3, <1>4
<1>5. CASE S # {}
  <2>1. S \subseteq Nat
    BY <1>2, <1>3
  <2>2. PICK m \in S : \A y \in S : m <= y
    BY <1>5, <2>1, LeastIs
  <2>3. m \in Customers /\ a <= m /\ arrival[m] < arrival[a] /\ m \in Nat /\ a \in Nat
    BY <1>2, <1>3, <2>2
  <2>4. a < m
    <3>1. a # m
      BY <1>1, <2>3
    <3> QED
      BY <2>3, <3>1
  <2>5. m - 1 \in Customers /\ a <= m - 1 /\ m - 1 < m /\ m > 1
    BY <2>3, <2>4, NamedDayAssumption DEF Customers
  <2>6. m - 1 \notin S
    BY <2>2, <2>5, <2>3
  <2>7. ~(arrival[m - 1] < arrival[a]) /\ arrival[m] >= arrival[m - 1]
    BY <1>1, <1>3, <2>3, <2>5, <2>6
  <2> QED
    BY <1>1, <2>3, <2>5, <2>7
<1> QED
  BY <1>4, <1>5

\* Those who come at the instant that is next are the first of those to come, and all who come by then.
LEMMA ArrivingAre ==
  ASSUME day.arrival \in Arrivals, NEW come \in 0 .. N, sim.come = come, NEW t \in Nat, come < N => t <= day.arrival[come + 1]
  PROVE  /\ Cardinality(Arriving(t)) \in 0 .. N - come
         /\ \A c \in Customers : c > come + Cardinality(Arriving(t)) => day.arrival[c] > t
<1>1. PICK later : later = come + 1 .. N
  OBVIOUS
<1>2. N \in Nat /\ come \in Nat /\ come <= N /\ Customers = 1 .. N
  BY NamedDayAssumption DEF Customers
<1>3. IsFiniteSet(later) /\ Cardinality(later) = N - come
  <2>1. come + 1 \in Int /\ N \in Int
    BY <1>2
  <2>2. IsFiniteSet(come + 1 .. N) /\ Cardinality(come + 1 .. N) = IF come + 1 > N THEN 0 ELSE N - (come + 1) + 1
    BY <2>1, FS_Interval
  <2> QED
    BY <1>1, <1>2, <2>2
<1>4. Arriving(t) \in SUBSET later
  BY <1>1, <1>2 DEF Arriving
<1>5. IsFiniteSet(Arriving(t)) /\ Cardinality(Arriving(t)) <= N - come /\ Cardinality(Arriving(t)) \in Nat
  BY <1>3, <1>4, FS_Subset, FS_CardinalityType
<1>6. PICK n \in Nat : n = Cardinality(Arriving(t))
  BY <1>5
<1>7. ASSUME NEW c \in Customers, c > come + n PROVE day.arrival[c] > t
  <2>1. c \in Nat /\ c >= come + 1 /\ come + 1 \in Customers /\ come < N
    BY <1>2, <1>7
  <2>2. day.arrival[c] \in Nat /\ day.arrival[come + 1] \in Nat
    BY <2>1, ArrivalsRise
  <2>3. SUFFICES ASSUME day.arrival[c] <= t PROVE FALSE
    BY <2>2
  <2>4. PICK upto : upto = come + 1 .. c
    OBVIOUS
  <2>5. IsFiniteSet(upto) /\ Cardinality(upto) = c - come
    <3>1. come + 1 \in Int /\ c \in Int
      BY <1>2, <2>1
    <3>2. IsFiniteSet(come + 1 .. c) /\ Cardinality(come + 1 .. c) = IF come + 1 > c THEN 0 ELSE c - (come + 1) + 1
      BY <3>1, FS_Interval
    <3> QED
      BY <1>2, <2>1, <2>4, <3>2
  <2>6. upto \in SUBSET Arriving(t)
    <3> SUFFICES ASSUME NEW b \in upto PROVE b \in Arriving(t)
      OBVIOUS
    <3>1. b \in Customers /\ come + 1 <= b /\ b <= c /\ b > come
      BY <1>2, <2>4
    <3>2. day.arrival[b] \in Nat /\ day.arrival[come + 1] <= day.arrival[b] /\ day.arrival[b] <= day.arrival[c]
      BY <2>1, <3>1, ArrivalsRise
    <3>3. day.arrival[b] = t
      BY <2>1, <2>2, <2>3, <3>2
    <3> QED
      BY <3>1, <3>3 DEF Arriving
  <2>7. Cardinality(upto) <= Cardinality(Arriving(t))
    BY <1>5, <2>6, FS_Subset
  <2> QED
    BY <1>2, <1>6, <1>7, <2>1, <2>5, <2>7
<1> QED
  BY <1>2, <1>5, <1>6, <1>7

-----------------------------------------------------------------------------
(* The inductive invariant *)

ClockOK == clock \in [now : Time, closed : BOOLEAN] /\ (clock.closed <=> clock.now >= Closing)

\* Everybody's history is sound, and what is scheduled is still to come.
EmployeesOK ==
  \A e \in Employees :
    LET p == day.roster[e]
        x == emp[e]
        u == clock.now + 1
    IN IF clock.closed THEN Late(p, x, clock.now, Ended(e), u) ELSE Fit(p, x, clock.now, Ended(e), u, u, u, u)

\* Whoever serves serves one customer, and whoever is served is served by one.
ServiceOK ==
  /\ sim.customer \in [Customers -> CustomerRow]
  /\ \A c \in Customers :
       InService(c) => emp[sim.customer[c].by].state \in Serving /\ sim.customer[c].finish > clock.now
  /\ \A c, d \in Customers : InService(c) /\ InService(d) /\ c # d => sim.customer[c].by # sim.customer[d].by
  /\ \A e \in Employees : emp[e].state \in Serving => \E c \in Customers : InService(c) /\ sim.customer[c].by = e

\* A customer has yet to come, stands in the line, has been taken or was sent away; the line is in order.
LineOK ==
  /\ sim.come \in 0 .. N /\ sim.line \in Seq(1 .. sim.come) /\ InOrder(sim.line)
  /\ \A c \in Customers : c > sim.come => day.arrival[c] > clock.now
  /\ \A c \in Customers :
       (c > sim.come \/ c \in Range(sim.line)) <=> (sim.customer[c].by = 0 /\ sim.customer[c].unserved = "no")
  /\ \A c \in Customers : sim.customer[c].departed => sim.customer[c].by # 0
  /\ \A c \in Customers : sim.customer[c].unserved # "no" => sim.customer[c].by = 0 /\ sim.crew = {} /\ clock.closed
  /\ clock.closed => sim.come = N

IInv == day \in Days /\ ClockOK /\ EmployeesOK /\ ServiceOK /\ LineOK

-----------------------------------------------------------------------------
(* The customers of an instant *)

\* y is a customer of whom e began to take care at t, for w.
Joined(y, e, t, w) == y = [by |-> e, start |-> t, finish |-> t + w, departed |-> FALSE, unserved |-> "no"]

\* Any other customer after an instant: as before, but gone when his service ended, or sent away.
StaysOrLeaves(x, y, leaves, sent) ==
  /\ y \in CustomerRow /\ y.by = x.by /\ y.start = x.start /\ y.finish = x.finish
  /\ y.departed <=> (x.departed \/ leaves)
  /\ IF sent /\ ~leaves THEN y.unserved # "no" ELSE y.unserved = x.unserved

\* Those are the customers after a turn.
LEMMA CustomerIs ==
  ASSUME sim.customer \in [Customers -> CustomerRow],
         NEW ready, NEW queue, NEW sentAway, NEW crew, NEW t \in Nat, NEW closed, NEW work,
         Turn(ready, queue, sentAway, crew, t, closed, work), NEW c \in Customers
  PROVE  /\ c \in Taken(ready, queue) =>
              Joined(sim'.customer[c], Taker(ready, queue, c), t, work[Taker(ready, queue, c)])
         /\ c \notin Taken(ready, queue) =>
              StaysOrLeaves(sim.customer[c], sim'.customer[c], c \in Departing(t), c \in sentAway)
<1>1. sim'.customer = CustomersThen(ready, queue, sentAway, t, work)
  BY Zenon DEF Turn
<1>2. PICK x : x = sim.customer[c]
  OBVIOUS
<1>3. PICK y : y = sim'.customer[c]
  OBVIOUS
<1>4. x \in CustomerRow
  BY <1>2
<1>5. CASE c \in Taken(ready, queue)
  <2>1. y = [by |-> Taker(ready, queue, c), start |-> t, finish |-> t + work[Taker(ready, queue, c)], departed |-> FALSE,
             unserved |-> "no"]
    BY <1>1, <1>3, <1>5, Zenon DEF CustomersThen
  <2> QED
    BY <1>3, <1>5, <2>1 DEF Joined
<1>6. CASE c \notin Taken(ready, queue) /\ c \in Departing(t)
  <2>1. y = [x EXCEPT !.departed = TRUE]
    BY <1>1, <1>2, <1>3, <1>6, Zenon DEF CustomersThen
  <2>2. StaysOrLeaves(x, y, TRUE, c \in sentAway)
    BY <1>4, <2>1 DEF StaysOrLeaves, CustomerRow
  <2> QED
    BY <1>2, <1>3, <1>6, <2>2 DEF StaysOrLeaves
<1>7. CASE c \notin Taken(ready, queue) /\ c \notin Departing(t) /\ c \in sentAway
  <2>1. y = [x EXCEPT !.unserved = IF day.policy = "HARD_CUTOFF" THEN "hard_cutoff" ELSE "no_eligible_employee"]
    BY <1>1, <1>2, <1>3, <1>7, Zenon DEF CustomersThen
  <2>2. PICK u \in {"hard_cutoff", "no_eligible_employee"} : y = [x EXCEPT !.unserved = u]
    BY <2>1
  <2>3. StaysOrLeaves(x, y, FALSE, TRUE)
    BY <1>4, <2>2 DEF StaysOrLeaves, CustomerRow
  <2> QED
    BY <1>2, <1>3, <1>7, <2>3 DEF StaysOrLeaves
<1>8. CASE c \notin Taken(ready, queue) /\ c \notin Departing(t) /\ c \notin sentAway
  <2>1. y = x
    BY <1>1, <1>2, <1>3, <1>8, Zenon DEF CustomersThen
  <2>2. StaysOrLeaves(x, y, FALSE, FALSE)
    BY <1>4, <2>1 DEF StaysOrLeaves
  <2> QED
    BY <1>2, <1>3, <1>8, <2>2 DEF StaysOrLeaves
<1> QED
  BY <1>5, <1>6, <1>7, <1>8

\* What holds when the customers of an instant are to be taken: d is the employees after completions and
\* inputs, line those still in line, sentAway those who were.
BeforeTurn(d, line, sentAway, crew, t, closed) ==
  /\ t \in Nat /\ t > clock.now /\ (sim.come < N => t <= day.arrival[sim.come + 1])
  /\ \A c \in Customers : InService(c) => sim.customer[c].finish >= t
  /\ \A e \in Employees : d[e].state \in Serving <=> (emp[e].state \in Serving /\ e \notin Finishing(t))
  /\ line \in Seq(1 .. sim.come) /\ InOrder(line)
  /\ \A c \in Customers : c \in Range(sim.line) <=> (c \in Range(line) \/ c \in sentAway)
  /\ \A c \in Customers : ~(c \in Range(line) /\ c \in sentAway)
  /\ \A c \in Customers : (sim.customer[c].unserved # "no" \/ c \in sentAway) => crew = {} /\ closed
  /\ closed => sim.come = N

QueueAt(queue, line, t) == queue = line \o Coming(t)

\* The queue of such an instant.
LEMMA QueueAfter ==
  ASSUME day \in Days, ClockOK, LineOK, NEW d, NEW line, NEW sentAway, NEW crew, NEW t, NEW closed,
         BeforeTurn(d, line, sentAway, crew, t, closed), NEW queue, QueueAt(queue, line, t)
  PROVE  \E come \in sim.come .. N :
           /\ come = sim.come + Len(Coming(t)) /\ queue \in Seq(1 .. come) /\ queue \in Seq(Customers) /\ InOrder(queue)
           /\ \A c \in Customers : c \in Range(queue) <=> (c \in Range(line) \/ c \in sim.come + 1 .. come)
           /\ \A c \in Customers : c > come => day.arrival[c] > t
<1>1. PICK come \in 0 .. N : come = sim.come
  BY DEF LineOK
<1>2. PICK n : n = Cardinality(Arriving(t))
  OBVIOUS
<1>3. n \in 0 .. N - come /\ \A c \in Customers : c > come + n => day.arrival[c] > t
  <2>1. day.arrival \in Arrivals
    BY DEF Days
  <2>2. t \in Nat /\ (come < N => t <= day.arrival[come + 1])
    BY <1>1 DEF BeforeTurn
  <2> QED
    BY <1>1, <1>2, <2>1, <2>2, ArrivingAre
<1>4. PICK new : new = [k \in 1 .. n |-> come + k]
  OBVIOUS
<1>5. Coming(t) = new
  BY <1>1, <1>2, <1>4 DEF Coming
<1>6. n \in Nat /\ come \in Nat /\ come + n \in come .. N /\ N \in Nat
  BY <1>1, <1>3, NamedDayAssumption
<1>7. line \in Seq(1 .. come) /\ InOrder(line)
  BY <1>1 DEF BeforeTurn
<1>8. /\ queue \in Seq(1 .. come + n) /\ InOrder(queue)
      /\ Range(queue) = Range(line) \cup (come + 1 .. come + n)
  <2>1. /\ line \o new \in Seq(1 .. come + n) /\ InOrder(line \o new)
        /\ Range(line \o new) = Range(line) \cup (come + 1 .. come + n)
    BY <1>4, <1>6, <1>7, QueueIs
  <2>2. queue = line \o new
    BY <1>5 DEF QueueAt
  <2> QED
    BY <2>1, <2>2, Zenon
<1>9. Len(new) = n
  <2>1. new \in [1 .. n -> Nat]
    BY <1>4, <1>6
  <2>2. new \in Seq(Nat)
    BY <1>6, <2>1
  <2> QED
    BY <1>4, <1>6, <2>2
<1>10. queue \in Seq(Customers)
  <2>1. 1 .. come + n \subseteq Customers
    BY <1>6 DEF Customers
  <2>2. PICK S : S = 1 .. come + n
    OBVIOUS
  <2>3. queue \in Seq(S) /\ S \subseteq Customers
    BY <1>8, <2>1, <2>2
  <2> QED
    BY <2>3
<1>11. come + n = sim.come + Len(Coming(t)) /\ come + n \in sim.come .. N
  BY <1>1, <1>5, <1>6, <1>9
<1>12. \A c \in Customers : c \in Range(queue) <=> (c \in Range(line) \/ c \in sim.come + 1 .. come + n)
  BY <1>1, <1>8
<1> QED
  BY <1>3, <1>8, <1>10, <1>11, <1>12

\* The turn of such an instant, ready being the employees who may take its customers.
TurnAt(d, line, sentAway, crew, t, closed, ready, queue, work) ==
  /\ BeforeTurn(d, line, sentAway, crew, t, closed)
  /\ QueueAt(queue, line, t)
  /\ Turn(ready, queue, sentAway, crew, t, closed, work)
  /\ \A e \in Employees : ready[e] \in Employee
  /\ \A e \in Employees : Onward(d[e], emp'[e], e, Taking(ready, queue), t)

\* Those taken had not been: they stood in the line or came just now.
LEMMA TakenWereWaiting ==
  ASSUME day \in Days, ClockOK, LineOK, ServiceOK, NEW d, NEW line, NEW sentAway, NEW crew, NEW t, NEW closed,
         NEW ready, NEW queue, NEW work, TurnAt(d, line, sentAway, crew, t, closed, ready, queue, work)
  PROVE  /\ Taken(ready, queue) \subseteq Range(queue)
         /\ \A c \in Taken(ready, queue) :
              /\ c \in Customers /\ c \notin sentAway /\ c \notin Departing(t)
              /\ sim.customer[c].by = 0 /\ ~sim.customer[c].departed
<1>1. BeforeTurn(d, line, sentAway, crew, t, closed) /\ QueueAt(queue, line, t)
  BY DEF TurnAt
<1>2. PICK come \in sim.come .. N :
        /\ queue \in Seq(Customers) /\ InOrder(queue)
        /\ \A c \in Customers : c \in Range(queue) <=> (c \in Range(line) \/ c \in sim.come + 1 .. come)
  BY <1>1, QueueAfter
<1>3. \A e \in Employees : ready[e] \in Employee
  BY DEF TurnAt
<1>4. ASSUME NEW c \in Taken(ready, queue) PROVE c \in Range(queue) /\ c \in Customers
  <2>1. PICK m : m = Cardinality(Taking(ready, queue))
    OBVIOUS
  <2>2. m \in 0 .. Len(queue) /\ \A b \in Taken(ready, queue) : \E k \in 1 .. m : b = queue[k]
    BY <1>2, <1>3, <2>1, TakenAre
  <2>3. PICK k \in 1 .. m : c = queue[k]
    BY <2>2
  <2>4. k \in DOMAIN queue
    BY <1>2, <2>2
  <2> QED
    BY <1>2, <2>3, <2>4, ElementOfSeq DEF Range
<1>5. ASSUME NEW c \in Taken(ready, queue)
      PROVE  /\ c \in Customers /\ c \notin sentAway /\ c \notin Departing(t)
             /\ sim.customer[c].by = 0 /\ ~sim.customer[c].departed
  <2>1. c \in Customers /\ (c \in Range(line) \/ c \in sim.come + 1 .. come)
    BY <1>2, <1>4
  <2>2. c \in Range(sim.line) \/ c > sim.come
    BY <1>1, <2>1 DEF BeforeTurn, LineOK
  <2>3. sim.customer[c].by = 0 /\ ~sim.customer[c].departed
    BY <2>1, <2>2 DEF LineOK
  <2>4. c \notin Departing(t)
    BY <2>3 DEF Departing, InService
  <2>5. c \notin sentAway
    <3>1. CASE c \in Range(line)
      BY <1>1, <2>1, <3>1 DEF BeforeTurn
    <3>2. CASE c > sim.come
      <4>1. c \notin Range(sim.line)
        <5> SUFFICES ASSUME c \in Range(sim.line) PROVE FALSE
          OBVIOUS
        <5>1. PICK S : S = 1 .. sim.come
          OBVIOUS
        <5>2. PICK k \in DOMAIN sim.line : c = sim.line[k]
          BY DEF Range
        <5>3. c \in S
          BY <5>1, <5>2, ElementOfSeq DEF LineOK
        <5> QED
          BY <3>2, <5>1, <5>3 DEF LineOK
      <4> QED
        BY <1>1, <2>1, <4>1 DEF BeforeTurn
    <3> QED
      BY <2>1, <3>1, <3>2 DEF LineOK
  <2> QED
    BY <2>1, <2>3, <2>4, <2>5
<1> QED
  BY <1>4, <1>5

\* A service that has ended ended, and those that end now do.
LEMMA EndedThen ==
  ASSUME day \in Days, ClockOK, LineOK, ServiceOK, NEW d, NEW line, NEW sentAway, NEW crew, NEW t, NEW closed,
         NEW ready, NEW queue, NEW work, TurnAt(d, line, sentAway, crew, t, closed, ready, queue, work), NEW e \in Employees
  PROVE  Ended(e) \subseteq Ended(e)' /\ (e \in Finishing(t) => t \in Ended(e)')
<1>1. t \in Nat /\ Turn(ready, queue, sentAway, crew, t, closed, work)
  BY DEF TurnAt, BeforeTurn
<1>2. \A c \in Taken(ready, queue) : c \notin Departing(t) /\ ~sim.customer[c].departed
  BY TakenWereWaiting
<1>3. sim.customer \in [Customers -> CustomerRow]
  BY DEF ServiceOK
<1>4. ASSUME NEW c \in Customers, sim.customer[c].departed \/ c \in Departing(t)
      PROVE  sim'.customer[c].departed /\ sim'.customer[c].by = sim.customer[c].by /\ sim'.customer[c].finish = sim.customer[c].finish
  <2>1. c \notin Taken(ready, queue)
    BY <1>2, <1>4
  <2>2. StaysOrLeaves(sim.customer[c], sim'.customer[c], c \in Departing(t), c \in sentAway)
    BY <1>1, <1>3, <2>1, CustomerIs
  <2> QED
    BY <1>4, <2>2 DEF StaysOrLeaves
<1>5. ASSUME NEW c \in Customers, sim.customer[c].departed \/ c \in Departing(t), sim.customer[c].by = e
      PROVE  sim.customer[c].finish \in Ended(e)'
  <2>1. sim'.customer[c].departed /\ sim'.customer[c].by = e /\ sim'.customer[c].finish = sim.customer[c].finish
    BY <1>4, <1>5
  <2> QED
    BY <2>1 DEF Ended
<1>6. Ended(e) \subseteq Ended(e)'
  <2> SUFFICES ASSUME NEW v \in Ended(e) PROVE v \in Ended(e)'
    OBVIOUS
  <2>1. PICK c \in Customers : sim.customer[c].by = e /\ sim.customer[c].departed /\ v = sim.customer[c].finish
    BY DEF Ended
  <2> QED
    BY <1>5, <2>1
<1>7. ASSUME e \in Finishing(t) PROVE t \in Ended(e)'
  <2>1. PICK c \in Departing(t) : sim.customer[c].by = e
    BY <1>7 DEF Finishing
  <2>2. c \in Customers /\ sim.customer[c].finish = t
    BY DEF Departing
  <2> QED
    BY <1>5, <2>1, <2>2
<1> QED
  BY <1>6, <1>7

\* Whoever serves after the turn of such an instant serves one customer, and the other way round.
LEMMA ServiceThen ==
  ASSUME day \in Days, ClockOK, LineOK, ServiceOK, NEW d, NEW line, NEW sentAway, NEW crew, NEW t, NEW closed,
         NEW ready, NEW queue, NEW work, TurnAt(d, line, sentAway, crew, t, closed, ready, queue, work)
  PROVE  ServiceOK'
<1>1. /\ BeforeTurn(d, line, sentAway, crew, t, closed) /\ QueueAt(queue, line, t)
      /\ Turn(ready, queue, sentAway, crew, t, closed, work) /\ \A e \in Employees : ready[e] \in Employee
  BY DEF TurnAt
<1>2. t \in Nat /\ t > clock.now /\ clock'.now = t /\ sim.customer \in [Customers -> CustomerRow]
  BY <1>1 DEF BeforeTurn, Turn, ServiceOK
<1>3. PICK takers : takers = Taking(ready, queue)
  OBVIOUS
<1>4. PICK taken : taken = Taken(ready, queue)
  OBVIOUS
<1>5. takers \subseteq Employees /\ work \in [takers -> Works]
  BY <1>1, <1>3 DEF Turn, Taking, Available
<1>6. /\ \A e \in takers : TakenBy(ready, queue, e) \in taken /\ Taker(ready, queue, TakenBy(ready, queue, e)) = e
      /\ \A c \in taken :
           Taker(ready, queue, c) \in takers /\ TakenBy(ready, queue, Taker(ready, queue, c)) = c
  <2>1. queue \in Seq(Customers) /\ InOrder(queue)
    BY <1>1, QueueAfter
  <2> QED
    BY <1>1, <1>3, <1>4, <2>1, TakenAre
<1>7. \A c \in taken : c \in Customers /\ c \notin Departing(t) /\ sim.customer[c].by = 0
  BY <1>4, TakenWereWaiting
<1>8. \A c \in taken : Joined(sim'.customer[c], Taker(ready, queue, c), t, work[Taker(ready, queue, c)])
  BY <1>1, <1>2, <1>4, <1>7, CustomerIs
<1>9. \A c \in Customers : c \notin taken =>
        StaysOrLeaves(sim.customer[c], sim'.customer[c], c \in Departing(t), c \in sentAway)
  BY <1>1, <1>2, <1>4, CustomerIs
<1>10. ASSUME NEW c \in taken
       PROVE  /\ Taker(ready, queue, c) \in takers /\ Taker(ready, queue, c) \in Nat \ {0}
              /\ sim'.customer[c].by = Taker(ready, queue, c) /\ sim'.customer[c].finish > t
              /\ sim'.customer[c] \in CustomerRow /\ ~sim'.customer[c].departed
  <2>1. PICK e \in takers : e = Taker(ready, queue, c)
    BY <1>6
  <2>2. e \in Employees /\ e \in Nat \ {0} /\ work[e] \in Nat \ {0}
    BY <1>5, WorkforceAssumption, NamedDayAssumption
  <2>3. Joined(sim'.customer[c], e, t, work[e])
    BY <1>8, <2>1
  <2>4. PICK y : y = sim'.customer[c]
    OBVIOUS
  <2>5. t + work[e] \in Nat /\ t + work[e] > t
    BY <1>2, <2>2
  <2>6. y.by = e /\ y.finish = t + work[e] /\ ~y.departed
    BY <2>3, <2>4 DEF Joined
  <2>7. y \in CustomerRow
    BY <1>2, <2>2, <2>3, <2>4, <2>5 DEF Joined, CustomerRow, Time
  <2> QED
    BY <2>1, <2>2, <2>4, <2>5, <2>6, <2>7
<1>11. sim'.customer \in [Customers -> CustomerRow]
  <2>1. \A c \in Customers : sim'.customer[c] \in CustomerRow
    BY <1>9, <1>10 DEF StaysOrLeaves
  <2>2. sim'.customer = CustomersThen(ready, queue, sentAway, t, work)
    BY <1>1, Zenon DEF Turn
  <2>3. sim'.customer = [c \in Customers |-> sim'.customer[c]]
    BY <2>2, Zenon DEF CustomersThen
  <2> QED
    BY <2>1, <2>3
<1>12. \A e \in Employees :
         /\ e \in takers => ~(emp[e].state \in Serving /\ e \notin Finishing(t))
         /\ emp'[e].state \in Serving <=> (e \in takers \/ (emp[e].state \in Serving /\ e \notin Finishing(t)))
  BY <1>1, <1>3 DEF TurnAt, BeforeTurn, Onward
<1>13. ASSUME NEW c \in Customers, InService(c)', c \notin taken
       PROVE  /\ InService(c) /\ c \notin Departing(t) /\ sim'.customer[c].by = sim.customer[c].by
              /\ sim'.customer[c].finish = sim.customer[c].finish
  <2>1. StaysOrLeaves(sim.customer[c], sim'.customer[c], c \in Departing(t), c \in sentAway)
    BY <1>9, <1>13
  <2> QED
    BY <1>13, <2>1 DEF StaysOrLeaves, InService
<1>14. ASSUME NEW c \in Customers, InService(c), c \notin Departing(t)
       PROVE  /\ c \notin taken /\ sim.customer[c].by \in Employees /\ sim.customer[c].by \notin Finishing(t)
              /\ emp[sim.customer[c].by].state \in Serving /\ sim.customer[c].by \notin takers
              /\ emp'[sim.customer[c].by].state \in Serving /\ sim.customer[c].finish > t
  <2>1. PICK e : e = sim.customer[c].by
    OBVIOUS
  <2>2. e \in Employees /\ emp[e].state \in Serving /\ e # 0
    BY <1>2, <1>14, <2>1 DEF InService, ServiceOK, CustomerRow
  <2>3. c \notin taken
    BY <1>7, <2>1, <2>2
  <2>4. e \notin Finishing(t)
    <3> SUFFICES ASSUME e \in Finishing(t) PROVE FALSE
      OBVIOUS
    <3>1. PICK b \in Departing(t) : sim.customer[b].by = e
      BY DEF Finishing
    <3>2. b \in Customers /\ InService(b) /\ b # c
      BY <1>14, <3>1 DEF Departing
    <3> QED
      BY <1>14, <2>1, <3>1, <3>2 DEF ServiceOK
  <2>5. sim.customer[c].finish >= t /\ sim.customer[c].finish # t /\ sim.customer[c].finish \in Int
    <3>1. sim.customer[c].finish \in Time
      BY <1>2 DEF CustomerRow
    <3> QED
      BY <1>1, <1>14, <3>1 DEF BeforeTurn, Departing, Time, None
  <2> QED
    BY <1>2, <1>12, <2>1, <2>2, <2>3, <2>4, <2>5
<1>15. ASSUME NEW c \in Customers, InService(c)'
       PROVE  emp'[sim'.customer[c].by].state \in Serving /\ sim'.customer[c].finish > clock'.now
  <2>1. CASE c \in taken
    <3>1. PICK e \in takers : e = sim'.customer[c].by
      BY <1>10, <2>1
    <3>2. emp'[e].state \in Serving
      BY <1>5, <1>12, <3>1
    <3> QED
      BY <1>2, <1>10, <2>1, <3>1, <3>2
  <2>2. CASE c \notin taken
    BY <1>2, <1>13, <1>14, <1>15, <2>2
  <2> QED
    BY <2>1, <2>2
<1>16. ASSUME NEW b \in Customers, NEW c \in Customers, InService(b)', InService(c)', b # c
       PROVE  sim'.customer[b].by # sim'.customer[c].by
  <2>1. CASE b \in taken /\ c \in taken
    BY <1>6, <1>10, <1>16, <2>1
  <2>2. CASE b \in taken /\ c \notin taken
    BY <1>10, <1>13, <1>14, <1>16, <2>2
  <2>3. CASE b \notin taken /\ c \in taken
    BY <1>10, <1>13, <1>14, <1>16, <2>3
  <2>4. CASE b \notin taken /\ c \notin taken
    BY <1>13, <1>16, <2>4 DEF ServiceOK
  <2> QED
    BY <2>1, <2>2, <2>3, <2>4
<1>17. ASSUME NEW e \in Employees, emp'[e].state \in Serving
       PROVE  \E c \in Customers : InService(c)' /\ sim'.customer[c].by = e
  <2>1. CASE e \in takers
    <3>1. PICK c \in taken : Taker(ready, queue, c) = e
      BY <1>6, <2>1
    <3>2. c \in Customers /\ sim'.customer[c].by = e /\ e # 0 /\ ~sim'.customer[c].departed
      BY <1>7, <1>10, <3>1
    <3> QED
      BY <3>2 DEF InService
  <2>2. CASE e \notin takers
    <3>1. emp[e].state \in Serving /\ e \notin Finishing(t)
      BY <1>12, <1>17, <2>2
    <3>2. PICK c \in Customers : InService(c) /\ sim.customer[c].by = e
      BY <3>1 DEF ServiceOK
    <3>3. c \notin Departing(t)
      BY <3>1, <3>2 DEF Finishing
    <3>4. StaysOrLeaves(sim.customer[c], sim'.customer[c], c \in Departing(t), c \in sentAway)
      BY <1>9, <1>14, <3>2, <3>3
    <3>5. InService(c)' /\ sim'.customer[c].by = e
      BY <3>2, <3>3, <3>4 DEF StaysOrLeaves, InService
    <3> QED
      BY <3>5
  <2> QED
    BY <2>1, <2>2
<1> QED
  BY <1>11, <1>15, <1>16, <1>17 DEF ServiceOK

\* The line after the turn of such an instant.
LEMMA LineThen ==
  ASSUME day \in Days, ClockOK, LineOK, ServiceOK, NEW d, NEW line, NEW sentAway, NEW crew, NEW t, NEW closed,
         NEW ready, NEW queue, NEW work, TurnAt(d, line, sentAway, crew, t, closed, ready, queue, work)
  PROVE  LineOK'
<1>1. /\ BeforeTurn(d, line, sentAway, crew, t, closed) /\ QueueAt(queue, line, t)
      /\ Turn(ready, queue, sentAway, crew, t, closed, work) /\ \A e \in Employees : ready[e] \in Employee
  BY DEF TurnAt
<1>2. /\ t \in Nat /\ clock'.now = t /\ clock'.closed = closed /\ sim'.crew = crew /\ day' = day
      /\ sim.customer \in [Customers -> CustomerRow]
  BY <1>1 DEF BeforeTurn, Turn, ServiceOK
<1>3. PICK taken : taken = Taken(ready, queue)
  OBVIOUS
<1>4. PICK m : m = Cardinality(Taking(ready, queue))
  OBVIOUS
<1>5. PICK come \in sim.come .. N :
           /\ come = sim.come + Len(Coming(t)) /\ queue \in Seq(1 .. come) /\ queue \in Seq(Customers) /\ InOrder(queue)
           /\ \A c \in Customers : c \in Range(queue) <=> (c \in Range(line) \/ c \in sim.come + 1 .. come)
           /\ \A c \in Customers : c > come => day.arrival[c] > t
  BY <1>1, QueueAfter
<1>6. sim'.come = come /\ come \in 0 .. N /\ come \in Nat /\ sim.come \in 0 .. N /\ sim.come <= come
  BY <1>1, <1>5, NamedDayAssumption DEF Turn, LineOK
<1>7. /\ m \in 0 .. Len(queue) /\ \A k \in 1 .. m : queue[k] \in taken
      /\ \A c \in taken : \E k \in 1 .. m : c = queue[k]
      /\ \A c \in taken : Taker(ready, queue, c) \in Taking(ready, queue)
  BY <1>1, <1>3, <1>4, <1>5, TakenAre
<1>8. PICK rest : rest = sim'.line
  OBVIOUS
<1>9. /\ rest \in Seq(1 .. come) /\ InOrder(rest)
      /\ \A c : c \in Range(rest) <=> c \in Range(queue) /\ c \notin taken
  <2>1. rest = SubSeq(queue, m + 1, Len(queue))
    BY <1>1, <1>4, <1>8 DEF Turn
  <2>2. /\ rest \in Seq(1 .. come) /\ InOrder(rest)
        /\ \A c : c \in Range(rest) <=> c \in Range(queue) /\ \A k \in 1 .. m : c # queue[k]
    <3>1. come \in Nat /\ queue \in Seq(1 .. come) /\ InOrder(queue) /\ m \in 0 .. Len(queue)
      BY <1>5, <1>6, <1>7
    <3>2. LET short == SubSeq(queue, m + 1, Len(queue))
          IN /\ short \in Seq(1 .. come) /\ InOrder(short)
             /\ \A c : c \in Range(short) <=> c \in Range(queue) /\ \A k \in 1 .. m : c # queue[k]
      BY <3>1, RestOfLine
    <3> QED
      BY <2>1, <3>2, Zenon
  <2> QED
    BY <1>7, <2>2
<1>10. /\ taken \subseteq Range(queue)
       /\ \A c \in taken :
            c \in Customers /\ c \notin sentAway /\ c \notin Departing(t) /\ sim.customer[c].by = 0 /\ ~sim.customer[c].departed
  BY <1>3, TakenWereWaiting
<1>11. \A c \in Customers : c \in Range(queue) => c <= come
  <2> SUFFICES ASSUME NEW c \in Range(queue) PROVE c <= come
    OBVIOUS
  <2>1. PICK S : S = 1 .. come
    OBVIOUS
  <2>2. PICK k \in DOMAIN queue : c = queue[k]
    BY DEF Range
  <2>3. c \in S
    BY <1>5, <2>1, <2>2, ElementOfSeq
  <2> QED
    BY <1>6, <2>1, <2>3
<1>12. \A c \in Customers : c \in Range(sim.line) => c <= sim.come
  <2> SUFFICES ASSUME NEW c \in Range(sim.line) PROVE c <= sim.come
    OBVIOUS
  <2>1. PICK S : S = 1 .. sim.come
    OBVIOUS
  <2>2. PICK k \in DOMAIN sim.line : c = sim.line[k]
    BY DEF Range
  <2>3. c \in S
    BY <2>1, <2>2, ElementOfSeq DEF LineOK
  <2> QED
    BY <1>6, <2>1, <2>3
<1>13. ASSUME NEW c \in taken
       PROVE  /\ sim'.customer[c].by # 0 /\ ~sim'.customer[c].departed /\ sim'.customer[c].unserved = "no"
              /\ ~(c > come) /\ c \notin Range(rest)
  <2>1. c \in Customers /\ c <= come /\ c \in Nat
    BY <1>10, <1>11, NamedDayAssumption DEF Customers
  <2>2. PICK e \in Taking(ready, queue) : e = Taker(ready, queue, c)
    BY <1>7
  <2>3. e # 0
    BY WorkforceAssumption DEF Taking, Available
  <2>4. Joined(sim'.customer[c], e, t, work[e])
    BY <1>1, <1>2, <1>3, <2>1, <2>2, CustomerIs
  <2> QED
    BY <1>6, <1>9, <2>1, <2>3, <2>4 DEF Joined
<1>14. ASSUME NEW c \in Customers, c \notin taken
       PROVE  StaysOrLeaves(sim.customer[c], sim'.customer[c], c \in Departing(t), c \in sentAway)
  BY <1>1, <1>2, <1>3, <1>14, CustomerIs
<1>15. ASSUME NEW c \in Customers
       PROVE  (c > come \/ c \in Range(rest)) <=> (sim'.customer[c].by = 0 /\ sim'.customer[c].unserved = "no")
  <2>1. CASE c \in taken
    BY <1>13, <2>1
  <2>2. CASE c \notin taken
    <3>1. c \in Nat /\ (c \in Range(rest) <=> (c \in Range(line) \/ c \in sim.come + 1 .. come))
      BY <1>5, <1>9, <2>2, NamedDayAssumption DEF Customers
    <3>2. (c > come \/ c \in Range(rest)) <=> (c > sim.come \/ c \in Range(line))
      BY <1>6, <3>1
    <3>3. (c > sim.come \/ c \in Range(sim.line)) <=> (sim.customer[c].by = 0 /\ sim.customer[c].unserved = "no")
      BY DEF LineOK
    <3>4. c \in Range(sim.line) <=> (c \in Range(line) \/ c \in sentAway)
      BY <1>1 DEF BeforeTurn
    <3>5. CASE c \in Departing(t)
      <4>1. sim.customer[c].by # 0 /\ sim'.customer[c].by = sim.customer[c].by
        BY <1>14, <2>2, <3>5 DEF StaysOrLeaves, Departing, InService
      <4> QED
        BY <3>2, <3>3, <3>4, <4>1
    <3>6. CASE c \notin Departing(t) /\ c \in sentAway
      <4>1. sim'.customer[c].unserved # "no"
        BY <1>14, <2>2, <3>6 DEF StaysOrLeaves
      <4>2. c \notin Range(line) /\ c \in Range(sim.line)
        BY <1>1, <3>4, <3>6 DEF BeforeTurn
      <4>3. ~(c > sim.come)
        BY <1>6, <1>12, <3>1, <4>2
      <4> QED
        BY <3>2, <4>1, <4>2, <4>3
    <3>7. CASE c \notin Departing(t) /\ c \notin sentAway
      <4>1. sim'.customer[c].by = sim.customer[c].by /\ sim'.customer[c].unserved = sim.customer[c].unserved
        BY <1>14, <2>2, <3>7 DEF StaysOrLeaves
      <4> QED
        BY <3>2, <3>3, <3>4, <3>7, <4>1
    <3> QED
      BY <3>5, <3>6, <3>7
  <2> QED
    BY <2>1, <2>2
<1>16. ASSUME NEW c \in Customers, sim'.customer[c].departed PROVE sim'.customer[c].by # 0
  <2>1. c \notin taken
    BY <1>13, <1>16
  <2>2. StaysOrLeaves(sim.customer[c], sim'.customer[c], c \in Departing(t), c \in sentAway)
    BY <1>14, <2>1
  <2>3. sim.customer[c].departed \/ c \in Departing(t)
    BY <1>16, <2>2 DEF StaysOrLeaves
  <2>4. sim.customer[c].by # 0
    BY <2>3 DEF LineOK, Departing, InService
  <2> QED
    BY <2>2, <2>4 DEF StaysOrLeaves
<1>17. ASSUME NEW c \in Customers, sim'.customer[c].unserved # "no"
       PROVE  sim'.customer[c].by = 0 /\ crew = {} /\ closed
  <2>1. c \notin taken
    BY <1>13, <1>17
  <2>2. StaysOrLeaves(sim.customer[c], sim'.customer[c], c \in Departing(t), c \in sentAway)
    BY <1>14, <2>1
  <2>3. sim.customer[c].unserved # "no" \/ c \in sentAway
    BY <1>17, <2>2 DEF StaysOrLeaves
  <2>4. crew = {} /\ closed
    BY <1>1, <2>3 DEF BeforeTurn
  <2>5. sim.customer[c].by = 0
    <3>1. CASE sim.customer[c].unserved # "no"
      BY <3>1 DEF LineOK
    <3>2. CASE c \in sentAway
      BY <1>1, <3>2 DEF LineOK, BeforeTurn
    <3> QED
      BY <2>3, <3>1, <3>2
  <2> QED
    BY <2>2, <2>4, <2>5 DEF StaysOrLeaves
<1>18. closed => come = N
  BY <1>1, <1>6, NamedDayAssumption DEF BeforeTurn
<1>19. \A c \in Customers : c > sim'.come => day'.arrival[c] > clock'.now
  BY <1>2, <1>5, <1>6
<1> QED
  BY <1>2, <1>6, <1>8, <1>9, <1>15, <1>16, <1>17, <1>18, <1>19 DEF LineOK

-----------------------------------------------------------------------------
(* What is next *)

\* The parts of a day.
LEMMA DayIs ==
  ASSUME day \in Days
  PROVE  day.registers \in Nat /\ day.arrival \in Arrivals /\ \A e \in Employees : PlanOK(day.roster[e])
<1>1. PICK k \in Registers : day \in [registers : {k}, roster : Rosters(k), arrival : Arrivals, policy : {"DRAIN", "HARD_CUTOFF"}]
  BY DEF Days
<1>2. day.registers = k /\ day.roster \in Rosters(k) /\ day.arrival \in Arrivals
  BY <1>1
<1>3. day.roster \in [Employees -> Plans]
  BY <1>2 DEF Rosters
<1>4. \A e \in Employees : PlanOK(day.roster[e])
  BY <1>3, PlansAreOK
<1> QED
  BY <1>2, <1>4, WorkforceAssumption

\* The candidates for the next instant.
LEMMA InstantsAre ==
  ASSUME NEW t
  PROVE  t \in Instants <=>
           \/ \E e \in Employees : t \in Times(day.roster[e], emp[e])
           \/ ~clock.closed /\ t = Closing
           \/ sim.come < N /\ t = day.arrival[sim.come + 1]
           \/ \E c \in Customers : InService(c) /\ t = sim.customer[c].finish
<1>1. PICK A : A = UNION {Times(day.roster[e], emp[e]) : e \in Employees}
  OBVIOUS
<1>2. PICK B : B = IF clock.closed THEN {} ELSE {Closing}
  OBVIOUS
<1>3. PICK C : C = IF sim.come < N THEN {day.arrival[sim.come + 1]} ELSE {}
  OBVIOUS
<1>4. PICK D : D = {sim.customer[c].finish : c \in {d \in Customers : InService(d)}}
  OBVIOUS
<1>5. Instants = A \cup B \cup C \cup D
  BY <1>1, <1>2, <1>3, <1>4, Zenon DEF Instants
<1>6. t \in A <=> \E e \in Employees : t \in Times(day.roster[e], emp[e])
  BY <1>1, Zenon
<1>7. t \in B <=> ~clock.closed /\ t = Closing
  BY <1>2
<1>8. t \in C <=> sim.come < N /\ t = day.arrival[sim.come + 1]
  BY <1>3
<1>9. t \in D <=> \E c \in Customers : InService(c) /\ t = sim.customer[c].finish
  BY <1>4, Zenon
<1>10. t \in Instants <=> t \in A \/ t \in B \/ t \in C \/ t \in D
  BY <1>5, Zenon
<1> QED
  BY <1>6, <1>7, <1>8, <1>9, <1>10, Zenon

\* The times of an employee are to come.
LEMMA EmployeesAreAhead ==
  ASSUME IInv, NEW e \in Employees, NEW v \in Times(day.roster[e], emp[e])
  PROVE  v \in Nat /\ v > clock.now
<1>1. PlanOK(day.roster[e]) /\ clock.now \in Int /\ clock.now >= -1
  BY DayIs DEF IInv, ClockOK, Time, None
<1>2. CASE clock.closed
  <2>1. Late(day.roster[e], emp[e], clock.now, Ended(e), clock.now + 1)
    BY <1>2 DEF IInv, EmployeesOK
  <2> QED
    BY <1>1, <2>1, LateTimesAhead
<1>3. CASE ~clock.closed
  <2>1. Fit(day.roster[e], emp[e], clock.now, Ended(e), clock.now + 1, clock.now + 1, clock.now + 1, clock.now + 1)
    BY <1>3 DEF IInv, EmployeesOK
  <2> QED
    BY <1>1, <2>1, TimesAhead
<1> QED
  BY <1>2, <1>3

\* A customer whose service goes on leaves later.
LEMMA ServicesAreAhead ==
  ASSUME IInv, NEW c \in Customers, InService(c)
  PROVE  sim.customer[c].finish \in Nat /\ sim.customer[c].finish > clock.now /\ sim.customer[c].by \in Employees
           /\ emp[sim.customer[c].by].state \in Serving
<1>1. sim.customer[c] \in CustomerRow /\ sim.customer[c].finish > clock.now /\ sim.customer[c].by # 0
        /\ emp[sim.customer[c].by].state \in Serving
  BY DEF IInv, ServiceOK, InService
<1>2. clock.now \in Time
  BY DEF IInv, ClockOK
<1>3. sim.customer[c].finish \in Time /\ sim.customer[c].by \in Employees
  BY <1>1 DEF CustomerRow
<1>4. sim.customer[c].finish \in Nat
  BY <1>1, <1>2, <1>3 DEF Time, None
<1> QED
  BY <1>1, <1>3, <1>4

\* Nothing left to process has passed.
LEMMA InstantsAreAhead ==
  ASSUME IInv
  PROVE  \A t \in Instants : t \in Nat /\ t > clock.now
<1>1. /\ clock \in [now : Time, closed : BOOLEAN] /\ (clock.closed <=> clock.now >= Closing)
      /\ sim.come \in 0 .. N /\ day.arrival \in Arrivals
      /\ \A c \in Customers : c > sim.come => day.arrival[c] > clock.now
  BY DayIs DEF IInv, ClockOK, LineOK
<1> SUFFICES ASSUME NEW t \in Instants PROVE t \in Nat /\ t > clock.now
  OBVIOUS
<1>2. CASE \E e \in Employees : t \in Times(day.roster[e], emp[e])
  BY <1>2, EmployeesAreAhead
<1>3. CASE ~clock.closed /\ t = Closing
  BY <1>1, <1>3, NamedDayAssumption DEF Time, None
<1>4. CASE sim.come < N /\ t = day.arrival[sim.come + 1]
  <2>1. sim.come + 1 \in Customers /\ sim.come + 1 > sim.come
    BY <1>1, <1>4, NamedDayAssumption DEF Customers
  <2> QED
    BY <1>1, <1>4, <2>1, ArrivalsRise DEF Customers
<1>5. CASE \E c \in Customers : InService(c) /\ t = sim.customer[c].finish
  BY <1>5, ServicesAreAhead
<1> QED
  BY <1>2, <1>3, <1>4, <1>5, InstantsAre

\* What is known of the instant that is next.
NextIs(t) ==
  /\ t \in Nat /\ t > clock.now /\ (~clock.closed => t <= Closing)
  /\ sim.come < N => t <= day.arrival[sim.come + 1]
  /\ \A c \in Customers : InService(c) => sim.customer[c].finish >= t
  /\ \A e \in Employees : \A v \in Times(day.roster[e], emp[e]) : t <= v

\* The next instant is one of the candidates, and none of them is sooner.
LEMMA SoonestIs ==
  ASSUME IInv, NEW t \in Soonest
  PROVE  NextIs(t) /\ t \in Instants
<1>1. Instants # {} /\ t = Least(Instants)
  BY DEF Soonest
<1>2. Instants \subseteq Nat
  BY InstantsAreAhead
<1>3. t \in Instants /\ \A v \in Instants : t <= v
  BY <1>1, <1>2, LeastIs
<1>4. t \in Nat /\ t > clock.now
  BY <1>3, InstantsAreAhead
<1>5. ~clock.closed => Closing \in Instants
  BY InstantsAre
<1>6. sim.come < N => day.arrival[sim.come + 1] \in Instants
  BY InstantsAre
<1>7. \A c \in Customers : InService(c) => sim.customer[c].finish \in Instants
  BY InstantsAre
<1>8. \A e \in Employees : \A v \in Times(day.roster[e], emp[e]) : v \in Instants
  BY InstantsAre, Zenon
<1>9. \A c \in Customers : InService(c) => sim.customer[c].finish >= t
  BY <1>2, <1>3, <1>4, <1>7
<1> QED
  BY <1>3, <1>4, <1>5, <1>6, <1>8, <1>9 DEF NextIs

\* When services of e have ended, those at t with them.
EndsAt(e, t) == Ended(e) \cup (IF e \in Finishing(t) THEN {t} ELSE {})

\* Only who serves finishes.
LEMMA FinishingServe ==
  ASSUME IInv, NEW t, NEW e \in Finishing(t)
  PROVE  e \in Employees /\ emp[e].state \in Serving /\ t \in EndsAt(e, t)
<1>1. PICK c \in Customers : InService(c) /\ sim.customer[c].by = e
  BY DEF Finishing, Departing
<1> QED
  BY <1>1, ServicesAreAhead DEF EndsAt

\* Until the next instant nothing happens to an employee.
LEMMA OpenUntil ==
  ASSUME IInv, NEW t, NextIs(t), ~clock.closed, NEW e \in Employees
  PROVE  Fit(day.roster[e], emp[e], t, EndsAt(e, t), t, t, t, t)
<1>1. PlanOK(day.roster[e]) /\ clock.now \in Int
  BY DayIs DEF IInv, ClockOK, Time, None
<1>2. Fit(day.roster[e], emp[e], clock.now, Ended(e), clock.now + 1, clock.now + 1, clock.now + 1, clock.now + 1)
  BY DEF IInv, EmployeesOK
<1>3. t \in Nat /\ clock.now < t /\ \A v \in Times(day.roster[e], emp[e]) : t <= v
  BY DEF NextIs
<1>4. Ended(e) \subseteq EndsAt(e, t)
  BY DEF EndsAt
<1> QED
  BY <1>1, <1>2, <1>3, <1>4, FitUntil

\* So it is after closing.
LEMMA LateFrom ==
  ASSUME IInv, NEW t, NextIs(t), clock.closed, NEW e \in Employees
  PROVE  Late(day.roster[e], emp[e], t, EndsAt(e, t), t)
<1>1. PlanOK(day.roster[e]) /\ clock.now \in Int
  BY DayIs DEF IInv, ClockOK, Time, None
<1>2. Late(day.roster[e], emp[e], clock.now, Ended(e), clock.now + 1)
  BY DEF IInv, EmployeesOK
<1>3. t \in Nat /\ clock.now < t /\ \A v \in Times(day.roster[e], emp[e]) : t <= v
  BY DEF NextIs
<1>4. Ended(e) \subseteq EndsAt(e, t)
  BY DEF EndsAt
<1> QED
  BY <1>1, <1>2, <1>3, <1>4, LateUntil

-----------------------------------------------------------------------------
(* An instant keeps the invariant *)

\* More services may have ended.
LEMMA FitMore ==
  ASSUME NEW p, PlanOK(p), NEW x, NEW t \in Int, NEW ends, NEW e, NEW b, NEW d, NEW a, Fit(p, x, t, ends, e, b, d, a),
         NEW more, ends \subseteq more
  PROVE  Fit(p, x, t, more, e, b, d, a)
<1>1. Sound(p, x, t, more)
  BY SoundLater DEF Fit
<1> QED
  BY <1>1 DEF Fit

\* After closing too.
LEMMA LateMore ==
  ASSUME NEW p, PlanOK(p), NEW x, NEW t \in Int, NEW ends, NEW e, Late(p, x, t, ends, e), NEW more, ends \subseteq more
  PROVE  Late(p, x, t, more, e)
<1>1. Sound(p, x, t, more)
  BY SoundLater DEF Late
<1> QED
  BY <1>1 DEF Late

\* Those who may take customers are employees.
LEMMA ReadyAre ==
  ASSUME NEW d, NEW t \in Nat, NEW closed, day.registers \in Nat, NEW e \in Employees,
         Scheduled(day.roster[e], d[e], t, closed)[4] \in Employee, NEW ready, ReadyIs(ready, d, t, closed)
  PROVE  ready[e] \in Employee
<1>1. PICK staged : staged = Staged(d, t, closed)
  OBVIOUS
<1>2. staged[e] = Scheduled(day.roster[e], d[e], t, closed)[4]
  BY <1>1, Zenon DEF Staged
<1>3. ready = Handover(staged, day.registers, t) /\ staged[e] \in Employee
  BY <1>1, <1>2 DEF ReadyIs
<1>4. HandedOver(staged[e], ready[e], t)
  BY <1>3, HandoverIs
<1> QED
  BY <1>3, <1>4 DEF HandedOver, Recast, SameHistory

\* The invariant after the turn of an instant.
LEMMA TurnKeeps ==
  ASSUME IInv, NEW d, NEW line, NEW sentAway, NEW crew, NEW t, NEW closed \in BOOLEAN,
         NEW ready, NEW queue, NEW work, TurnAt(d, line, sentAway, crew, t, closed, ready, queue, work),
         closed <=> t >= Closing,
         \A e \in Employees :
           IF closed THEN Late(day.roster[e], emp'[e], t, EndsAt(e, t), t + 1)
           ELSE Fit(day.roster[e], emp'[e], t, EndsAt(e, t), t + 1, t + 1, t + 1, t + 1)
  PROVE  IInv'
<1>1. day \in Days /\ ClockOK /\ LineOK /\ ServiceOK
  BY DEF IInv
<1>2. ServiceOK' /\ LineOK'
  BY <1>1, ServiceThen, LineThen
<1>3. t \in Nat /\ clock' = [now |-> t, closed |-> closed] /\ day' = day
  BY DEF TurnAt, BeforeTurn, Turn
<1>4. day' \in Days' 
  BY <1>1, <1>3 DEF Days, Arrivals, Customers
<1>5. ClockOK'
  BY <1>3 DEF ClockOK, Time
<1>6. ASSUME NEW e \in Employees
      PROVE  IF closed THEN Late(day.roster[e], emp'[e], t, Ended(e)', t + 1)
             ELSE Fit(day.roster[e], emp'[e], t, Ended(e)', t + 1, t + 1, t + 1, t + 1)
  <2>1. EndsAt(e, t) \subseteq Ended(e)'
    BY <1>1, EndedThen DEF EndsAt
  <2>2. PlanOK(day.roster[e]) /\ t \in Int
    BY <1>1, <1>3, DayIs
  <2>3. CASE closed
    <3>1. Late(day.roster[e], emp'[e], t, EndsAt(e, t), t + 1)
      BY <2>3
    <3> QED
      BY <2>1, <2>2, <2>3, <3>1, LateMore
  <2>4. CASE ~closed
    <3>1. Fit(day.roster[e], emp'[e], t, EndsAt(e, t), t + 1, t + 1, t + 1, t + 1)
      BY <2>4
    <3> QED
      BY <2>1, <2>2, <2>4, <3>1, FitMore
  <2> QED
    BY <2>3, <2>4
<1>7. EmployeesOK'
  <2>1. clock'.now = t /\ clock'.closed = closed
    BY <1>3
  <2>2. ASSUME NEW e \in Employees
        PROVE  IF clock'.closed THEN Late(day'.roster[e], emp'[e], clock'.now, Ended(e)', clock'.now + 1)
               ELSE Fit(day'.roster[e], emp'[e], clock'.now, Ended(e)', clock'.now + 1, clock'.now + 1, clock'.now + 1, clock'.now + 1)
    BY <1>3, <1>6, <2>1
  <2> QED
    BY <2>2, Zenon DEF EmployeesOK
<1> QED
  BY <1>2, <1>4, <1>5, <1>7 DEF IInv

\* Some turn takes place; after closing nothing before the assignment changes how an employee stands.
Turned(d, line, sentAway, crew, t, closed) ==
  \E ready, queue, work :
    /\ TurnAt(d, line, sentAway, crew, t, closed, ready, queue, work)
    /\ closed => \A e \in Employees : StandsAs(d[e], ready[e]) /\ emp'[e].gone = d[e].gone

\* The rest of an instant before closing.
LEMMA OpenInstant ==
  ASSUME IInv, NEW t \in Nat, t < Closing, NEW d, BeforeTurn(d, sim.line, {}, {}, t, FALSE),
         \A e \in Employees : Fit(day.roster[e], d[e], t, EndsAt(e, t), t, t, t, t),
         NEW steps, StepsTo(steps, d), Finished(steps, sim.line, {}, {}, t, FALSE)
  PROVE  IInv' /\ Turned(d, sim.line, {}, {}, t, FALSE)
<1>1. PICK ready : ReadyIs(ready, d, t, FALSE)
  BY DEF ReadyIs
<1>2. PICK queue : QueueAt(queue, sim.line, t)
  BY DEF QueueAt
<1>3. PICK work : Turn(Handover(Staged(d, t, FALSE), day.registers, t), sim.line \o Coming(t), {}, {}, t, FALSE, work)
  BY FinishedIs
<1>4. Turn(ready, queue, {}, {}, t, FALSE, work)
  BY <1>1, <1>2, <1>3, Zenon DEF ReadyIs, QueueAt
<1>5. day.registers \in Nat /\ \A e \in Employees : PlanOK(day.roster[e])
  BY DayIs DEF IInv
<1>6. ASSUME NEW e \in Employees
      PROVE  /\ Fit(day.roster[e], emp'[e], t, EndsAt(e, t), t + 1, t + 1, t + 1, t + 1)
             /\ Onward(d[e], emp'[e], e, Taking(ready, queue), t)
  BY <1>1, <1>4, <1>5, OpenTurn
<1>7. ASSUME NEW e \in Employees PROVE ready[e] \in Employee
  <2>1. Fit(day.roster[e], Scheduled(day.roster[e], d[e], t, FALSE)[4], t, EndsAt(e, t), t + 1, t + 1, t + 1, t + 1)
    BY <1>5, OpenStages
  <2>2. Scheduled(day.roster[e], d[e], t, FALSE)[4] \in Employee
    BY <2>1 DEF Fit, Sound
  <2> QED
    BY <1>1, <1>5, <2>2, ReadyAre
<1>8. TurnAt(d, sim.line, {}, {}, t, FALSE, ready, queue, work)
  BY <1>2, <1>4, <1>6, <1>7 DEF TurnAt
<1>9. FALSE \in BOOLEAN /\ (FALSE <=> t >= Closing)
  BY NamedDayAssumption
<1>10. Turned(d, sim.line, {}, {}, t, FALSE)
  BY <1>8, Zenon DEF Turned
<1> QED
  BY <1>6, <1>8, <1>9, <1>10, TurnKeeps

\* The rest of an instant at closing or after it.
LEMMA LateInstant ==
  ASSUME IInv, NEW t \in Nat, t >= Closing, NEW d, NEW line, NEW sentAway, NEW crew,
         BeforeTurn(d, line, sentAway, crew, t, TRUE),
         \A e \in Employees : Late(day.roster[e], d[e], t, EndsAt(e, t), t),
         NEW steps, StepsTo(steps, d), Finished(steps, line, sentAway, crew, t, TRUE)
  PROVE  IInv' /\ Turned(d, line, sentAway, crew, t, TRUE)
<1>1. PICK ready : ReadyIs(ready, d, t, TRUE)
  BY DEF ReadyIs
<1>2. PICK queue : QueueAt(queue, line, t)
  BY DEF QueueAt
<1>3. PICK work : Turn(Handover(Staged(d, t, TRUE), day.registers, t), line \o Coming(t), sentAway, crew, t, TRUE, work)
  BY FinishedIs
<1>4. Turn(ready, queue, sentAway, crew, t, TRUE, work)
  BY <1>1, <1>2, <1>3, Zenon DEF ReadyIs, QueueAt
<1>5. day.registers \in Nat /\ \A e \in Employees : PlanOK(day.roster[e])
  BY DayIs DEF IInv
<1>6. ASSUME NEW e \in Employees
      PROVE  /\ Late(day.roster[e], emp'[e], t, EndsAt(e, t), t + 1)
             /\ Onward(d[e], emp'[e], e, Taking(ready, queue), t)
             /\ StandsAs(d[e], ready[e]) /\ emp'[e].gone = d[e].gone
  BY <1>1, <1>4, <1>5, LateTurn
<1>7. ASSUME NEW e \in Employees PROVE ready[e] \in Employee
  <2>1. LateStage(day.roster[e], d[e], t, EndsAt(e, t), Scheduled(day.roster[e], d[e], t, TRUE)[4])
    BY <1>5, LateStages
  <2>2. Scheduled(day.roster[e], d[e], t, TRUE)[4] \in Employee
    BY <2>1 DEF LateStage, Late, Sound
  <2> QED
    BY <1>1, <1>5, <2>2, ReadyAre
<1>8. TurnAt(d, line, sentAway, crew, t, TRUE, ready, queue, work)
  BY <1>2, <1>4, <1>6, <1>7 DEF TurnAt
<1>9. TRUE \in BOOLEAN /\ (TRUE <=> t >= Closing)
  BY NamedDayAssumption
<1>10. Turned(d, line, sentAway, crew, t, TRUE)
  BY <1>6, <1>8, Zenon DEF Turned
<1> QED
  BY <1>6, <1>8, <1>9, <1>10, TurnKeeps

\* Completions leave the times since when employees are free, or make them t.
FreeSince(d, t) == \A e \in Employees : d[e].since = emp[e].since \/ d[e].since = t

\* A completion does.
LEMMA CompletionSince ==
  ASSUME NEW p, NEW x \in Employee, NEW t \in Nat, x.state \in Serving
  PROVE  Complete(p, x, t, FALSE).since \in {x.since, t}
<1>1. Stated(x)
  BY DEF Stated, Employee
<1>2. CASE x.state = "SERVING"
  <2>1. Complete(p, x, t, FALSE) = Idle(x, t)
    BY <1>2 DEF Complete, Idle
  <2> QED
    BY <2>1, IdleIs
<1>3. CASE x.state = "SERVING_BREAK_DUE"
  <2>1. Complete(p, x, t, FALSE) = StartBreak(x, t)
    BY <1>3 DEF Complete
  <2> QED
    BY <1>1, <2>1, StartBreakState DEF InState
<1>4. CASE x.state = "SERVING_SHIFT_ENDED"
  <2>1. Complete(p, x, t, FALSE) = GoOff(p, x, t)
    BY <1>4 DEF Complete
  <2>2. InState(x, GoOff(p, x, t), "OFF")
    BY <1>1, GoOffState
  <2> QED
    BY <2>1, <2>2 DEF InState
<1> QED
  BY <1>2, <1>3, <1>4 DEF Serving

\* An instant before closing keeps the invariant.
LEMMA ServeKeeps ==
  ASSUME IInv, ServeInstant
  PROVE  /\ IInv' /\ ~clock.closed
         /\ \E d, t : NextIs(t) /\ FreeSince(d, t) /\ Turned(d, sim.line, {}, {}, t, FALSE)
<1>1. PICK t \in Soonest :
        /\ ~clock.closed /\ t < Closing
        /\ \E ended \in {Completed(t, {})} :
             Finished([e \in Employees |-> <<emp[e], ended[e], ended[e], ended[e]>>], sim.line, {}, {}, t, FALSE)
  BY Zenon DEF ServeInstant
<1>2. PICK d : d = Completed(t, {})
  OBVIOUS
<1>3. Finished([e \in Employees |-> <<emp[e], d[e], d[e], d[e]>>], sim.line, {}, {}, t, FALSE)
  BY <1>1, <1>2, Zenon
<1>4. NextIs(t) /\ t \in Nat
  BY SoonestIs DEF NextIs
<1>5. ASSUME NEW e \in Employees
      PROVE  /\ Fit(day.roster[e], d[e], t, EndsAt(e, t), t, t, t, t)
             /\ d[e].state \in Serving <=> (emp[e].state \in Serving /\ e \notin Finishing(t))
             /\ d[e].since = emp[e].since \/ d[e].since = t
  <2>1. PlanOK(day.roster[e]) /\ Fit(day.roster[e], emp[e], t, EndsAt(e, t), t, t, t, t)
    BY <1>1, <1>4, OpenUntil, DayIs DEF IInv
  <2>2. CASE e \in Finishing(t)
    <3>1. emp[e].state \in Serving /\ t \in EndsAt(e, t)
      BY <2>2, FinishingServe
    <3>2. (e \in {}) = FALSE
      OBVIOUS
    <3>3. d[e] = Complete(day.roster[e], emp[e], t, e \in {})
      BY <1>2, <2>2, Zenon DEF Completed
    <3>4. d[e] = Complete(day.roster[e], emp[e], t, FALSE)
      BY <3>2, <3>3, Zenon
    <3>5. /\ Fit(day.roster[e], Complete(day.roster[e], emp[e], t, FALSE), t, EndsAt(e, t), t, t, t, t)
          /\ Complete(day.roster[e], emp[e], t, FALSE).state \notin Serving
      BY <1>1, <1>4, <2>1, <3>1, CompletionKeeps
    <3>6. Fit(day.roster[e], d[e], t, EndsAt(e, t), t, t, t, t) /\ d[e].state \notin Serving
      BY <3>4, <3>5, Zenon
    <3>7. emp[e] \in Employee
      BY <2>1 DEF Fit, Sound
    <3>8. Complete(day.roster[e], emp[e], t, FALSE).since \in {emp[e].since, t}
      BY <1>4, <3>1, <3>7, CompletionSince
    <3>9. d[e].since \in {emp[e].since, t}
      BY <3>4, <3>8, Zenon
    <3> QED
      BY <2>2, <3>6, <3>9
  <2>3. CASE e \notin Finishing(t)
    <3>1. d[e] = emp[e]
      BY <1>2, <2>3, Zenon DEF Completed
    <3> QED
      BY <2>1, <2>3, <3>1
  <2> QED
    BY <2>2, <2>3
<1>6. PICK steps : steps = [e \in Employees |-> <<emp[e], d[e], d[e], d[e]>>]
  OBVIOUS
<1>7. StepsTo(steps, d)
  BY <1>6, Zenon DEF StepsTo
<1>8. BeforeTurn(d, sim.line, {}, {}, t, FALSE)
  <2>1. \A c \in Customers : ~(sim.customer[c].unserved # "no")
    BY <1>1 DEF IInv, LineOK
  <2>2. sim.line \in Seq(1 .. sim.come) /\ InOrder(sim.line)
    BY DEF IInv, LineOK
  <2> QED
    BY <1>4, <1>5, <2>1, <2>2 DEF BeforeTurn, NextIs
<1>9. Finished(steps, sim.line, {}, {}, t, FALSE)
  BY <1>3, <1>6, Zenon
<1>10. IInv' /\ Turned(d, sim.line, {}, {}, t, FALSE)
  BY <1>1, <1>4, <1>5, <1>7, <1>8, <1>9, OpenInstant
<1>11. FreeSince(d, t)
  BY <1>5 DEF FreeSince
<1> QED
  BY <1>1, <1>4, <1>10, <1>11, Zenon

\* Once closing is next, everybody has come.
LEMMA AllHaveCome ==
  ASSUME IInv, NEW t, NextIs(t), t >= Closing
  PROVE  sim.come = N
<1>1. sim.come \in 0 .. N /\ N \in Nat /\ day.arrival \in Arrivals /\ t \in Nat /\ Closing \in Nat
  BY DayIs, NamedDayAssumption DEF IInv, LineOK, NextIs
<1>2. SUFFICES ASSUME sim.come < N PROVE FALSE
  BY <1>1
<1>3. sim.come + 1 \in Customers
  BY <1>1, <1>2 DEF Customers
<1>4. day.arrival[sim.come + 1] \in 0 .. Closing - 1
  BY <1>1, <1>3 DEF Arrivals
<1> QED
  BY <1>1, <1>2, <1>4 DEF NextIs

\* One employee at closing: those accepting customers go on, the others are told to go.
LEMMA ToldAtClosing ==
  ASSUME NEW p, PlanOK(p), NEW t \in Nat, t = Closing, NEW ends, NEW x, AtClosing(p, x, t, ends), NEW told,
         NEW crew, NEW e, NEW before, NEW finishing \in BOOLEAN,
         e \in crew => before \in {"AVAILABLE", "SERVING"},
         IF finishing THEN before \in Serving /\ x.state = (IF before = "SERVING_SHIFT_ENDED" THEN "OFF" ELSE "AVAILABLE")
         ELSE x.state = before,
         told = (IF e \in crew THEN ApplyCancel(x)
                 ELSE IF before = "SERVING_BREAK_DUE" /\ ~finishing
                 THEN ApplyCancel(ApplyRelease(p, x, t))
                 ELSE IF before = "ON_BREAK"
                 THEN EndBreakAtClosing(p, ApplyRelease(p, ApplyCancel(x), t), t)
                 ELSE ApplyRelease(p, ApplyCancel(x), t))
  PROVE  /\ Late(p, told, t, ends, t) /\ (told.state \in Serving <=> x.state \in Serving)
         /\ told.gone <=> e \notin crew
         /\ e \in crew => told.state = x.state /\ told.since = x.since
<1>1. t >= Closing
  BY NamedDayAssumption
<1>2. CASE e \in crew
  <2>1. x.state \in {"AVAILABLE", "SERVING"}
    BY <1>2 DEF Serving
  <2>2. told = ApplyCancel(x)
    BY <1>2
  <2>3. Late(p, ApplyCancel(x), t, ends, t) /\ ApplyCancel(x).gone = FALSE /\ ApplyCancel(x).state = x.state
         /\ ApplyCancel(x).since = x.since
    BY <2>1, CrewIsTold
  <2> QED
    BY <1>2, <2>2, <2>3
<1>3. ASSUME NEW y, e \notin crew, told = y, ToldToGo(p, x, t, ends, y)
      PROVE  /\ Late(p, told, t, ends, t) /\ (told.state \in Serving <=> x.state \in Serving)
             /\ told.gone <=> e \notin crew
             /\ e \in crew => told.state = x.state /\ told.since = x.since
  BY <1>3 DEF ToldToGo
<1>4. CASE e \notin crew /\ before = "SERVING_BREAK_DUE" /\ ~finishing
  <2>1. told = ApplyCancel(ApplyRelease(p, x, t)) /\ x.state = "SERVING_BREAK_DUE"
    BY <1>4
  <2>2. ToldToGo(p, x, t, ends, ApplyCancel(ApplyRelease(p, x, t)))
    BY <1>1, <2>1, DueIsTold
  <2> QED
    BY <1>3, <1>4, <2>1, <2>2
<1>5. CASE e \notin crew /\ before = "ON_BREAK"
  <2>1. told = EndBreakAtClosing(p, ApplyRelease(p, ApplyCancel(x), t), t)
    BY <1>5
  <2>2. x.state = "ON_BREAK"
    BY <1>5 DEF Serving
  <2>3. ToldToGo(p, x, t, ends, EndBreakAtClosing(p, ApplyRelease(p, ApplyCancel(x), t), t))
    BY <2>2, BreakIsCut
  <2> QED
    BY <1>3, <1>5, <2>1, <2>3
<1>6. CASE e \notin crew /\ ~(before = "SERVING_BREAK_DUE" /\ ~finishing) /\ before # "ON_BREAK"
  <2>1. told = ApplyRelease(p, ApplyCancel(x), t)
    BY <1>6
  <2>2. x.state # "ON_BREAK"
    BY <1>6
  <2>3. ToldToGo(p, x, t, ends, ApplyRelease(p, ApplyCancel(x), t))
    BY <1>1, <2>2, OthersAreTold
  <2> QED
    BY <1>3, <1>6, <2>1, <2>3
<1> QED
  BY <1>2, <1>4, <1>5, <1>6

\* Who of those still there leaves is released.
LEMMA ReleasedIs ==
  ASSUME NEW p, PlanOK(p), NEW t \in Nat, t >= Closing, NEW ends, NEW x, Late(p, x, t, ends, t), NEW leaving, NEW e,
         e \in leaving => ~x.gone, NEW y, y = (IF e \in leaving THEN ApplyRelease(p, x, t) ELSE x)
  PROVE  /\ Late(p, y, t, ends, t) /\ (y.state \in Serving <=> x.state \in Serving)
         /\ y.gone <=> (x.gone \/ e \in leaving)
         /\ ~y.gone => y = x
<1>1. CASE e \notin leaving
  BY <1>1
<1>2. CASE e \in leaving
  <2>1. y = ApplyRelease(p, x, t)
    BY <1>2
  <2>2. /\ Late(p, ApplyRelease(p, x, t), t, ends, t) /\ ApplyRelease(p, x, t).gone = TRUE
        /\ ApplyRelease(p, x, t).state = (IF x.state = "SERVING" THEN "SERVING_SHIFT_ENDED" ELSE "OFF")
    BY <1>2, LateRelease
  <2>3. x.state \in {"AVAILABLE", "SERVING"}
    BY <1>2 DEF Late
  <2> QED
    BY <1>2, <2>1, <2>2, <2>3 DEF Serving
<1> QED
  BY <1>1, <1>2

\* Only members of the crew leave, who were idle or finish now.
LEMMA LeavingAre ==
  ASSUME NEW crew, NEW waiting, NEW t, NEW e \in DoneForToday(crew, waiting, t)
  PROVE  /\ e \in crew
         /\ (e \in Employees /\ emp[e].state = "AVAILABLE") \/ (e \in Finishing(t) /\ emp[e].state = "SERVING")
BY DEF DoneForToday, Available

\* The crew, those told and those released at closing.
AllAreTold(told, d, t, crew) == told = [e \in Employees |-> ClosingInputs(e, d[e], t, crew)]

ReleasedAre(released, told, leaving, t) ==
  released = [e \in Employees |-> IF e \in leaving THEN ApplyRelease(day.roster[e], told[e], t) ELSE told[e]]

ClosesWith(crew, line, sent, told, released) ==
  /\ ~clock.closed /\ Closing \in Soonest /\ crew = CrewAtClosing
  /\ sent = (IF crew = {} THEN Range(sim.line) ELSE {}) /\ line = (IF crew = {} THEN <<>> ELSE sim.line)
  /\ AllAreTold(told, Completed(Closing, Employees), Closing, crew)
  /\ ReleasedAre(released, told, DoneForToday(crew, Len(line), Closing), Closing)
  /\ Finished([e \in Employees |-> <<emp[e], Completed(Closing, Employees)[e], told[e], released[e]>>],
              line, sent, crew, Closing, TRUE)

\* Whoever is not released had been free or serving, has stayed so or has just become free; r is he then.
GoesOn(e, r, t) ==
  ~r.gone =>
    /\ ~emp[e].gone /\ emp[e].state \in {"AVAILABLE", "SERVING"}
    /\ IF e \in Finishing(t) THEN emp[e].state = "SERVING" /\ r.state = "AVAILABLE" /\ r.since = t
       ELSE r.state = emp[e].state /\ r.since = emp[e].since

\* The steps of closing.
LEMMA CloseIs ==
  ASSUME CloseInstant
  PROVE  \E crew, line, sent, told, released : ClosesWith(crew, line, sent, told, released)
<1>1. PICK crew : crew = CrewAtClosing
  OBVIOUS
<1>2. PICK d : d = Completed(Closing, Employees)
  OBVIOUS
<1>3. PICK sent : sent = IF crew = {} THEN Range(sim.line) ELSE {}
  <2>1. PICK all : all = Range(sim.line)
    OBVIOUS
  <2>2. \E sent : sent = IF crew = {} THEN all ELSE {}
    OBVIOUS
  <2> QED
    BY <2>1, <2>2, Zenon
<1>4. PICK line : line = IF crew = {} THEN <<>> ELSE sim.line
  OBVIOUS
<1>5. PICK leaving : leaving = DoneForToday(crew, Len(line), Closing)
  BY Zenon
<1>6. ~clock.closed /\ Closing \in Soonest
  BY Zenon DEF CloseInstant
<1>7. \E told \in {[e \in Employees |-> ClosingInputs(e, d[e], Closing, crew)]} :
        \E released \in {[e \in Employees |->
           IF e \in leaving THEN ApplyRelease(day.roster[e], told[e], Closing) ELSE told[e]]} :
          Finished([e \in Employees |-> <<emp[e], d[e], told[e], released[e]>>], line, sent, crew, Closing, TRUE)
  BY <1>1, <1>2, <1>3, <1>4, <1>5, ZenonT(60) DEF CloseInstant
<1>8. PICK told \in {[e \in Employees |-> ClosingInputs(e, d[e], Closing, crew)]} :
        \E released \in {[e \in Employees |->
           IF e \in leaving THEN ApplyRelease(day.roster[e], told[e], Closing) ELSE told[e]]} :
          Finished([e \in Employees |-> <<emp[e], d[e], told[e], released[e]>>], line, sent, crew, Closing, TRUE)
  BY <1>7, Zenon
<1>9. PICK released \in {[e \in Employees |->
           IF e \in leaving THEN ApplyRelease(day.roster[e], told[e], Closing) ELSE told[e]]} :
          Finished([e \in Employees |-> <<emp[e], d[e], told[e], released[e]>>], line, sent, crew, Closing, TRUE)
  BY <1>8, Zenon
<1>10. AllAreTold(told, d, Closing, crew)
  BY <1>8, Zenon DEF AllAreTold
<1>11. ReleasedAre(released, told, leaving, Closing)
  BY <1>9, Zenon DEF ReleasedAre
<1>12. AllAreTold(told, Completed(Closing, Employees), Closing, crew)
  BY <1>2, <1>10, Zenon
<1>13. ReleasedAre(released, told, DoneForToday(crew, Len(line), Closing), Closing)
  BY <1>5, <1>11, Zenon
<1>14. Finished([e \in Employees |-> <<emp[e], Completed(Closing, Employees)[e], told[e], released[e]>>],
                line, sent, crew, Closing, TRUE)
  BY <1>2, <1>9, Zenon
<1>15. ClosesWith(crew, line, sent, told, released)
  BY <1>1, <1>3, <1>4, <1>6, <1>12, <1>13, <1>14, Zenon DEF ClosesWith
<1> QED
  BY <1>15, Zenon

\* The steps of an instant after closing.
LEMMA DrainIs ==
  ASSUME DrainInstant
  PROVE  \E t \in Soonest : \E released :
           /\ clock.closed
           /\ ReleasedAre(released, Completed(t, {}), DoneForToday(sim.crew, Len(sim.line), t), t)
           /\ Finished([e \in Employees |-> <<emp[e], Completed(t, {})[e], Completed(t, {})[e], released[e]>>],
                       sim.line, {}, sim.crew, t, TRUE)
<1>1. PICK t \in Soonest :
        /\ clock.closed
        /\ \E leaving \in {DoneForToday(sim.crew, Len(sim.line), t)}, ended \in {Completed(t, {})} :
           \E released \in {[e \in Employees |->
               IF e \in leaving THEN ApplyRelease(day.roster[e], ended[e], t) ELSE ended[e]]} :
             Finished([e \in Employees |-> <<emp[e], ended[e], ended[e], released[e]>>],
                      sim.line, {}, sim.crew, t, TRUE)
  BY Zenon DEF DrainInstant
<1>2. PICK leaving : leaving = DoneForToday(sim.crew, Len(sim.line), t)
  BY Zenon
<1>3. PICK d : d = Completed(t, {})
  OBVIOUS
<1>4. \E released \in {[e \in Employees |-> IF e \in leaving THEN ApplyRelease(day.roster[e], d[e], t) ELSE d[e]]} :
        Finished([e \in Employees |-> <<emp[e], d[e], d[e], released[e]>>], sim.line, {}, sim.crew, t, TRUE)
  BY <1>1, <1>2, <1>3, Zenon
<1>5. PICK released \in {[e \in Employees |-> IF e \in leaving THEN ApplyRelease(day.roster[e], d[e], t) ELSE d[e]]} :
        Finished([e \in Employees |-> <<emp[e], d[e], d[e], released[e]>>], sim.line, {}, sim.crew, t, TRUE)
  BY <1>4, Zenon
<1>6. ReleasedAre(released, d, leaving, t)
  BY <1>5, Zenon DEF ReleasedAre
<1> QED
  BY <1>1, <1>2, <1>3, <1>5, <1>6, ZenonT(60)

\* One employee at closing, before customers are taken.
LEMMA ClosedOne ==
  ASSUME IInv, NEW crew, NEW line, NEW sent, NEW told, NEW released, ClosesWith(crew, line, sent, told, released),
         NEW e \in Employees
  PROVE  /\ Late(day.roster[e], released[e], Closing, EndsAt(e, Closing), Closing)
         /\ released[e].state \in Serving <=> (emp[e].state \in Serving /\ e \notin Finishing(Closing))
         /\ released[e].gone <=> (e \notin crew \/ e \in DoneForToday(crew, Len(line), Closing))
         /\ GoesOn(e, released[e], Closing)
<1>1. PICK t \in Nat : t = Closing
  BY NamedDayAssumption
<1>2. ~clock.closed /\ NextIs(t) /\ crew = CrewAtClosing
  BY <1>1, SoonestIs DEF ClosesWith
<1>3. PICK p : p = day.roster[e]
  OBVIOUS
<1>4. PlanOK(p) /\ Fit(p, emp[e], t, EndsAt(e, t), t, t, t, t)
  BY <1>2, <1>3, OpenUntil, DayIs DEF IInv
<1>5. AtClosing(p, emp[e], t, EndsAt(e, t)) /\ t >= Closing
  BY <1>1, <1>4 DEF Fit, Ahead, AtClosing
<1>6. PICK x : x = Completed(t, Employees)[e]
  OBVIOUS
<1>7. /\ AtClosing(p, x, t, EndsAt(e, t))
      /\ IF e \in Finishing(t)
         THEN /\ emp[e].state \in Serving
              /\ x.state = (IF emp[e].state = "SERVING_SHIFT_ENDED" THEN "OFF" ELSE "AVAILABLE")
              /\ emp[e].state # "SERVING_SHIFT_ENDED" => x.since = t
         ELSE x.state = emp[e].state /\ x.since = emp[e].since
  <2>1. CASE e \in Finishing(t)
    <3>1. emp[e].state \in Serving /\ t \in EndsAt(e, t)
      BY <2>1, FinishingServe
    <3>2. (e \in Employees) = TRUE
      OBVIOUS
    <3>3. x = Complete(p, emp[e], t, e \in Employees)
      BY <1>3, <1>6, <2>1, Zenon DEF Completed
    <3>4. x = Complete(p, emp[e], t, TRUE)
      BY <3>2, <3>3, Zenon
    <3>5. DoneAtClosing(p, emp[e], t, EndsAt(e, t), Complete(p, emp[e], t, TRUE))
      BY <1>4, <1>5, <3>1, ClosingCompletion
    <3>6. DoneAtClosing(p, emp[e], t, EndsAt(e, t), x)
      BY <3>4, <3>5, Zenon
    <3> QED
      BY <2>1, <3>1, <3>6 DEF DoneAtClosing
  <2>2. CASE e \notin Finishing(t)
    <3>1. x = emp[e]
      BY <1>6, <2>2, Zenon DEF Completed
    <3> QED
      BY <1>5, <2>2, <3>1
  <2> QED
    BY <2>1, <2>2
<1>8. PICK f \in BOOLEAN : f <=> e \in Finishing(t)
  <2>1. CASE e \in Finishing(t)
    BY <2>1, TRUE \in BOOLEAN
  <2>2. CASE e \notin Finishing(t)
    BY <2>2, FALSE \in BOOLEAN
  <2> QED
    BY <2>1, <2>2
<1>9. PICK before : before = emp[e].state
  OBVIOUS
<1>10. told[e] = ClosingInputs(e, x, t, crew)
  <2>1. AllAreTold(told, Completed(Closing, Employees), Closing, crew)
    BY Zenon DEF ClosesWith
  <2>2. told[e] = ClosingInputs(e, Completed(Closing, Employees)[e], Closing, crew)
    BY <2>1, Zenon DEF AllAreTold
  <2> QED
    BY <1>1, <1>6, <2>2, Zenon
<1>11. PICK y : y = told[e]
  OBVIOUS
<1>12. y = (IF e \in crew THEN ApplyCancel(x)
            ELSE IF before = "SERVING_BREAK_DUE" /\ ~f
            THEN ApplyCancel(ApplyRelease(p, x, t))
            ELSE IF before = "ON_BREAK"
            THEN EndBreakAtClosing(p, ApplyRelease(p, ApplyCancel(x), t), t)
            ELSE ApplyRelease(p, ApplyCancel(x), t))
  BY <1>3, <1>8, <1>9, <1>10, <1>11, Zenon DEF ClosingInputs
<1>13. e \in crew => before \in {"AVAILABLE", "SERVING"}
  BY <1>2, <1>9 DEF CrewAtClosing
<1>14. IF f THEN before \in Serving /\ x.state = (IF before = "SERVING_SHIFT_ENDED" THEN "OFF" ELSE "AVAILABLE")
       ELSE x.state = before
  BY <1>7, <1>8, <1>9
<1>15. /\ Late(p, y, t, EndsAt(e, t), t) /\ (y.state \in Serving <=> x.state \in Serving)
       /\ y.gone <=> e \notin crew
       /\ e \in crew => y.state = x.state /\ y.since = x.since
  BY <1>1, <1>4, <1>7, <1>12, <1>13, <1>14, ToldAtClosing
<1>16. PICK leaving : leaving = DoneForToday(crew, Len(line), Closing)
  BY Zenon
<1>17. released[e] = IF e \in leaving THEN ApplyRelease(p, y, t) ELSE y
  <2>1. ReleasedAre(released, told, leaving, Closing)
    BY <1>16, Zenon DEF ClosesWith
  <2> QED
    BY <1>1, <1>3, <1>11, <2>1, Zenon DEF ReleasedAre
<1>18. e \in leaving => ~y.gone
  BY <1>15, <1>16, LeavingAre
<1>19. /\ Late(p, released[e], t, EndsAt(e, t), t) /\ (released[e].state \in Serving <=> y.state \in Serving)
       /\ released[e].gone <=> (y.gone \/ e \in leaving)
       /\ ~released[e].gone => released[e] = y
  BY <1>4, <1>5, <1>15, <1>17, <1>18, ReleasedIs
<1>20. x.state \in Serving <=> (emp[e].state \in Serving /\ e \notin Finishing(t))
  BY <1>7 DEF Serving
<1>21. ASSUME ~released[e].gone
       PROVE  /\ ~emp[e].gone /\ emp[e].state \in {"AVAILABLE", "SERVING"}
              /\ IF e \in Finishing(t)
                 THEN emp[e].state = "SERVING" /\ released[e].state = "AVAILABLE" /\ released[e].since = t
                 ELSE released[e].state = emp[e].state /\ released[e].since = emp[e].since
  <2>1. e \in crew /\ released[e].state = x.state /\ released[e].since = x.since
    BY <1>15, <1>19, <1>21
  <2>2. emp[e].state \in {"AVAILABLE", "SERVING"} /\ ~emp[e].gone
    BY <1>4, <1>9, <1>13, <2>1 DEF Fit
  <2> QED
    BY <1>7, <2>1, <2>2 DEF Serving
<1>22. GoesOn(e, released[e], t)
  BY <1>21 DEF GoesOn
<1> QED
  BY <1>1, <1>3, <1>15, <1>16, <1>19, <1>20, <1>22

\* What closing does to the line.
LEMMA ClosingLine ==
  ASSUME IInv, NEW crew, NEW line, NEW sent, NEW told, NEW released, ClosesWith(crew, line, sent, told, released)
  PROVE  BeforeTurn(released, line, sent, crew, Closing, TRUE)
<1>1. NextIs(Closing) /\ ~clock.closed /\ Closing >= Closing
  BY SoonestIs, NamedDayAssumption DEF ClosesWith
<1>2. sim.come = N
  BY <1>1, AllHaveCome
<1>3. sim.line \in Seq(1 .. sim.come) /\ InOrder(sim.line) /\ \A c \in Customers : ~(sim.customer[c].unserved # "no")
  BY <1>1 DEF IInv, LineOK
<1>4. sent = (IF crew = {} THEN Range(sim.line) ELSE {}) /\ line = (IF crew = {} THEN <<>> ELSE sim.line)
  BY Zenon DEF ClosesWith
<1>5. /\ line \in Seq(1 .. sim.come) /\ InOrder(line)
      /\ \A c \in Customers : c \in Range(sim.line) <=> (c \in Range(line) \/ c \in sent)
      /\ \A c \in Customers : ~(c \in Range(line) /\ c \in sent)
      /\ \A c \in Customers : c \in sent => crew = {}
  <2>1. CASE crew = {}
    <3>1. line = <<>> /\ sent = Range(sim.line)
      BY <1>4, <2>1
    <3>2. line \in Seq(1 .. sim.come) /\ InOrder(line) /\ Range(line) = {}
      BY <3>1 DEF InOrder, Range
    <3> QED
      BY <2>1, <3>1, <3>2
  <2>2. CASE crew # {}
    <3>1. line = sim.line /\ sent = {}
      BY <1>4, <2>2
    <3> QED
      BY <1>3, <3>1
  <2> QED
    BY <2>1, <2>2
<1>6. \A e \in Employees : released[e].state \in Serving <=> (emp[e].state \in Serving /\ e \notin Finishing(Closing))
  BY ClosedOne
<1> QED
  BY <1>1, <1>2, <1>3, <1>5, <1>6 DEF BeforeTurn, NextIs

\* Closing keeps the invariant.
LEMMA CloseKeeps ==
  ASSUME IInv, CloseInstant
  PROVE  /\ IInv'
         /\ \E crew, line, sent, told, released :
              ClosesWith(crew, line, sent, told, released) /\ Turned(released, line, sent, crew, Closing, TRUE)
<1>1. PICK crew, line, sent, told, released : ClosesWith(crew, line, sent, told, released)
  BY CloseIs
<1>2. PICK steps : steps = [e \in Employees |-> <<emp[e], Completed(Closing, Employees)[e], told[e], released[e]>>]
  OBVIOUS
<1>3. StepsTo(steps, released)
  BY <1>2, Zenon DEF StepsTo
<1>4. Finished(steps, line, sent, crew, Closing, TRUE)
  BY <1>1, <1>2, Zenon DEF ClosesWith
<1>5. \A e \in Employees : Late(day.roster[e], released[e], Closing, EndsAt(e, Closing), Closing)
  BY <1>1, ClosedOne
<1>6. BeforeTurn(released, line, sent, crew, Closing, TRUE)
  BY <1>1, ClosingLine, Zenon
<1>7. Closing \in Nat /\ Closing >= Closing
  BY NamedDayAssumption
<1>8. IInv' /\ Turned(released, line, sent, crew, Closing, TRUE)
  BY <1>3, <1>4, <1>5, <1>6, <1>7, LateInstant
<1> QED
  BY <1>1, <1>8, Zenon

\* One employee after closing, before customers are taken.
LEMMA DrainedOne ==
  ASSUME IInv, NEW t \in Soonest, clock.closed, NEW released,
         ReleasedAre(released, Completed(t, {}), DoneForToday(sim.crew, Len(sim.line), t), t), NEW e \in Employees
  PROVE  /\ Late(day.roster[e], released[e], t, EndsAt(e, t), t)
         /\ released[e].state \in Serving <=> (emp[e].state \in Serving /\ e \notin Finishing(t))
         /\ released[e].gone <=> (emp[e].gone \/ e \in DoneForToday(sim.crew, Len(sim.line), t))
         /\ GoesOn(e, released[e], t)
<1>1. NextIs(t) /\ t \in Nat /\ t >= Closing
  <2>1. NextIs(t)
    BY SoonestIs
  <2>2. t \in Nat /\ t > clock.now /\ clock.now >= Closing /\ clock.now \in Int
    BY <2>1 DEF NextIs, IInv, ClockOK, Time, None
  <2> QED
    BY <2>1, <2>2, NamedDayAssumption
<1>2. PICK p : p = day.roster[e]
  OBVIOUS
<1>3. PlanOK(p) /\ Late(p, emp[e], t, EndsAt(e, t), t)
  BY <1>1, <1>2, LateFrom, DayIs DEF IInv
<1>4. PICK x : x = Completed(t, {})[e]
  OBVIOUS
<1>5. /\ Late(p, x, t, EndsAt(e, t), t) /\ x.gone = emp[e].gone
      /\ x.state = (IF e \in Finishing(t) THEN IF emp[e].gone THEN "OFF" ELSE "AVAILABLE" ELSE emp[e].state)
      /\ ~emp[e].gone => x.since = (IF e \in Finishing(t) THEN t ELSE emp[e].since)
  <2>1. CASE e \in Finishing(t)
    <3>1. emp[e].state \in Serving
      BY <2>1, FinishingServe
    <3>2. (e \in {}) = FALSE
      OBVIOUS
    <3>3. x = Complete(p, emp[e], t, e \in {})
      BY <1>2, <1>4, <2>1, Zenon DEF Completed
    <3>4. x = Complete(p, emp[e], t, FALSE)
      BY <3>2, <3>3, Zenon
    <3>5. LET y == Complete(p, emp[e], t, FALSE)
          IN /\ Late(p, y, t, EndsAt(e, t), t) /\ y.gone = emp[e].gone
             /\ y.state = (IF emp[e].gone THEN "OFF" ELSE "AVAILABLE")
             /\ (~emp[e].gone => y.since = t)
      <4>1. PICK who : who = emp[e]
        OBVIOUS
      <4>2. who.state \in Serving /\ Late(p, who, t, EndsAt(e, t), t)
        BY <1>3, <3>1, <4>1
      <4>3. LET y == Complete(p, who, t, FALSE)
            IN /\ Late(p, y, t, EndsAt(e, t), t) /\ y.gone = who.gone
               /\ y.state = (IF who.gone THEN "OFF" ELSE "AVAILABLE")
               /\ (~who.gone => y.since = t)
        BY <1>1, <1>3, <4>2, LateCompletion
      <4> QED
        BY <4>1, <4>3, Zenon
    <3> QED
      BY <2>1, <3>4, <3>5, Zenon
  <2>2. CASE e \notin Finishing(t)
    <3>1. x = emp[e]
      BY <1>4, <2>2, Zenon DEF Completed
    <3> QED
      BY <1>3, <2>2, <3>1
  <2> QED
    BY <2>1, <2>2
<1>6. PICK leaving : leaving = DoneForToday(sim.crew, Len(sim.line), t)
  BY Zenon
<1>7. released[e] = IF e \in leaving THEN ApplyRelease(p, x, t) ELSE x
  <2>1. ReleasedAre(released, Completed(t, {}), leaving, t)
    BY <1>6, Zenon
  <2> QED
    BY <1>2, <1>4, <2>1, Zenon DEF ReleasedAre
<1>8. e \in leaving => ~x.gone
  <2>1. e \in leaving => emp[e].state \in {"AVAILABLE", "SERVING"}
    BY <1>6, LeavingAre
  <2> QED
    BY <1>3, <1>5, <2>1 DEF Late
<1>9. /\ Late(p, released[e], t, EndsAt(e, t), t) /\ (released[e].state \in Serving <=> x.state \in Serving)
      /\ released[e].gone <=> (x.gone \/ e \in leaving)
      /\ ~released[e].gone => released[e] = x
  BY <1>1, <1>3, <1>5, <1>7, <1>8, ReleasedIs
<1>10. x.state \in Serving <=> (emp[e].state \in Serving /\ e \notin Finishing(t))
  BY <1>5 DEF Serving
<1>11. GoesOn(e, released[e], t)
  <2>1. SUFFICES ASSUME ~released[e].gone
                 PROVE  /\ ~emp[e].gone /\ emp[e].state \in {"AVAILABLE", "SERVING"}
                        /\ IF e \in Finishing(t)
                           THEN emp[e].state = "SERVING" /\ released[e].state = "AVAILABLE" /\ released[e].since = t
                           ELSE released[e].state = emp[e].state /\ released[e].since = emp[e].since
    BY DEF GoesOn
  <2>2. released[e] = x /\ ~emp[e].gone
    BY <1>5, <1>9, <2>1
  <2>3. emp[e].state \in {"AVAILABLE", "SERVING"}
    BY <1>3, <2>2 DEF Late
  <2>4. e \in Finishing(t) => emp[e].state \in Serving
    BY FinishingServe
  <2>5. x.state = (IF e \in Finishing(t) THEN "AVAILABLE" ELSE emp[e].state)
    BY <1>5, <2>2
  <2> QED
    BY <1>5, <2>2, <2>3, <2>4, <2>5 DEF Serving
<1> QED
  BY <1>2, <1>5, <1>6, <1>9, <1>10, <1>11

\* So does an instant after it.
LEMMA DrainKeeps ==
  ASSUME IInv, DrainInstant
  PROVE  /\ IInv' /\ clock.closed
         /\ \E t \in Soonest : \E released :
              /\ ReleasedAre(released, Completed(t, {}), DoneForToday(sim.crew, Len(sim.line), t), t)
              /\ Turned(released, sim.line, {}, sim.crew, t, TRUE)
<1>1. PICK t \in Soonest : \E released :
           /\ clock.closed
           /\ ReleasedAre(released, Completed(t, {}), DoneForToday(sim.crew, Len(sim.line), t), t)
           /\ Finished([e \in Employees |-> <<emp[e], Completed(t, {})[e], Completed(t, {})[e], released[e]>>],
                       sim.line, {}, sim.crew, t, TRUE)
  BY DrainIs, Zenon
<1>2. PICK released :
           /\ clock.closed
           /\ ReleasedAre(released, Completed(t, {}), DoneForToday(sim.crew, Len(sim.line), t), t)
           /\ Finished([e \in Employees |-> <<emp[e], Completed(t, {})[e], Completed(t, {})[e], released[e]>>],
                       sim.line, {}, sim.crew, t, TRUE)
  BY <1>1, Zenon
<1>3. PICK steps : steps = [e \in Employees |-> <<emp[e], Completed(t, {})[e], Completed(t, {})[e], released[e]>>]
  OBVIOUS
<1>4. StepsTo(steps, released)
  BY <1>3, Zenon DEF StepsTo
<1>5. Finished(steps, sim.line, {}, sim.crew, t, TRUE)
  BY <1>2, <1>3, Zenon
<1>6. \A e \in Employees :
        /\ Late(day.roster[e], released[e], t, EndsAt(e, t), t)
        /\ released[e].state \in Serving <=> (emp[e].state \in Serving /\ e \notin Finishing(t))
  BY <1>2, DrainedOne
<1>7. NextIs(t) /\ t \in Nat /\ t >= Closing
  <2>1. NextIs(t)
    BY SoonestIs
  <2>2. t \in Nat /\ t > clock.now /\ clock.now >= Closing /\ clock.now \in Int
    BY <1>2, <2>1 DEF NextIs, IInv, ClockOK, Time, None
  <2> QED
    BY <2>1, <2>2, NamedDayAssumption
<1>8. BeforeTurn(released, sim.line, {}, sim.crew, t, TRUE)
  <2>1. \A c \in Customers : sim.customer[c].unserved # "no" => sim.crew = {}
    BY DEF IInv, LineOK
  <2>2. sim.line \in Seq(1 .. sim.come) /\ InOrder(sim.line) /\ sim.come = N
    BY <1>2 DEF IInv, LineOK
  <2> QED
    BY <1>6, <1>7, <2>1, <2>2 DEF BeforeTurn, NextIs
<1>9. IInv' /\ Turned(released, sim.line, {}, sim.crew, t, TRUE)
  BY <1>4, <1>5, <1>6, <1>7, <1>8, LateInstant
<1> QED
  BY <1>2, <1>9, Zenon

-----------------------------------------------------------------------------
(* The first instant is to come *)

\* An employee before the run.
NewIs(p, x) ==
  /\ x \in Employee /\ x.state = "OFF" /\ x.shift = 0 /\ x.next = 1 /\ x.last = None /\ x.basis = "none"
  /\ x.gone = FALSE /\ x.since = None
  /\ DOMAIN x.duty = 1 .. Len(p) /\ \A k \in 1 .. Len(p) : x.duty[k] = [start |-> None, release |-> None]
  /\ DOMAIN x.rests = 1 .. Len(p)
  /\ \A k \in 1 .. Len(p) :
       /\ DOMAIN x.rests[k] = DOMAIN p[k].breaks
       /\ \A i \in DOMAIN p[k].breaks : x.rests[k][i] = Row(None, None, None, "none")

\* NewEmployee is such an employee.
LEMMA NewEmployeeIs ==
  ASSUME NEW p, PlanOK(p)
  PROVE  NewIs(p, NewEmployee(p))
<1> DEFINE n == Len(p)
<1>1. Len(p) \in Nat /\ DOMAIN p = 1 .. Len(p)
  BY DEF PlanOK
<1>2. n = Len(p) /\ n \in Nat
  BY <1>1 DEF n
<1> HIDE DEF n
<1>3. PICK duty : duty = [k \in 1 .. n |-> [start |-> None, release |-> None]]
  OBVIOUS
<1>4. PICK row : row = Row(None, None, None, "none")
  OBVIOUS
<1>5. PICK rests : rests = [k \in 1 .. n |-> [i \in DOMAIN p[k].breaks |-> row]]
  OBVIOUS
<1>6. None \in Time /\ row \in BreakRow
  BY <1>4 DEF Time, None, Row, BreakRow
<1>7. duty \in Seq([start : Time, release : Time])
  <2>1. PICK S : S = [start : Time, release : Time]
    OBVIOUS
  <2>2. duty \in [1 .. n -> S]
    BY <1>3, <1>6, <2>1
  <2>3. duty \in Seq(S)
    BY <1>2, <2>2
  <2> QED
    BY <2>1, <2>3
<1>8. rests \in Seq(Seq(BreakRow))
  <2>1. ASSUME NEW k \in 1 .. n PROVE [i \in DOMAIN p[k].breaks |-> row] \in Seq(BreakRow)
    <3>1. PICK m \in Nat : DOMAIN p[k].breaks = 1 .. m
      BY <1>2 DEF PlanOK
    <3>2. [i \in 1 .. m |-> row] \in [1 .. m -> BreakRow]
      BY <1>6
    <3> QED
      BY <3>1, <3>2
  <2>2. PICK S : S = Seq(BreakRow)
    OBVIOUS
  <2>3. rests \in [1 .. n -> S]
    BY <1>5, <2>1, <2>2
  <2> QED
    BY <1>2, <2>2, <2>3
<1>9. PICK x : x = [state |-> "OFF", register |-> 0, wait |-> None, since |-> None, shift |-> 0, next |-> 1,
                    last |-> None, basis |-> "none", reached |-> FALSE, gone |-> FALSE, duty |-> duty, rests |-> rests]
  OBVIOUS
<1>10. x = NewEmployee(p)
  <2>1. row = [due |-> None, start |-> None, finish |-> None, outcome |-> "none"]
    BY <1>4 DEF Row
  <2>2. duty = [k \in DOMAIN p |-> [start |-> None, release |-> None]]
    BY <1>1, <1>2, <1>3, Zenon
  <2>3. rests = [k \in DOMAIN p |-> [i \in DOMAIN p[k].breaks |->
                [due |-> None, start |-> None, finish |-> None, outcome |-> "none"]]]
    BY <1>1, <1>2, <1>5, <2>1, Zenon
  <2> QED
    BY <1>9, <2>2, <2>3, Zenon DEF NewEmployee
<1>11. x \in Employee
  <2>1. "OFF" \in BaseStates
    BY DEF BaseStates
  <2> QED
    BY <1>6, <1>7, <1>8, <1>9, <2>1 DEF Employee
<1>12. /\ x.state = "OFF" /\ x.shift = 0 /\ x.next = 1 /\ x.last = None /\ x.basis = "none" /\ x.gone = FALSE
       /\ x.since = None /\ x.duty = duty /\ x.rests = rests
  BY <1>9
<1>13. DOMAIN duty = 1 .. n /\ \A k \in 1 .. n : duty[k] = [start |-> None, release |-> None]
  BY <1>3
<1>14. DOMAIN rests = 1 .. n /\ \A k \in 1 .. n :
         DOMAIN rests[k] = DOMAIN p[k].breaks /\ \A i \in DOMAIN p[k].breaks : rests[k][i] = row
  BY <1>5
<1>15. NewIs(p, x)
  BY <1>2, <1>4, <1>11, <1>12, <1>13, <1>14 DEF NewIs
<1> QED
  BY <1>10, <1>15

\* Such an employee fits a day that has not begun.
LEMMA NewFits ==
  ASSUME NEW p, PlanOK(p), NEW x, NewIs(p, x), NEW ends
  PROVE  Fit(p, x, -1, ends, 0, 0, 0, 0)
<1>1. /\ Len(p) \in Nat
      /\ \A k \in 1 .. Len(p) : p[k].start \in Nat /\ p[k].end \in Nat /\ p[k].start < p[k].end
  BY DEF PlanOK
<1>2. /\ x \in Employee /\ x.state = "OFF" /\ x.shift = 0 /\ x.next = 1 /\ x.last = None /\ x.basis = "none" /\ ~x.gone
      /\ DOMAIN x.duty = 1 .. Len(p) /\ DOMAIN x.rests = 1 .. Len(p)
  BY DEF NewIs
<1>3. \A k \in 1 .. Len(p) : x.duty[k].start = None /\ x.duty[k].release = None
  BY DEF NewIs
<1>4. \A k \in 1 .. Len(p) : DOMAIN x.rests[k] = DOMAIN p[k].breaks /\ \A i \in DOMAIN x.rests[k] :
        /\ x.rests[k][i] \in BreakRow /\ x.rests[k][i].due = None /\ x.rests[k][i].start = None
        /\ x.rests[k][i].finish = None /\ x.rests[k][i].outcome = "none"
  <2>1. None \in Time
    BY DEF Time
  <2> QED
    BY <2>1 DEF NewIs, Row, BreakRow
<1>5. RestsOK(p, x.duty, x.rests, x.shift, x.next, -1, ends)
  <2>1. x.rests \in Seq(Seq(BreakRow))
    BY <1>2 DEF Employee
  <2>2. \A k \in 1 .. Len(p) : RowsOK(x.rests[k], -1)
    BY <1>4 DEF RowsOK, RowOK
  <2>3. \A k \in 1 .. Len(p) : \A i \in DOMAIN x.rests[k] : BreakRule(x.duty[k].start, p[k], x.rests[k], i, ends)
    BY <1>4 DEF BreakRule
  <2> QED
    BY <1>2, <1>4, <2>1, <2>2, <2>3 DEF RestsOK
<1>6. DutyOK(p, x.duty, x.shift, x.next, x.last, -1)
  <2>1. x.duty \in Seq([start : Time, release : Time])
    BY <1>2 DEF Employee
  <2>2. \A k \in 1 .. Len(p) : StartRule(p, x.duty, k)
    BY <1>3 DEF StartRule
  <2>3. x.last \in Time /\ x.last <= -1
    BY <1>2 DEF Time, None
  <2> QED
    BY <1>1, <1>2, <1>3, <2>1, <2>2, <2>3 DEF DutyOK, None
<1>7. \A k \in 1 .. Len(p) : ReleaseRule(p, x.duty, x.rests, k, ends)
  BY <1>3 DEF ReleaseRule
<1>8. StateOK(p, x, -1)
  BY <1>2, <1>4 DEF StateOK, Underway
<1>9. Sound(p, x, -1, ends)
  BY <1>2, <1>5, <1>6, <1>7, <1>8 DEF Sound, Past
<1>10. Settled(x)
  BY <1>2 DEF Settled
<1>11. DueTimes(p, x) = {}
  BY <1>2 DEF DueTimes, AwaitsBreak, Pending
<1>12. Ahead(p, x, 0, 0, 0, 0)
  <2>1. EndFrom(p, x, 0) /\ BreakFrom(x, 0) /\ DueFrom(p, x, 0)
    BY <1>2, <1>11 DEF EndFrom, BreakFrom, DueFrom
  <2>2. ActivationFrom(p, x, 0)
    BY <1>1, <1>2 DEF ActivationFrom, Activation
  <2> QED
    BY <2>1, <2>2 DEF Ahead
<1> QED
  BY <1>2, <1>9, <1>10, <1>12 DEF Fit

\* The invariant holds before the run.
LEMMA InitIsSound ==
  ASSUME Init
  PROVE  IInv
<1>1. /\ day \in Days /\ clock = [now |-> None, closed |-> FALSE]
      /\ emp = [e \in Employees |-> NewEmployee(day.roster[e])]
  BY Zenon DEF Init
<1>2. sim.line = <<>> /\ sim.come = 0 /\ sim.crew = {}
        /\ sim.customer = [c \in Customers |->
              [by |-> 0, start |-> None, finish |-> None, departed |-> FALSE, unserved |-> "no"]]
  BY DEF Init
<1>3. \A c \in Customers : /\ sim.customer[c].by = 0 /\ ~sim.customer[c].departed /\ sim.customer[c].unserved = "no"
                           /\ sim.customer[c] \in CustomerRow
  BY <1>2 DEF CustomerRow, Time
<1>4. ClockOK
  BY <1>1, NamedDayAssumption DEF ClockOK, Time, None
<1>5. EmployeesOK
  <2> SUFFICES ASSUME NEW e \in Employees
               PROVE  Fit(day.roster[e], emp[e], clock.now, Ended(e), clock.now + 1, clock.now + 1, clock.now + 1, clock.now + 1)
    BY <1>1 DEF EmployeesOK
  <2>1. emp[e] = NewEmployee(day.roster[e])
    BY <1>1, Zenon
  <2>2. PlanOK(day.roster[e])
    BY <1>1, DayIs
  <2>3. NewIs(day.roster[e], emp[e])
    BY <2>1, <2>2, NewEmployeeIs
  <2>4. Fit(day.roster[e], emp[e], -1, Ended(e), 0, 0, 0, 0)
    BY <2>2, <2>3, NewFits
  <2>5. clock.now = -1 /\ clock.now + 1 = 0
    BY <1>1 DEF None
  <2> QED
    BY <2>4, <2>5
<1>6. ServiceOK
  <2>1. \A e \in Employees : emp[e].state \notin Serving
    <3> SUFFICES ASSUME NEW e \in Employees PROVE emp[e].state \notin Serving
      OBVIOUS
    <3>1. PlanOK(day.roster[e])
      BY <1>1, DayIs
    <3>2. NewIs(day.roster[e], NewEmployee(day.roster[e])) /\ emp[e] = NewEmployee(day.roster[e])
      BY <1>1, <3>1, NewEmployeeIs, Zenon
    <3>3. NewIs(day.roster[e], emp[e])
      BY <3>2, Zenon
    <3> QED
      BY <3>3 DEF NewIs, Serving
  <2>2. sim.customer \in [Customers -> CustomerRow]
    BY <1>2, <1>3
  <2>3. \A c \in Customers : ~InService(c)
    BY <1>3 DEF InService
  <2> QED
    BY <2>1, <2>2, <2>3 DEF ServiceOK
<1>7. LineOK
  <2>1. \A c \in Customers : c > 0 /\ day.arrival[c] > clock.now
    <3> SUFFICES ASSUME NEW c \in Customers PROVE c > 0 /\ day.arrival[c] > clock.now
      OBVIOUS
    <3>1. day.arrival \in Arrivals
      BY <1>1, DayIs
    <3>2. c \in Nat /\ c > 0 /\ c <= c
      BY NamedDayAssumption DEF Customers
    <3>3. day.arrival[c] \in Nat
      BY <3>1, <3>2, ArrivalsRise
    <3> QED
      BY <1>1, <3>2, <3>3 DEF None
  <2>2. sim.come \in 0 .. N /\ sim.line \in Seq(1 .. sim.come) /\ InOrder(sim.line)
    BY <1>2, NamedDayAssumption DEF InOrder
  <2> QED
    BY <1>1, <1>2, <1>3, <2>1, <2>2 DEF LineOK
<1> QED
  BY <1>1, <1>4, <1>5, <1>6, <1>7 DEF IInv

-----------------------------------------------------------------------------
(* The rules *)

\* No step breaks the invariant.
LEMMA IInvIsKept ==
  ASSUME IInv, [Next]_vars
  PROVE  IInv'
<1>1. CASE ServeInstant
  BY <1>1, ServeKeeps
<1>2. CASE CloseInstant
  BY <1>2, CloseKeeps
<1>3. CASE DrainInstant
  BY <1>3, DrainKeeps
<1>4. CASE UNCHANGED vars
  <2>1. day' = day /\ clock' = clock /\ emp' = emp /\ sim' = sim
    BY <1>4 DEF vars
  <2>2. ClockOK' /\ EmployeesOK'
    BY <2>1 DEF IInv, ClockOK, EmployeesOK, Ended
  <2>3. ServiceOK' /\ LineOK'
    BY <2>1 DEF IInv, ServiceOK, LineOK, InService
  <2>4. day' \in Days'
    BY <2>1 DEF IInv, Days, Arrivals, Customers
  <2> QED
    BY <2>2, <2>3, <2>4 DEF IInv
<1> QED
  BY <1>1, <1>2, <1>3, <1>4 DEF Next

\* The history of a sound employee keeps the rules of breaks and shifts.
LEMMA SoundKeepsRules ==
  ASSUME NEW p, PlanOK(p), NEW x, NEW t \in Int, NEW ends, Sound(p, x, t, ends), NEW k \in 1 .. Len(p)
  PROVE  /\ \A i \in DOMAIN x.rests[k] :
              /\ BreakRule(x.duty[k].start, p[k], x.rests[k], i, ends)
              /\ x.rests[k][i].outcome = "none" /\ x.rests[k][i].start = None => x.duty[k].release = None
         /\ StartRule(p, x.duty, k) /\ ReleaseRule(p, x.duty, x.rests, k, ends)
         /\ DOMAIN x.rests = 1 .. Len(p) /\ DOMAIN x.duty = 1 .. Len(p)
<1>1. /\ RestsOK(p, x.duty, x.rests, x.shift, x.next, t, ends) /\ DutyOK(p, x.duty, x.shift, x.next, x.last, t)
      /\ ReleaseRule(p, x.duty, x.rests, k, ends)
  BY DEF Sound, Past
<1>2. Len(p) \in Nat /\ x.next \in Int /\ k \in Int
  BY <1>1 DEF PlanOK, DutyOK
<1>3. ASSUME NEW i \in DOMAIN x.rests[k], x.rests[k][i].outcome = "none", x.rests[k][i].start = None
      PROVE  x.duty[k].release = None
  <2>1. ~(k < x.next /\ k # x.shift)
    BY <1>1, <1>3 DEF RestsOK, Unstarted
  <2>2. CASE k = x.shift
    BY <1>1, <2>2 DEF DutyOK
  <2>3. CASE k >= x.next
    BY <1>1, <2>3 DEF DutyOK
  <2> QED
    BY <1>2, <2>1, <2>2, <2>3
<1> QED
  BY <1>1, <1>3 DEF RestsOK, DutyOK

\* The invariant implies the rules.
LEMMA RulesFollow ==
  ASSUME IInv
  PROVE  RulesAreKept
<1>1. ASSUME NEW e \in Employees
      PROVE  PlanOK(day.roster[e]) /\ Sound(day.roster[e], emp[e], clock.now, Ended(e)) /\ clock.now \in Int
  BY DayIs DEF IInv, EmployeesOK, ClockOK, Time, None, Late, Fit
<1>2. BreaksKeepTheirRules
  <2> SUFFICES ASSUME NEW e \in Employees, NEW k \in DOMAIN emp[e].rests, NEW i \in DOMAIN emp[e].rests[k]
               PROVE  LET row == emp[e].rests[k][i]
                          plan == day.roster[e][k]
                          planned == emp[e].duty[k].start + plan.breaks[i] - plan.start
                      IN /\ row.due # None =>
                              row.due = IF i = 1 THEN planned ELSE Larger(planned, emp[e].rests[k][i - 1].finish + Gap)
                         /\ row.start # None =>
                              /\ row.start < Closing
                              /\ row.start = row.due \/ (row.start > row.due /\ row.start \in Ended(e))
                              /\ row.outcome = "completed" => row.finish = row.start + BreakLength
                              /\ row.outcome = "truncated_by_closing" =>
                                   row.finish = Closing /\ Closing <= row.start + BreakLength
                         /\ row.outcome = "none" /\ row.start = None => emp[e].duty[k].release = None
    BY DEF BreaksKeepTheirRules
  <2>1. k \in 1 .. Len(day.roster[e])
    BY <1>1 DEF Sound, Past, RestsOK
  <2>2. /\ BreakRule(emp[e].duty[k].start, day.roster[e][k], emp[e].rests[k], i, Ended(e))
        /\ emp[e].rests[k][i].outcome = "none" /\ emp[e].rests[k][i].start = None => emp[e].duty[k].release = None
    BY <1>1, <2>1, SoundKeepsRules
  <2> QED
    BY <2>2 DEF BreakRule, DueRule
<1>3. ShiftsKeepTheirRules
  <2> SUFFICES ASSUME NEW e \in Employees, NEW k \in DOMAIN emp[e].duty
               PROVE  LET d == emp[e].duty[k]
                          plan == day.roster[e][k]
                          earlier == {emp[e].duty[j].release : j \in {i \in 1 .. k - 1 : emp[e].duty[i].start # None}}
                      IN /\ d.start # None =>
                              /\ d.start < plan.end /\ d.start < Closing
                              /\ d.start = plan.start \/ \E last \in earlier : d.start = last + RestBetween
                              /\ \A last \in earlier : last # None /\ d.start >= last + RestBetween
                         /\ d.release # None =>
                              \/ d.release = plan.end
                              \/ d.release >= Closing
                              \/ d.release > plan.end /\
                                   (d.release \in Ended(e) \/ \E i \in DOMAIN emp[e].rests[k] : emp[e].rests[k][i].finish = d.release)
    BY DEF ShiftsKeepTheirRules
  <2>1. k \in 1 .. Len(day.roster[e])
    BY <1>1 DEF Sound, Past, DutyOK
  <2>2. StartRule(day.roster[e], emp[e].duty, k) /\ ReleaseRule(day.roster[e], emp[e].duty, emp[e].rests, k, Ended(e))
    BY <1>1, <2>1, SoundKeepsRules
  <2> QED
    BY <2>2 DEF StartRule, ReleaseRule
<1> QED
  BY <1>2, <1>3 DEF RulesAreKept

\* Over every run of the named day, whatever delays it brings, breaks and shifts keep the approved rules: a
\* break is due at its offset from the start the shift really had, a shift starts a rest after the last.
THEOREM RulesAreAlwaysKept == Spec => []RulesAreKept
<1>1. Init => IInv
  BY InitIsSound
<1>2. IInv /\ [Next]_vars => IInv'
  BY IInvIsKept
<1>3. IInv => RulesAreKept
  BY RulesFollow
<1> QED
  BY <1>1, <1>2, <1>3, PTL DEF Spec

-----------------------------------------------------------------------------
(* The promise of a line *)

\* The promise speaks of the same ranges.
LEMMA SameRange == \A f : Promise!Range(f) = Range(f)
  BY DEF Promise!Range, Range

\* The promise counts customers as the engine does.
LEMMA SameCount == \A S : Promise!Cardinality(S) = Cardinality(S)
  BY DEF Promise!Cardinality, Cardinality

\* A turn moves the line as the promise allows: those whose service ends leave, the first begin.
LEMMA TurnMovesLine ==
  ASSUME IInv, NEW d, NEW line, NEW sentAway, NEW crew, NEW t, NEW closed, Turned(d, line, sentAway, crew, t, closed),
         NEW queue, QueueAt(queue, line, t)
  PROVE  /\ Departing(t) \in SUBSET BeingServed
         /\ \E n \in 0 .. Len(queue) : Promise!Moved(queue, n, Departing(t))
         /\ SentHome' = SentHome \cup {c \in Customers : c \in sentAway}
         /\ sim'.come = sim.come + Len(Coming(t)) /\ clock'.closed = closed
<1>0. PICK ready, q, work : TurnAt(d, line, sentAway, crew, t, closed, ready, q, work)
  BY Zenon DEF Turned
<1>1. q = queue
  BY <1>0, Zenon DEF TurnAt, QueueAt
<1>2. TurnAt(d, line, sentAway, crew, t, closed, ready, queue, work)
  BY <1>0, <1>1, Zenon
<1>3. /\ BeforeTurn(d, line, sentAway, crew, t, closed) /\ Turn(ready, queue, sentAway, crew, t, closed, work)
      /\ \A e \in Employees : ready[e] \in Employee
  BY <1>2 DEF TurnAt
<1>4. t \in Nat /\ sim.customer \in [Customers -> CustomerRow] /\ day \in Days /\ ClockOK /\ LineOK /\ ServiceOK
  BY <1>3 DEF BeforeTurn, ServiceOK, IInv
<1>5. queue \in Seq(Customers) /\ InOrder(queue)
  BY <1>3, <1>4, QueueAfter
<1>6. PICK m : m = Cardinality(Taking(ready, queue))
  OBVIOUS
<1>7. PICK taken : taken = Taken(ready, queue)
  OBVIOUS
<1>8. /\ m \in 0 .. Len(queue) /\ \A k \in 1 .. m : queue[k] \in taken
      /\ \A c \in taken : \E k \in 1 .. m : c = queue[k]
  BY <1>3, <1>5, <1>6, <1>7, TakenAre
<1>9. Range(SubSeq(queue, 1, m)) = taken
  <2>1. PICK s : s = SubSeq(queue, 1, m)
    OBVIOUS
  <2>2. Len(s) = m /\ DOMAIN s = 1 .. m /\ \A k \in 1 .. m : s[k] = queue[k]
    BY <1>5, <1>8, <2>1
  <2>3. Range(s) = {queue[k] : k \in 1 .. m}
    BY <2>2 DEF Range
  <2> QED
    BY <1>8, <2>1, <2>3
<1>10. ASSUME NEW c \in taken
       PROVE  /\ c \in Customers /\ c \notin sentAway /\ c \notin Departing(t)
              /\ sim.customer[c].by = 0 /\ ~sim.customer[c].departed
              /\ sim'.customer[c].by # 0 /\ ~sim'.customer[c].departed
              /\ sim.customer[c].unserved = "no" /\ sim'.customer[c].unserved = "no"
  <2>1. /\ c \in Customers /\ c \notin sentAway /\ c \notin Departing(t)
        /\ sim.customer[c].by = 0 /\ ~sim.customer[c].departed /\ c \in Range(queue)
    BY <1>2, <1>4, <1>7, TakenWereWaiting
  <2>2. PICK e : e = Taker(ready, queue, c)
    OBVIOUS
  <2>3. e \in Taking(ready, queue)
    BY <1>3, <1>5, <1>7, <2>2, TakenAre
  <2>4. e # 0
    BY <2>3, WorkforceAssumption DEF Taking, Available
  <2>5. Joined(sim'.customer[c], e, t, work[e])
    BY <1>3, <1>4, <1>7, <2>1, <2>2, CustomerIs
  <2>6. sim.customer[c].unserved = "no"
    <3>1. c \in Range(line) \/ c > sim.come
      <4>1. PICK come \in sim.come .. N :
              \A b \in Customers : b \in Range(queue) <=> (b \in Range(line) \/ b \in sim.come + 1 .. come)
        BY <1>3, <1>4, QueueAfter
      <4> QED
        BY <1>4, <2>1, <4>1 DEF LineOK
    <3>2. c \in Range(sim.line) \/ c > sim.come
      BY <1>3, <2>1, <3>1 DEF BeforeTurn
    <3> QED
      BY <1>4, <2>1, <3>2 DEF LineOK
  <2> QED
    BY <2>1, <2>4, <2>5, <2>6 DEF Joined
<1>11. ASSUME NEW c \in Customers, c \notin taken
       PROVE  StaysOrLeaves(sim.customer[c], sim'.customer[c], c \in Departing(t), c \in sentAway)
  BY <1>3, <1>4, <1>7, <1>11, CustomerIs
<1>12. \A c \in Departing(t) : c \in Customers /\ InService(c)
  BY DEF Departing
<1>13. BeingServed' = (BeingServed \ Departing(t)) \cup taken
  <2>1. ASSUME NEW c \in Customers
        PROVE  InService(c)' <=> ((InService(c) /\ c \notin Departing(t)) \/ c \in taken)
    <3>1. CASE c \in taken
      BY <1>10, <3>1 DEF InService
    <3>2. CASE c \notin taken
      BY <1>11, <1>12, <3>2 DEF InService, StaysOrLeaves
    <3> QED
      BY <3>1, <3>2
  <2> QED
    BY <1>10, <2>1 DEF BeingServed
<1>14. Departed' = Departed \cup Departing(t)
  <2>1. ASSUME NEW c \in Customers
        PROVE  sim'.customer[c].departed <=> (sim.customer[c].departed \/ c \in Departing(t))
    <3>1. CASE c \in taken
      BY <1>10, <3>1
    <3>2. CASE c \notin taken
      BY <1>11, <3>2 DEF StaysOrLeaves
    <3> QED
      BY <3>1, <3>2
  <2> QED
    BY <1>12, <2>1 DEF Departed
<1>15. SentHome' = SentHome \cup {c \in Customers : c \in sentAway}
  <2>1. ASSUME NEW c \in Customers
        PROVE  sim'.customer[c].unserved # "no" <=> (sim.customer[c].unserved # "no" \/ c \in sentAway)
    <3>1. CASE c \in taken
      BY <1>10, <3>1
    <3>2. CASE c \notin taken
      <4>1. c \in sentAway => c \notin Departing(t)
        <5>1. c \in sentAway => sim.customer[c].by = 0
          BY <1>3, <1>4 DEF BeforeTurn, LineOK
        <5> QED
          BY <1>12, <5>1 DEF InService
      <4> QED
        BY <1>11, <3>2, <4>1 DEF StaysOrLeaves
    <3> QED
      BY <3>1, <3>2
  <2> QED
    BY <2>1 DEF SentHome
<1>16. sim'.line = SubSeq(queue, m + 1, Len(queue)) /\ sim'.come = sim.come + Len(Coming(t)) /\ clock'.closed = closed
  BY <1>3, <1>6 DEF Turn
<1>17. Promise!Moved(queue, m, Departing(t))
  BY <1>9, <1>13, <1>14, <1>16, SameRange DEF Promise!Moved
<1>18. Departing(t) \in SUBSET BeingServed
  BY <1>12 DEF BeingServed
<1> QED
  BY <1>8, <1>15, <1>16, <1>17, <1>18

\* Who comes at an instant are the next customers.
LEMMA ComingIs ==
  ASSUME IInv, NEW d, NEW line, NEW sentAway, NEW crew, NEW t, NEW closed, Turned(d, line, sentAway, crew, t, closed)
  PROVE  \E n \in 0 .. N - sim.come :
           /\ Coming(t) = [k \in 1 .. n |-> sim.come + k] /\ Len(Coming(t)) = n /\ Coming(t) \in Seq(Nat)
           /\ sim.come \in 0 .. N /\ N \in Nat /\ sim'.come = sim.come + n /\ (closed => n = 0)
<1>0. PICK ready, q, work : TurnAt(d, line, sentAway, crew, t, closed, ready, q, work)
  BY Zenon DEF Turned
<1>1. BeforeTurn(d, line, sentAway, crew, t, closed) /\ Turn(ready, q, sentAway, crew, t, closed, work)
  BY <1>0 DEF TurnAt
<1>2. /\ sim.come \in 0 .. N /\ N \in Nat /\ t \in Nat /\ day.arrival \in Arrivals
      /\ (sim.come < N => t <= day.arrival[sim.come + 1]) /\ (closed => sim.come = N)
  BY <1>1, DayIs, NamedDayAssumption DEF BeforeTurn, IInv, LineOK
<1>3. PICK come \in 0 .. N : come = sim.come
  BY <1>2
<1>4. Cardinality(Arriving(t)) \in 0 .. N - come
  BY <1>2, <1>3, ArrivingAre
<1>5. PICK n \in 0 .. N - come : n = Cardinality(Arriving(t))
  BY <1>4
<1>6. PICK new : new = [k \in 1 .. n |-> come + k]
  OBVIOUS
<1>7. Coming(t) = new
  BY <1>3, <1>5, <1>6 DEF Coming
<1>8. new \in Seq(Nat) /\ Len(new) = n
  <2>1. n \in Nat /\ come \in Nat
    BY <1>2, <1>3, <1>5
  <2>2. new \in [1 .. n -> Nat]
    BY <1>6, <2>1
  <2> QED
    BY <1>6, <2>1, <2>2
<1>9. sim'.come = sim.come + Len(Coming(t))
  BY <1>1 DEF Turn
<1>10. closed => n = 0
  BY <1>2, <1>3, <1>5
<1> QED
  BY <1>2, <1>3, <1>5, <1>6, <1>7, <1>8, <1>9, <1>10

\* An instant that brings nobody, and at which nobody is sent away, serves the line.
LEMMA TurnServes ==
  ASSUME IInv, NEW d, NEW crew, NEW t, Turned(d, sim.line, {}, crew, t, clock.closed), Len(Coming(t)) = 0
  PROVE  Promise!Serve
<1>1. /\ Coming(t) = [k \in 1 .. 0 |-> sim.come + k] /\ sim'.come = sim.come /\ sim.come \in Nat
  BY ComingIs
<1>2. sim.line \in Seq(1 .. sim.come)
  BY DEF IInv, LineOK
<1>3. QueueAt(sim.line, sim.line, t)
  <2>1. Coming(t) = <<>>
    BY <1>1
  <2>2. sim.line \o <<>> = sim.line
    BY <1>2
  <2> QED
    BY <2>1, <2>2, Zenon DEF QueueAt
<1>4. /\ Departing(t) \in SUBSET BeingServed
      /\ \E n \in 0 .. Len(sim.line) : Promise!Moved(sim.line, n, Departing(t))
      /\ SentHome' = SentHome \cup {c \in Customers : c \in {}} /\ clock'.closed = clock.closed
  BY <1>3, TurnMovesLine
<1>5. SentHome' = SentHome /\ StillToCome' = StillToCome
  BY <1>1, <1>4 DEF StillToCome
<1> QED
  BY <1>4, <1>5 DEF Promise!Serve

\* An instant that brings customers is their coming.
LEMMA TurnBrings ==
  ASSUME IInv, NEW d, NEW crew, NEW t, Turned(d, sim.line, {}, crew, t, clock.closed), ~clock.closed, Len(Coming(t)) # 0
  PROVE  \E k \in 1 .. Cardinality(Customers) : Promise!Come(k)
<1>1. PICK n \in 0 .. N - sim.come :
        /\ Coming(t) = [k \in 1 .. n |-> sim.come + k] /\ Len(Coming(t)) = n /\ Coming(t) \in Seq(Nat)
        /\ sim.come \in 0 .. N /\ N \in Nat /\ sim'.come = sim.come + n
  BY ComingIs
<1>2. PICK come \in 0 .. N : come = sim.come
  BY <1>1
<1>3. n \in Nat /\ n >= 1 /\ come \in Nat /\ N \in Nat /\ come + n <= N
  <2>1. come \in Nat /\ N \in Nat /\ come <= N
    BY <1>1
  <2>2. n \in 0 .. N - come /\ n # 0
    BY <1>1, <1>2
  <2>3. PICK k \in Int : k = N - come
    BY <2>1
  <2>4. n \in 0 .. k
    BY <2>2, <2>3
  <2> QED
    BY <2>1, <2>2, <2>3, <2>4
<1>4. PICK next : next = Coming(t)
  OBVIOUS
<1>5. next = [k \in 1 .. n |-> come + k]
  BY <1>1, <1>2, <1>4
<1>6. PICK queue : queue = sim.line \o next
  OBVIOUS
<1>7. QueueAt(queue, sim.line, t)
  BY <1>4, <1>6, Zenon DEF QueueAt
<1>8. Len(queue) = Len(sim.line) + n
  <2>1. sim.line \in Seq(1 .. come) /\ InOrder(sim.line) /\ come \in Nat /\ n \in Nat
    BY <1>1, <1>2 DEF IInv, LineOK
  <2> QED
    BY <1>5, <1>6, <2>1, QueueIs
<1>9. /\ Departing(t) \in SUBSET BeingServed
      /\ \E m \in 0 .. Len(queue) : Promise!Moved(queue, m, Departing(t))
      /\ SentHome' = SentHome \cup {c \in Customers : c \in {}} /\ clock'.closed = clock.closed
  BY <1>7, TurnMovesLine
<1>10. \E m \in 0 .. Len(sim.line) + n : Promise!Moved(sim.line \o next, m, Departing(t))
  BY <1>6, <1>8, <1>9
<1>11. SentHome' = SentHome /\ clock'.closed = clock.closed
  BY <1>9
<1>12. Range(next) = come + 1 .. come + n
  <2>1. DOMAIN next = 1 .. n /\ \A k \in 1 .. n : next[k] = come + k
    BY <1>5
  <2>2. Range(next) = {come + k : k \in 1 .. n}
    BY <2>1 DEF Range
  <2>3. ASSUME NEW c \in come + 1 .. come + n PROVE c \in {come + k : k \in 1 .. n}
    <3>1. c - come \in 1 .. n /\ come + (c - come) = c
      BY <1>3
    <3> QED
      BY <3>1
  <2>4. ASSUME NEW c \in {come + k : k \in 1 .. n} PROVE c \in come + 1 .. come + n
    BY <1>3
  <2> QED
    BY <2>2, <2>3, <2>4
<1>13. Customers = 1 .. N /\ N \in Nat
  BY <1>1 DEF Customers
<1>14. next \in [1 .. n -> StillToCome]
  <2>1. ASSUME NEW k \in 1 .. n PROVE come + k \in StillToCome
    <3>1. come + k \in Customers /\ come + k > come
      BY <1>3, <1>13
    <3> QED
      BY <1>2, <3>1 DEF StillToCome
  <2> QED
    BY <1>5, <2>1
<1>15. \A i, j \in 1 .. n : i < j => next[i] < next[j]
  BY <1>2, <1>3, <1>5
<1>16. \A c \in StillToCome \ (come + 1 .. come + n) : \A i \in 1 .. n : next[i] < c
  <2> SUFFICES ASSUME NEW c \in StillToCome, c \notin come + 1 .. come + n, NEW i \in 1 .. n PROVE next[i] < c
    OBVIOUS
  <2>1. c \in Nat /\ c > come
    BY <1>2, <1>13 DEF StillToCome
  <2>2. c > come + n
    BY <1>2, <1>3, <2>1
  <2>3. next[i] = come + i
    BY <1>5
  <2> QED
    BY <1>3, <2>1, <2>2, <2>3
<1>17. StillToCome' = StillToCome \ (come + 1 .. come + n)
  <2>1. \A c \in Customers : c > come + n <=> (c > come /\ c \notin come + 1 .. come + n)
    BY <1>2, <1>3, <1>13
  <2> QED
    BY <1>1, <1>2, <2>1 DEF StillToCome
<1>18. PICK R : R = Range(next) /\ R = Promise!Range(next) /\ R = come + 1 .. come + n
  BY <1>12, SameRange
<1>19. /\ \E nx \in [1 .. n -> StillToCome] :
            /\ \A i, j \in 1 .. n : i < j => nx[i] < nx[j]
            /\ \A c \in StillToCome \ Promise!Range(nx) : \A i \in 1 .. n : nx[i] < c
            /\ StillToCome' = StillToCome \ Promise!Range(nx)
            /\ \E done \in SUBSET BeingServed, m \in 0 .. Len(sim.line) + n : Promise!Moved(sim.line \o nx, m, done)
  <2>1. \A c \in StillToCome \ Promise!Range(next) : \A i \in 1 .. n : next[i] < c
    BY <1>16, <1>18
  <2>2. StillToCome' = StillToCome \ Promise!Range(next)
    BY <1>17, <1>18
  <2>3. \E done \in SUBSET BeingServed, m \in 0 .. Len(sim.line) + n : Promise!Moved(sim.line \o next, m, done)
    BY <1>9, <1>10
  <2> QED
    BY <1>14, <1>15, <2>1, <2>2, <2>3
<1>20. Promise!Come(n)
  BY <1>11, <1>19 DEF Promise!Come
<1>21. n \in 1 .. Cardinality(Customers)
  <2>1. Cardinality(Customers) = N
    <3>1. 1 \in Int /\ N \in Int
      BY <1>13
    <3>2. Cardinality(1 .. N) = IF 1 > N THEN 0 ELSE N - 1 + 1
      BY <3>1, FS_Interval
    <3> QED
      BY <1>13, <3>2
  <2> QED
    BY <1>2, <1>3, <1>13, <2>1
<1> QED
  BY <1>20, <1>21

\* An instant before closing is a step of the line.
LEMMA ServeIsPromised ==
  ASSUME IInv, ServeInstant
  PROVE  Promise!Next
<1>1. ~clock.closed /\ \E d, t : Turned(d, sim.line, {}, {}, t, FALSE)
  BY ServeKeeps
<1>2. clock.closed = FALSE
  BY <1>1 DEF IInv, ClockOK
<1>3. PICK d, t : Turned(d, sim.line, {}, {}, t, FALSE)
  BY <1>1, Zenon
<1>4. Turned(d, sim.line, {}, {}, t, clock.closed)
  BY <1>2, <1>3, Zenon
<1>5. CASE Len(Coming(t)) = 0
  <2>1. Promise!Serve
    BY <1>4, <1>5, TurnServes
  <2> QED
    BY <2>1, Zenon DEF Promise!Next
<1>6. CASE Len(Coming(t)) # 0
  <2>1. PICK k \in 1 .. Cardinality(Customers) : Promise!Come(k)
    BY <1>1, <1>4, <1>6, TurnBrings
  <2>2. 1 .. Cardinality(Customers) = 1 .. Promise!Cardinality(Customers)
    BY SameCount, Zenon
  <2> QED
    BY <2>1, <2>2, Zenon DEF Promise!Next
<1> QED
  BY <1>5, <1>6

\* An instant after closing serves the line.
LEMMA DrainIsPromised ==
  ASSUME IInv, DrainInstant
  PROVE  Promise!Next
<1>1. clock.closed /\ \E t, released : Turned(released, sim.line, {}, sim.crew, t, TRUE)
  BY DrainKeeps, Zenon
<1>2. clock.closed = TRUE
  BY <1>1 DEF IInv, ClockOK
<1>3. PICK t, released : Turned(released, sim.line, {}, sim.crew, t, TRUE)
  BY <1>1, Zenon
<1>4. Turned(released, sim.line, {}, sim.crew, t, clock.closed)
  BY <1>2, <1>3, Zenon
<1>5. Len(Coming(t)) = 0
  <2>1. PICK closed \in BOOLEAN : closed = TRUE
    OBVIOUS
  <2>2. Turned(released, sim.line, {}, sim.crew, t, closed)
    BY <1>3, <2>1, Zenon
  <2>3. PICK n \in 0 .. N - sim.come : Len(Coming(t)) = n /\ (closed => n = 0)
    BY <2>2, ComingIs
  <2> QED
    BY <2>1, <2>3
<1>6. Promise!Serve
  BY <1>4, <1>5, TurnServes
<1> QED
  BY <1>6, Zenon DEF Promise!Next

\* Nobody serves whom no crew is there for.
LEMMA NobodyTakesThemHome ==
  ASSUME IInv, NEW d, NEW t, NEW closed, Turned(d, <<>>, Range(sim.line), {}, t, closed), Len(Coming(t)) = 0
  PROVE  /\ BeingServed' = BeingServed \ Departing(t) /\ Departed' = Departed \cup Departing(t)
         /\ sim'.line = <<>>
<1>1. QueueAt(<<>>, <<>>, t)
  <2>1. Coming(t) = [k \in 1 .. 0 |-> sim.come + k]
    BY ComingIs
  <2>2. Coming(t) = <<>>
    BY <2>1
  <2>3. <<>> \o <<>> = <<>>
    OBVIOUS
  <2> QED
    BY <2>2, <2>3, Zenon DEF QueueAt
<1>2. PICK m \in 0 .. Len(<<>>) : Promise!Moved(<<>>, m, Departing(t))
  BY <1>1, TurnMovesLine
<1>3. m = 0
  BY <1>2
<1>4. SubSeq(<<>>, 1, 0) = <<>> /\ SubSeq(<<>>, 1, Len(<<>>)) = <<>> /\ Range(<<>>) = {} /\ 0 + 1 = 1
  BY DEF Range
<1>5. Promise!Moved(<<>>, 0, Departing(t))
  BY <1>2, <1>3
<1>6. /\ BeingServed' = (BeingServed \ Departing(t)) \cup Promise!Range(SubSeq(<<>>, 1, 0))
      /\ Departed' = Departed \cup Departing(t) /\ sim'.line = SubSeq(<<>>, 0 + 1, Len(<<>>))
  BY <1>5, Zenon DEF Promise!Moved
<1> QED
  BY <1>4, <1>6, SameRange

\* Closing closes the line: everybody goes on waiting, or everybody is sent away.
LEMMA CloseIsPromised ==
  ASSUME IInv, CloseInstant
  PROVE  Promise!Close
<1>1. PICK crew, line, sent, told, released :
        ClosesWith(crew, line, sent, told, released) /\ Turned(released, line, sent, crew, Closing, TRUE)
  BY CloseKeeps, Zenon
<1>2. PICK closed \in BOOLEAN : closed = TRUE
  OBVIOUS
<1>3. Turned(released, line, sent, crew, Closing, closed)
  BY <1>1, <1>2, Zenon
<1>4. PICK n \in 0 .. N - sim.come :
        /\ Coming(Closing) = [k \in 1 .. n |-> sim.come + k] /\ Len(Coming(Closing)) = n
        /\ sim.come \in 0 .. N /\ N \in Nat /\ sim'.come = sim.come + n /\ (closed => n = 0)
  BY <1>3, ComingIs
<1>5. n = 0 /\ ~clock.closed /\ Len(Coming(Closing)) = 0
  BY <1>1, <1>2, <1>4, Zenon DEF ClosesWith
<1>6. StillToCome = {} /\ StillToCome' = {}
  <2>1. NextIs(Closing) /\ Closing >= Closing
    BY <1>1, SoonestIs, NamedDayAssumption DEF ClosesWith
  <2>2. sim.come = N /\ sim'.come = N
    BY <1>4, <1>5, <2>1, AllHaveCome
  <2> QED
    BY <1>4, <2>2 DEF StillToCome, Customers
<1>7. /\ sent = (IF crew = {} THEN Range(sim.line) ELSE {}) /\ line = (IF crew = {} THEN <<>> ELSE sim.line)
  BY <1>1, Zenon DEF ClosesWith
<1>8. PICK queue : QueueAt(queue, line, Closing)
  BY DEF QueueAt
<1>9. /\ Departing(Closing) \in SUBSET BeingServed
      /\ SentHome' = SentHome \cup {c \in Customers : c \in sent} /\ clock'.closed = closed
      /\ \E m \in 0 .. Len(queue) : Promise!Moved(queue, m, Departing(Closing))
  BY <1>3, <1>8, TurnMovesLine
<1>10. CASE crew = {}
  <2>1. sent = Range(sim.line) /\ line = <<>>
    BY <1>7, <1>10
  <2>2. Turned(released, <<>>, Range(sim.line), {}, Closing, closed)
    BY <1>3, <1>10, <2>1, Zenon
  <2>3. /\ BeingServed' = BeingServed \ Departing(Closing) /\ Departed' = Departed \cup Departing(Closing)
        /\ sim'.line = <<>>
    BY <1>5, <2>2, NobodyTakesThemHome
  <2>4. SentHome' = SentHome \cup Range(sim.line)
    <3>1. Range(sim.line) \subseteq Customers
      <4>1. PICK S : S = 1 .. sim.come
        OBVIOUS
      <4>2. S \subseteq Customers /\ sim.line \in Seq(S)
        BY <1>4, <4>1 DEF IInv, LineOK, Customers
      <4>3. \A i \in DOMAIN sim.line : sim.line[i] \in S
        BY <4>2, ElementOfSeq
      <4> QED
        BY <4>2, <4>3 DEF Range
    <3> QED
      BY <1>9, <2>1, <3>1
  <2>5. SentHome' = SentHome \cup Promise!Range(sim.line)
    BY <2>4, SameRange
  <2> QED
    BY <1>2, <1>5, <1>6, <1>9, <2>3, <2>5 DEF Promise!Close
<1>11. CASE crew # {}
  <2>1. sent = {} /\ line = sim.line
    BY <1>7, <1>11
  <2>2. queue = sim.line
    <3>1. Coming(Closing) = <<>>
      BY <1>4, <1>5
    <3>2. sim.line \o <<>> = sim.line
      BY DEF IInv, LineOK
    <3>3. queue = line \o Coming(Closing)
      BY <1>8, Zenon DEF QueueAt
    <3> QED
      BY <2>1, <3>1, <3>2, <3>3, Zenon
  <2>3. \E m \in 0 .. Len(sim.line) : Promise!Moved(sim.line, m, Departing(Closing))
    BY <1>9, <2>2, Zenon
  <2>4. SentHome' = SentHome
    BY <1>9, <2>1
  <2> QED
    BY <1>2, <1>5, <1>6, <1>9, <2>3, <2>4 DEF Promise!Close
<1> QED
  BY <1>10, <1>11

\* Every step of the engine is a step of the line, or none.
LEMMA StepsKeepThePromise ==
  ASSUME IInv, [Next]_vars
  PROVE  [Promise!Next]_Promise!vars
<1>1. CASE ServeInstant
  BY <1>1, ServeIsPromised
<1>2. CASE CloseInstant
  BY <1>2, CloseIsPromised DEF Promise!Next
<1>3. CASE DrainInstant
  BY <1>3, DrainIsPromised
<1>4. CASE UNCHANGED vars
  <2>1. /\ StillToCome' = StillToCome /\ sim'.line = sim.line /\ BeingServed' = BeingServed
        /\ Departed' = Departed /\ SentHome' = SentHome /\ clock'.closed = clock.closed
    BY <1>4 DEF vars, StillToCome, BeingServed, InService, Departed, SentHome
  <2> QED
    BY <2>1 DEF Promise!vars
<1> QED
  BY <1>1, <1>2, <1>3, <1>4 DEF Next

\* Whatever delays, breaks and handovers a day brings, named employees serve customers in the order they
\* came, nobody is lost or counted twice, and only those in line at closing stay unserved, all or none:
\* the engine implements ServiceLine.
THEOREM TheNamedDayKeepsThePromise == Spec => KeepsThePromise
<1>1. Init => Promise!Init
  <2> SUFFICES ASSUME Init PROVE Promise!Init
    OBVIOUS
  <2>1. /\ sim.line = <<>> /\ sim.come = 0 /\ clock.closed = FALSE
        /\ \A c \in Customers :
             sim.customer[c].by = 0 /\ ~sim.customer[c].departed /\ sim.customer[c].unserved = "no"
    BY DEF Init
  <2>2. StillToCome = Customers /\ BeingServed = {} /\ Departed = {} /\ SentHome = {}
    BY <2>1 DEF StillToCome, BeingServed, InService, Departed, SentHome, Customers
  <2> QED
    BY <2>1, <2>2 DEF Promise!Init
<1>2. Init => IInv
  BY InitIsSound
<1>3. IInv /\ [Next]_vars => IInv'
  BY IInvIsKept
<1>4. IInv /\ [Next]_vars => [Promise!Next]_Promise!vars
  BY StepsKeepThePromise
<1> QED
  BY <1>1, <1>2, <1>3, <1>4, PTL DEF Spec, KeepsThePromise, Promise!Spec

-----------------------------------------------------------------------------
(* The end of the run *)

\* Before closing nobody is free since a time to come.  After it whoever is not released serves, and is of
\* the crew; and while customers stand in the line somebody is not released.
CrewOK ==
  /\ sim.crew \subseteq Employees
  /\ ~clock.closed => \A e \in Employees : emp[e].since <= clock.now
  /\ clock.closed => \A e \in Employees : ~emp[e].gone => emp[e].state = "SERVING" /\ e \in sim.crew
  /\ clock.closed /\ sim.line # <<>> => \E e \in Employees : ~emp[e].gone

\* Of some employees one is before all the others.
LEMMA SomebodyIsFirst ==
  ASSUME \A e \in Employees : emp[e] \in Employee, NEW S, S \subseteq Employees, S # {}
  PROVE  \E e \in S : \A d \in S : ~Before(emp, d, e)
<1>1. \A e \in Employees : emp[e].since \in Time /\ emp[e].since + 1 \in Nat /\ e \in Nat
  BY WorkforceAssumption DEF Employee, Time, None
<1>2. PICK T : T = {emp[e].since + 1 : e \in S}
  OBVIOUS
<1>3. T \subseteq Nat /\ T # {}
  BY <1>1, <1>2
<1>4. PICK a : a = Least(T)
  OBVIOUS
<1>5. a \in T /\ \A b \in T : a <= b
  BY <1>3, <1>4, LeastIs
<1>6. PICK earliest : earliest = {e \in S : emp[e].since + 1 = a}
  OBVIOUS
<1>7. earliest \subseteq Nat /\ earliest # {}
  BY <1>1, <1>2, <1>5, <1>6
<1>8. PICK e : e = Least(earliest)
  OBVIOUS
<1>9. e \in earliest /\ \A d \in earliest : e <= d
  BY <1>7, <1>8, LeastIs
<1>10. e \in S /\ emp[e].since + 1 = a
  BY <1>6, <1>9
<1>11. ASSUME NEW d \in S PROVE ~Before(emp, d, e)
  <2>1. a <= emp[d].since + 1
    BY <1>2, <1>5
  <2>2. emp[d].since = emp[e].since => d \in earliest
    BY <1>6, <1>10
  <2>3. emp[d].since \in Int /\ emp[e].since \in Int /\ d \in Nat /\ e \in Nat
    BY <1>1, <1>10 DEF Time, None
  <2> QED
    BY <1>9, <1>10, <2>1, <2>2, <2>3 DEF Before
<1> QED
  BY <1>10, <1>11

\* While customers wait somebody of those still there stays.
LEMMA SomebodyStays ==
  ASSUME \A e \in Employees : emp[e] \in Employee, NEW crew, crew \subseteq Employees, NEW waiting \in Nat, waiting > 0,
         NEW t, NEW w \in crew, emp[w].state \in {"AVAILABLE", "SERVING"}
  PROVE  \E e \in crew : emp[e].state \in {"AVAILABLE", "SERVING"} /\ e \notin DoneForToday(crew, waiting, t)
<1>1. PICK idle : idle = Available(emp) \cap crew
  OBVIOUS
<1>2. PICK done : done = {e \in Finishing(t) \cap crew : emp[e].state = "SERVING"}
  OBVIOUS
<1>3. PICK leaving : leaving = DoneForToday(crew, waiting, t)
  OBVIOUS
<1>4. leaving = {e \in idle : Cardinality({d \in idle : Before(emp, d, e)}) >= waiting}
                  \cup {e \in done : Cardinality(idle) + Cardinality({d \in done : d < e}) >= waiting}
  BY <1>1, <1>2, <1>3, Zenon DEF DoneForToday
<1>5. idle \subseteq crew /\ done \subseteq crew /\ crew \subseteq Employees
  BY <1>1, <1>2
<1>6. /\ \A e \in idle : emp[e].state = "AVAILABLE"
      /\ \A e \in done : emp[e].state = "SERVING"
  BY <1>1, <1>2 DEF Available
<1>7. CASE idle # {}
  <2>1. PICK e \in idle : \A d \in idle : ~Before(emp, d, e)
    BY <1>5, <1>7, SomebodyIsFirst
  <2>2. {d \in idle : Before(emp, d, e)} = {}
    BY <2>1
  <2>3. Cardinality({d \in idle : Before(emp, d, e)}) = 0
    BY <2>2, FS_EmptySet
  <2>4. e \notin done
    BY <1>6
  <2>5. e \notin leaving
    BY <1>4, <2>3, <2>4
  <2> QED
    BY <1>3, <1>5, <1>6, <2>5
<1>8. CASE idle = {} /\ done # {}
  <2>1. done \subseteq Nat
    BY <1>5, WorkforceAssumption
  <2>2. PICK e : e = Least(done)
    OBVIOUS
  <2>3. e \in done /\ \A d \in done : e <= d
    BY <1>8, <2>1, <2>2, LeastIs
  <2>4. {d \in done : d < e} = {}
    <3>1. ASSUME NEW d \in done PROVE ~(d < e)
      <4>1. d \in Nat /\ e \in Nat /\ e <= d
        BY <2>1, <2>3
      <4> QED
        BY <4>1
    <3> QED
      BY <3>1
  <2>5. Cardinality({d \in done : d < e}) = 0 /\ Cardinality(idle) = 0
    BY <1>8, <2>4, FS_EmptySet
  <2>6. e \notin leaving
    BY <1>4, <1>8, <2>5
  <2> QED
    BY <1>3, <1>5, <1>6, <2>3, <2>6
<1>9. CASE idle = {} /\ done = {}
  <2>1. leaving = {}
    BY <1>4, <1>9
  <2> QED
    BY <1>3, <2>1
<1> QED
  BY <1>7, <1>8, <1>9

\* The employees of an instant after closing: released are they before the assignment, crew those who may go on.
GoingOn(crew, waiting, released, t) ==
  \A e \in Employees :
    /\ Late(day.roster[e], released[e], t, EndsAt(e, t), t) /\ GoesOn(e, released[e], t)
    /\ ~released[e].gone => e \in crew /\ e \notin DoneForToday(crew, waiting, t)
    /\ emp[e].state = "AVAILABLE" => emp[e].since < t

\* Whoever is idle and not released finds a customer: so many of the others are before him as counted.
LEMMA NobodyStaysIdle ==
  ASSUME \A e \in Employees : emp[e] \in Employee, NEW t \in Nat, NEW crew, crew \subseteq Employees,
         NEW waiting \in Nat, NEW released, NEW ready, NEW queue, Len(queue) \in Nat, waiting <= Len(queue),
         GoingOn(crew, waiting, released, t), \A e \in Employees : StandsAs(released[e], ready[e]),
         NEW e \in Employees, released[e].state = "AVAILABLE"
  PROVE  e \in Taking(ready, queue)
<1>1. PICK idle : idle = Available(emp) \cap crew
  OBVIOUS
<1>2. PICK done : done = {d \in Finishing(t) \cap crew : emp[d].state = "SERVING"}
  OBVIOUS
<1>3. DoneForToday(crew, waiting, t) =
        {d \in idle : Cardinality({b \in idle : Before(emp, b, d)}) >= waiting}
          \cup {d \in done : Cardinality(idle) + Cardinality({b \in done : b < d}) >= waiting}
  BY <1>1, <1>2, Zenon DEF DoneForToday
<1>4. ASSUME NEW d \in Employees, released[d].state = "AVAILABLE"
      PROVE  /\ d \notin DoneForToday(crew, waiting, t)
             /\ \/ d \in idle /\ released[d].since = emp[d].since /\ emp[d].since < t
                \/ d \in done /\ released[d].since = t
  <2>1. ~released[d].gone
    BY <1>4 DEF GoingOn, Late
  <2>2. d \in crew /\ d \notin DoneForToday(crew, waiting, t) /\ GoesOn(d, released[d], t)
    BY <2>1 DEF GoingOn
  <2>3. CASE d \in Finishing(t)
    BY <1>2, <2>1, <2>2, <2>3 DEF GoesOn
  <2>4. CASE d \notin Finishing(t)
    <3>1. emp[d].state = "AVAILABLE" /\ released[d].since = emp[d].since
      BY <1>4, <2>1, <2>2, <2>4 DEF GoesOn
    <3>2. emp[d].since < t
      BY <3>1 DEF GoingOn
    <3> QED
      BY <1>1, <2>2, <3>1, <3>2 DEF Available
  <2> QED
    BY <2>3, <2>4
<1>5. idle \subseteq Employees /\ done \subseteq Employees
  BY <1>1, <1>2
<1>6. PICK first : first = {d \in Available(ready) : Before(ready, d, e)}
  OBVIOUS
<1>7. ASSUME NEW d \in first
      PROVE  d \in Employees /\ released[d].state = "AVAILABLE" /\ Before(released, d, e)
  <2>1. d \in Employees /\ ready[d].state = "AVAILABLE" /\ Before(ready, d, e)
    BY <1>6 DEF Available
  <2>2. StandsAs(released[d], ready[d]) /\ StandsAs(released[e], ready[e])
    BY <2>1
  <2>3. /\ ready[d].since = released[d].since /\ ready[d].state = released[d].state
        /\ ready[e].since = released[e].since
    BY <2>1, <2>2 DEF StandsAs
  <2> QED
    BY <2>1, <2>3 DEF Before
<1>8. ASSUME NEW d \in Employees PROVE emp[d].since \in Int /\ d \in Int
  <2>1. emp[d] \in Employee
    OBVIOUS
  <2>2. emp[d].since \in Time
    BY <2>1 DEF Employee
  <2>3. emp[d].since \in Int
    BY <2>2 DEF Time, None
  <2>4. Employees \subseteq Nat \ {0}
    BY WorkforceAssumption
  <2>5. d \in Int
    BY <2>4
  <2> QED
    BY <2>3, <2>5
<1>9. Cardinality(first) < waiting
  <2>1. CASE e \in idle /\ released[e].since = emp[e].since /\ emp[e].since < t
    <3>1. PICK before : before = {b \in idle : Before(emp, b, e)}
      OBVIOUS
    <3>2. ASSUME NEW d \in first PROVE d \in before
      <4>1. d \in idle /\ released[d].since = emp[d].since
        BY <1>4, <1>7, <1>8, <2>1 DEF Before
      <4>2. Before(emp, d, e)
        BY <1>7, <2>1, <4>1 DEF Before
      <4> QED
        BY <3>1, <4>1, <4>2
    <3>3. first \in SUBSET before /\ before \in SUBSET Employees
      BY <1>5, <3>1, <3>2
    <3>4. IsFiniteSet(before) /\ Cardinality(before) \in Nat
      BY <3>3, WorkforceAssumption, FS_Subset, FS_CardinalityType
    <3>5. Cardinality(first) <= Cardinality(before) /\ Cardinality(first) \in Nat
      BY <3>3, <3>4, FS_Subset, FS_CardinalityType
    <3>6. ~(Cardinality(before) >= waiting)
      BY <1>3, <1>4, <2>1, <3>1
    <3> QED
      BY <3>4, <3>5, <3>6
  <2>2. CASE e \in done /\ released[e].since = t
    <3>1. PICK before : before = {b \in done : b < e}
      OBVIOUS
    <3>2. ASSUME NEW d \in first, d \notin idle PROVE d \in before
      <4>1. d \in done /\ released[d].since = t
        BY <1>4, <1>7, <3>2
      <4>2. d < e
        BY <1>7, <2>2, <4>1 DEF Before
      <4> QED
        BY <3>1, <4>1, <4>2
    <3>3. first \in SUBSET (idle \cup before) /\ before \in SUBSET Employees /\ idle \in SUBSET Employees
      BY <1>5, <3>1, <3>2
    <3>4. IsFiniteSet(before) /\ Cardinality(before) \in Nat /\ IsFiniteSet(idle) /\ Cardinality(idle) \in Nat
      BY <3>3, WorkforceAssumption, FS_Subset, FS_CardinalityType
    <3>5. PICK both : both = idle \cup before
      OBVIOUS
    <3>6. PICK common : common = idle \cap before
      OBVIOUS
    <3>7. IsFiniteSet(both) /\ Cardinality(both) = Cardinality(idle) + Cardinality(before) - Cardinality(common)
      BY <3>4, <3>5, <3>6, FS_Union
    <3>8. Cardinality(common) \in Nat
      <4>1. common \in SUBSET idle
        BY <3>6
      <4> QED
        BY <3>4, <4>1, FS_Subset, FS_CardinalityType
    <3>9. Cardinality(first) <= Cardinality(both) /\ Cardinality(first) \in Nat /\ Cardinality(both) \in Nat
      <4>1. first \in SUBSET both
        BY <3>3, <3>5
      <4> QED
        BY <3>7, <4>1, FS_Subset, FS_CardinalityType
    <3>10. ~(Cardinality(idle) + Cardinality(before) >= waiting)
      BY <1>3, <1>4, <2>2, <3>1
    <3> QED
      BY <3>4, <3>7, <3>8, <3>9, <3>10
  <2> QED
    BY <1>4, <2>1, <2>2
<1>10. Cardinality(first) \in Nat
  <2>1. first \in SUBSET Employees
    BY <1>7
  <2> QED
    BY <2>1, WorkforceAssumption, FS_Subset, FS_CardinalityType
<1>11. Rank(ready, e) < Len(queue)
  BY <1>6, <1>9, <1>10 DEF Rank
<1>12. e \in Available(ready)
  BY DEF Available, StandsAs
<1> QED
  BY <1>11, <1>12 DEF Taking

\* So whoever is not released serves after such an instant, and while customers wait there is such an employee.
LEMMA WorkGoesOn ==
  ASSUME IInv, IInv', NEW t \in Nat, NEW crew, crew \subseteq Employees, NEW line, NEW sentAway, NEW released,
         NEW closed \in BOOLEAN, closed, Turned(released, line, sentAway, crew, t, closed),
         GoingOn(crew, Len(line), released, t),
         \A e \in crew : emp[e].state \in {"AVAILABLE", "SERVING"} /\ e \notin DoneForToday(crew, Len(line), t) => ~released[e].gone,
         line # <<>> => \E w \in crew : emp[w].state \in {"AVAILABLE", "SERVING"}
  PROVE  CrewOK'
<1>1. PICK ready, queue, work :
        /\ TurnAt(released, line, sentAway, crew, t, closed, ready, queue, work)
        /\ closed => \A e \in Employees : StandsAs(released[e], ready[e]) /\ emp'[e].gone = released[e].gone
  BY Zenon DEF Turned
<1>2. /\ BeforeTurn(released, line, sentAway, crew, t, closed) /\ Turn(ready, queue, sentAway, crew, t, closed, work)
      /\ QueueAt(queue, line, t)
      /\ \A e \in Employees : Onward(released[e], emp'[e], e, Taking(ready, queue), t)
  BY <1>1 DEF TurnAt
<1>3. \A e \in Employees : StandsAs(released[e], ready[e]) /\ emp'[e].gone = released[e].gone
  BY <1>1
<1>4. clock'.closed = closed /\ clock'.now = t /\ sim'.crew = crew
  BY <1>2, Zenon DEF Turn
<1>5. \A e \in Employees : emp[e] \in Employee
  BY DEF IInv, EmployeesOK, Late, Fit, Sound
<1>6. PICK n \in 0 .. N - sim.come :
           /\ Coming(t) = [k \in 1 .. n |-> sim.come + k] /\ Len(Coming(t)) = n /\ Coming(t) \in Seq(Nat)
           /\ sim.come \in 0 .. N /\ N \in Nat /\ sim'.come = sim.come + n /\ (closed => n = 0)
  BY ComingIs, Zenon
<1>7. line \in Seq(1 .. sim.come) /\ Coming(t) = <<>>
  BY <1>2, <1>6 DEF BeforeTurn
<1>8. queue = line
  <2>1. line \o <<>> = line
    BY <1>7
  <2>2. queue = line \o Coming(t)
    BY <1>2, Zenon DEF QueueAt
  <2> QED
    BY <1>7, <2>1, <2>2, Zenon
<1>9. Len(line) \in Nat /\ Len(queue) \in Nat /\ Len(line) <= Len(queue)
  <2>1. Len(line) \in Nat
    BY <1>7
  <2> QED
    BY <1>8, <2>1
<1>10. ASSUME NEW e \in Employees, ~emp'[e].gone
       PROVE  emp'[e].state = "SERVING" /\ e \in crew
  <2>1. ~released[e].gone
    BY <1>3, <1>10
  <2>2. e \in crew /\ released[e].state \in {"AVAILABLE", "SERVING"}
    BY <2>1 DEF GoingOn, Late
  <2>3. emp'[e].state \in Serving
    <3>1. CASE released[e].state = "AVAILABLE"
      <4>1. e \in Taking(ready, queue)
        BY <1>3, <1>5, <1>9, <3>1, NobodyStaysIdle
      <4> QED
        BY <1>2, <4>1 DEF Onward
    <3>2. CASE released[e].state = "SERVING"
      BY <1>2, <3>2 DEF Onward, Serving
    <3> QED
      BY <2>2, <3>1, <3>2
  <2>4. emp'[e].state \in {"AVAILABLE", "SERVING"}
    <3>1. clock'.closed /\ EmployeesOK'
      BY <1>4 DEF IInv
    <3>2. Late(day'.roster[e], emp'[e], clock'.now, Ended(e)', clock'.now + 1)
      BY <3>1 DEF EmployeesOK
    <3> QED
      BY <1>10, <3>2 DEF Late
  <2> QED
    BY <2>2, <2>3, <2>4 DEF Serving
<1>11. ASSUME sim'.line # <<>> PROVE \E e \in Employees : ~emp'[e].gone
  <2>1. line # <<>>
    <3>1. SUFFICES ASSUME line = <<>> PROVE sim'.line = <<>>
      BY <1>11
    <3>2. sim'.line = SubSeq(queue, Cardinality(Taking(ready, queue)) + 1, Len(queue))
      BY <1>2 DEF Turn
    <3>3. PICK m : m = Cardinality(Taking(ready, queue))
      OBVIOUS
    <3>4. m \in Nat
      <4>1. Taking(ready, queue) \in SUBSET Employees
        BY DEF Taking, Available
      <4> QED
        BY <3>3, <4>1, WorkforceAssumption, FS_Subset, FS_CardinalityType
    <3>5. SubSeq(<<>>, m + 1, 0) = <<>>
      BY <3>4
    <3>6. queue = <<>> /\ Len(queue) = 0
      BY <1>8, <3>1
    <3> QED
      BY <3>2, <3>3, <3>5, <3>6
  <2>2. Len(line) > 0
    BY <1>7, <1>9, <2>1
  <2>3. PICK w \in crew : emp[w].state \in {"AVAILABLE", "SERVING"}
    BY <2>1
  <2>4. PICK e \in crew : emp[e].state \in {"AVAILABLE", "SERVING"} /\ e \notin DoneForToday(crew, Len(line), t)
    BY <1>5, <1>9, <2>2, <2>3, SomebodyStays
  <2>5. ~released[e].gone
    BY <2>4
  <2> QED
    BY <1>3, <2>4, <2>5
<1> QED
  BY <1>4, <1>10, <1>11 DEF CrewOK

\* An instant before closing leaves nobody free since a time to come.
LEMMA ServeKeepsCrew ==
  ASSUME IInv, CrewOK, ServeInstant
  PROVE  CrewOK'
<1>1. ~clock.closed /\ \E d, t : NextIs(t) /\ FreeSince(d, t) /\ Turned(d, sim.line, {}, {}, t, FALSE)
  BY ServeKeeps
<1>2. PICK d, t : NextIs(t) /\ FreeSince(d, t) /\ Turned(d, sim.line, {}, {}, t, FALSE)
  BY <1>1
<1>3. PICK ready, queue, work : TurnAt(d, sim.line, {}, {}, t, FALSE, ready, queue, work)
  BY <1>2, Zenon DEF Turned
<1>4. /\ Turn(ready, queue, {}, {}, t, FALSE, work)
      /\ \A e \in Employees : Onward(d[e], emp'[e], e, Taking(ready, queue), t)
  BY <1>3 DEF TurnAt
<1>5. clock' = [now |-> t, closed |-> FALSE] /\ sim'.crew = {}
  BY <1>4, Zenon DEF Turn
<1>6. ASSUME NEW e \in Employees PROVE emp'[e].since <= t
  <2>1. emp'[e].since \in {emp[e].since, t}
    BY <1>2, <1>4 DEF Onward, FreeSince
  <2>2. emp[e].since <= clock.now /\ clock.now < t /\ t \in Nat
    BY <1>1, <1>2 DEF CrewOK, NextIs
  <2>3. emp[e].since \in Int /\ clock.now \in Int
    BY <1>1 DEF IInv, EmployeesOK, ClockOK, Fit, Sound, Employee, Time, None
  <2> QED
    BY <2>1, <2>2, <2>3
<1> QED
  BY <1>5, <1>6 DEF CrewOK

\* At closing those of the crew for whom a customer is there go on.
LEMMA CloseKeepsCrew ==
  ASSUME IInv, CrewOK, CloseInstant
  PROVE  CrewOK'
<1>1. PICK crew, line, sent, told, released :
        ClosesWith(crew, line, sent, told, released) /\ Turned(released, line, sent, crew, Closing, TRUE)
  BY CloseKeeps, Zenon
<1>2. PICK closed \in BOOLEAN : closed = TRUE
  OBVIOUS
<1>3. Turned(released, line, sent, crew, Closing, closed)
  BY <1>1, <1>2, Zenon
<1>4. NextIs(Closing) /\ ~clock.closed /\ crew = CrewAtClosing /\ line = (IF crew = {} THEN <<>> ELSE sim.line)
  BY <1>1, SoonestIs, Zenon DEF ClosesWith
<1>5. Closing \in Nat /\ clock.now < Closing /\ clock.now \in Int
  BY <1>4, NamedDayAssumption DEF NextIs, IInv, ClockOK, Time, None
<1>6. crew \subseteq Employees /\ \A e \in crew : emp[e].state \in {"AVAILABLE", "SERVING"}
  BY <1>4 DEF CrewAtClosing
<1>7. ASSUME NEW e \in Employees
      PROVE  /\ Late(day.roster[e], released[e], Closing, EndsAt(e, Closing), Closing)
             /\ released[e].gone <=> (e \notin crew \/ e \in DoneForToday(crew, Len(line), Closing))
             /\ GoesOn(e, released[e], Closing)
  BY <1>1, ClosedOne
<1>8. ASSUME NEW e \in Employees PROVE emp[e].since < Closing
  <2>1. emp[e].since <= clock.now /\ emp[e].since \in Int
    BY <1>4 DEF CrewOK, IInv, EmployeesOK, Fit, Sound, Employee, Time, None
  <2> QED
    BY <1>5, <2>1
<1>9. GoingOn(crew, Len(line), released, Closing)
  BY <1>7, <1>8 DEF GoingOn
<1>10. \A e \in crew :
         emp[e].state \in {"AVAILABLE", "SERVING"} /\ e \notin DoneForToday(crew, Len(line), Closing) => ~released[e].gone
  BY <1>6, <1>7
<1>11. line # <<>> => \E w \in crew : emp[w].state \in {"AVAILABLE", "SERVING"}
  BY <1>4, <1>6
<1>12. IInv'
  BY CloseKeeps
<1> QED
  BY <1>2, <1>3, <1>5, <1>6, <1>9, <1>10, <1>11, <1>12, WorkGoesOn

\* After closing so do those for whom one is left.
LEMMA DrainKeepsCrew ==
  ASSUME IInv, CrewOK, DrainInstant
  PROVE  CrewOK'
<1>1. /\ IInv' /\ clock.closed
      /\ \E t \in Soonest : \E released :
           /\ ReleasedAre(released, Completed(t, {}), DoneForToday(sim.crew, Len(sim.line), t), t)
           /\ Turned(released, sim.line, {}, sim.crew, t, TRUE)
  BY DrainKeeps, Zenon
<1>a. PICK t \in Soonest :
        \E released :
          /\ ReleasedAre(released, Completed(t, {}), DoneForToday(sim.crew, Len(sim.line), t), t)
          /\ Turned(released, sim.line, {}, sim.crew, t, TRUE)
  BY <1>1, Zenon
<1>2. PICK released :
        /\ ReleasedAre(released, Completed(t, {}), DoneForToday(sim.crew, Len(sim.line), t), t)
        /\ Turned(released, sim.line, {}, sim.crew, t, TRUE)
  BY <1>a, Zenon
<1>3. PICK closed \in BOOLEAN : closed = TRUE
  OBVIOUS
<1>4. Turned(released, sim.line, {}, sim.crew, t, closed)
  BY <1>2, <1>3, Zenon
<1>5. t \in Nat
  BY SoonestIs DEF NextIs
<1>6. sim.crew \subseteq Employees
  BY DEF CrewOK
<1>7. ASSUME NEW e \in Employees
      PROVE  /\ Late(day.roster[e], released[e], t, EndsAt(e, t), t)
             /\ released[e].gone <=> (emp[e].gone \/ e \in DoneForToday(sim.crew, Len(sim.line), t))
             /\ GoesOn(e, released[e], t)
  BY <1>1, <1>2, DrainedOne
<1>8. ASSUME NEW e \in Employees
      PROVE  /\ emp[e].gone => emp[e].state \notin {"AVAILABLE", "SERVING"}
             /\ ~emp[e].gone => emp[e].state = "SERVING" /\ e \in sim.crew
  BY <1>1 DEF CrewOK, IInv, EmployeesOK, Late
<1>9. GoingOn(sim.crew, Len(sim.line), released, t)
  BY <1>7, <1>8 DEF GoingOn
<1>10. sim.line # <<>> => \E w \in sim.crew : emp[w].state \in {"AVAILABLE", "SERVING"}
  BY <1>1, <1>8 DEF CrewOK
<1> QED
  BY <1>1, <1>3, <1>4, <1>5, <1>6, <1>7, <1>8, <1>9, <1>10, WorkGoesOn

\* Nobody is free or of the crew before the run.
LEMMA CrewAtFirst ==
  ASSUME Init, IInv
  PROVE  CrewOK
<1>1. clock.now = None /\ clock.closed = FALSE /\ sim.crew = {}
  BY DEF Init
<1>2. ASSUME NEW e \in Employees PROVE emp[e].since = None
  <2>1. emp[e] = NewEmployee(day.roster[e])
    BY DEF Init
  <2> QED
    BY <2>1 DEF NewEmployee
<1> QED
  BY <1>1, <1>2 DEF CrewOK, None

\* No step breaks this.
LEMMA CrewIsKept ==
  ASSUME IInv, CrewOK, [Next]_vars
  PROVE  CrewOK'
<1>1. CASE ServeInstant
  BY <1>1, ServeKeepsCrew
<1>2. CASE CloseInstant
  BY <1>2, CloseKeepsCrew
<1>3. CASE DrainInstant
  BY <1>3, DrainKeepsCrew
<1>4. CASE UNCHANGED vars
  <2>1. clock' = clock /\ emp' = emp /\ sim' = sim
    BY <1>4 DEF vars
  <2> QED
    BY <2>1 DEF CrewOK
<1> QED
  BY <1>1, <1>2, <1>3, <1>4 DEF Next

\* When no instant is left the run has come to its end.
LEMMA TheEndFollows ==
  ASSUME IInv, CrewOK
  PROVE  TheRunComesToItsEnd
<1>1. \A t \in Instants : t > clock.now
  BY InstantsAreAhead
<1>2. ASSUME Instants = {}
      PROVE  /\ clock.closed
             /\ \A e \in Employees : emp[e].state = "OFF" /\ emp[e].shift = 0
             /\ \A c \in Customers :
                  sim.customer[c].departed \/
                    (sim.customer[c].unserved # "no" /\ (day.policy = "HARD_CUTOFF" \/ sim.crew = {}))
  <2>1. clock.closed
    BY <1>2, InstantsAre
  <2>2. \A c \in Customers : ~InService(c)
    BY <1>2, InstantsAre
  <2>3. \A e \in Employees : emp[e].state \notin Serving
    BY <2>2 DEF IInv, ServiceOK
  <2>4. \A e \in Employees : emp[e].gone
    BY <2>1, <2>3 DEF CrewOK, Serving
  <2>5. ASSUME NEW e \in Employees PROVE emp[e].state = "OFF" /\ emp[e].shift = 0
    <3>1. Late(day.roster[e], emp[e], clock.now, Ended(e), clock.now + 1)
      BY <2>1 DEF IInv, EmployeesOK
    <3>2. emp[e].state \in {"OFF", "SERVING_SHIFT_ENDED"} /\ StateOK(day.roster[e], emp[e], clock.now)
      BY <2>4, <3>1 DEF Late, Sound
    <3>3. emp[e].state = "OFF"
      BY <2>3, <3>2 DEF Serving
    <3> QED
      BY <3>2, <3>3 DEF StateOK
  <2>6. sim.line = <<>>
    BY <2>1, <2>4 DEF CrewOK
  <2>7. ASSUME NEW c \in Customers, ~sim.customer[c].departed
        PROVE  sim.customer[c].unserved # "no" /\ sim.crew = {}
    <3>1. sim.customer[c].by = 0
      BY <2>2, <2>7 DEF InService
    <3>2. sim.come = N /\ N \in Nat
      BY <2>1, NamedDayAssumption DEF IInv, LineOK
    <3>3. ~(c > sim.come)
      BY <3>2 DEF Customers
    <3>4. c \notin Range(sim.line)
      BY <2>6 DEF Range
    <3>5. sim.customer[c].unserved # "no"
      BY <3>1, <3>3, <3>4 DEF IInv, LineOK
    <3> QED
      BY <3>5 DEF IInv, LineOK
  <2> QED
    BY <2>1, <2>5, <2>7
<1> QED
  BY <1>1, <1>2 DEF TheRunComesToItsEnd

\* The engine never refuses an instant as passed, and when it has none left, closing has been, everybody is off
\* for good and every customer departed, but for those sent away at closing with nobody there to drain the line.
THEOREM TheRunAlwaysComesToItsEnd == Spec => []TheRunComesToItsEnd
<1>1. Init => IInv /\ CrewOK
  BY InitIsSound, CrewAtFirst
<1>2. IInv /\ CrewOK /\ [Next]_vars => (IInv /\ CrewOK)'
  BY IInvIsKept, CrewIsKept
<1>3. IInv /\ CrewOK => TheRunComesToItsEnd
  BY TheEndFollows
<1> QED
  BY <1>1, <1>2, <1>3, PTL DEF Spec
=============================================================================
