---------------------------- MODULE NamedAccounts ----------------------------
(***************************************************************************)
(* What is read from the record of a finished day of named employees:      *)
(* shared_named_attribution gives each shift its time, shared_named_cost   *)
(* what of it is paid, as regular time or overtime, and what that costs.   *)
(* Times are whole minutes, so sums are exact and the tolerance of the     *)
(* code plays no part.                                                     *)
(***************************************************************************)
EXTENDS NamedPlayback

CONSTANTS
  Threshold,   \* daily_regular_paid_minutes, where supplied
  Prices,      \* the four rates, where supplied
  Needed       \* required_staffing: the servers needed in each part of the horizon

ASSUME NamedAccountsAssumption ==
  /\ Threshold \in Nat /\ Prices \in [{"regular", "overtime", "waiting", "unserved"} -> Nat]
  /\ Needed \in Seq([start : Nat, finish : Nat, servers : Nat]) /\ Needed # <<>>
  /\ Needed[1].start = 0 /\ Needed[Len(Needed)].finish = Closing
  /\ \A i \in 2 .. Len(Needed) : Needed[i].start = Needed[i - 1].finish

Finish == clock.now

\* result: the timeline is closed at the finish.
Intervals(e) == IF Finish > OpenSince(e) THEN Append(spans[e], Open(e, Finish)) ELSE spans[e]

Length(s) == s.finish - s.start

Total(rows) == FoldLeft(LAMBDA sum, s : sum + Length(s), 0, rows)

ShiftsOf(e) == DOMAIN day.roster[e]

ShiftRows(e, k) == SelectSeq(Intervals(e), LAMBDA s : s.shift = k)

Activated(e, k) == emp[e].duty[k].start # None

Overrun(e, k) == Larger(0, emp[e].duty[k].release - day.roster[e][k].end)

Tile(rows, from, to) ==
  /\ rows # <<>>
  /\ Head(rows).start = from /\ Last(rows).finish = to
  /\ \A i \in 2 .. Len(rows) : rows[i].start = rows[i - 1].finish

-----------------------------------------------------------------------------
(* build_named_attribution *)

\* _check_geometry, for one interval.
WellPlaced(e, s) ==
  /\ s.start < s.finish
  /\ s.shift # 0 <=> s.state # "OFF"
  /\ s.after <=> s.start >= Closing
  /\ ~s.after => s.finish <= Closing
  /\ s.shift = 0 => ~s.past
  /\ s.shift # 0 =>
       LET end == day.roster[e][s.shift].end
       IN (s.past <=> s.start >= end) /\ (~s.past => s.finish <= end)

\* The four cells of the time on duty, by closing and by the scheduled end.
Cell(rows, after, past) == Total(SelectSeq(rows, LAMBDA s : s.after = after /\ s.past = past))

InState(rows, state) == Total(SelectSeq(rows, LAMBDA s : s.state = state))

\* _shift_quantities and the part of _shift_record for a shift that never began.
ShiftReconciles(e, k) ==
  LET d == emp[e].duty[k]
      plan == day.roster[e][k]
      rows == ShiftRows(e, k)
  IN IF ~Activated(e, k) THEN rows = <<>> /\ d.release = None
     ELSE /\ d.release # None /\ d.start >= plan.start
          /\ Tile(rows, d.start, d.release)
          /\ Cell(rows, TRUE, TRUE) + Cell(rows, FALSE, TRUE) = Overrun(e, k)

\* _break_record
BreakReconciles(row) ==
  IF row.start = None THEN row.outcome = "unfulfilled" /\ row.finish = None
  ELSE /\ row.outcome \in {"completed", "truncated_by_closing"}
       /\ row.due # None /\ row.due <= row.start
       /\ row.start < row.finish
       /\ row.outcome = "completed" => row.finish - row.start = BreakLength
       /\ row.outcome = "truncated_by_closing" => row.finish = Closing /\ row.finish - row.start <= BreakLength

\* The time on break is that of the breaks started.
RestReconciles(e, k) ==
  InState(ShiftRows(e, k), "ON_BREAK") = Total(SelectSeq(emp[e].rests[k], LAMBDA b : b.start # None))

AttributionChecks ==
  [interval_geometry |-> \A e \in Employees :
      /\ Tile(Intervals(e), 0, Finish)
      /\ \A i \in DOMAIN Intervals(e) : WellPlaced(e, Intervals(e)[i]),
   shift_reconciliation |-> \A e \in Employees : \A k \in ShiftsOf(e) : ShiftReconciles(e, k),
   break_reconciliation |-> \A e \in Employees : \A k \in ShiftsOf(e) :
      RestReconciles(e, k) /\ \A i \in DOMAIN emp[e].rests[k] : BreakReconciles(emp[e].rests[k][i])]

-----------------------------------------------------------------------------
(* The summary of a run *)

Unserved == {c \in Customers : sim.customer[c].unserved # "no"}

Served == {c \in Customers : sim.customer[c].departed}

WaitOf(c) == sim.customer[c].start - day.arrival[c]

\* _summarize, the customers' part; area and most are what the engine counted as it went.
Summary ==
  LET reason(name) == Cardinality({c \in Unserved : sim.customer[c].unserved = name})
  IN [arrivals |-> N, departed |-> Cardinality(Served), unserved |-> Cardinality(Unserved),
      cutOff |-> reason("hard_cutoff"), notEligible |-> reason("no_eligible_employee"),
      afterClosing |-> Cardinality({c \in Served : sim.customer[c].start >= Closing}),
      waited |-> MapThenSumSet(WaitOf, Served),
      queue |-> sim.area, longest |-> sim.most, finish |-> Finish]

\* Who is in one of these states in minute m, by the timeline.
InStates(m, states) ==
  {e \in Employees :
     \E i \in DOMAIN Intervals(e) :
       LET s == Intervals(e)[i] IN s.state \in states /\ s.start <= m /\ m < s.finish}

\* The steps end with the run or with the last minute anybody was to serve.
LastMinuteShown ==
  LET planned == {m \in 0 .. LastMinute : OnDuty(day.roster, m) > 0}
  IN CHOOSE last \in {Finish} \cup {m + 1 : m \in planned} :
       Finish <= last /\ \A m \in planned : m < last

\* _staffing: P8, the series of the timeline, minute by minute.
Staffing ==
  [m \in 0 .. LastMinuteShown - 1 |->
    [scheduled |-> OnDuty(day.roster, m), accepting |-> Cardinality(InStates(m, {"AVAILABLE", "SERVING"})),
     busy |-> Cardinality(InStates(m, Serving)), registers |-> Cardinality(InStates(m, Registered)),
     waiting |-> Cardinality(InStates(m, {"WAITING_FOR_REGISTER"}))]]

\* window: the series summed over the minutes of one window; a gap falls short or exceeds, minute by minute.
Window(steps, from, to, need) ==
  LET sum(f(_)) == MapThenSumSet(f, from .. to - 1)
      gap(m) == steps[m].accepting - steps[m].scheduled
      lack(m) == steps[m].accepting - need[m]
  IN [scheduled |-> sum(LAMBDA m : steps[m].scheduled), accepting |-> sum(LAMBDA m : steps[m].accepting),
      busy |-> sum(LAMBDA m : steps[m].busy), registers |-> sum(LAMBDA m : steps[m].registers),
      waiting |-> sum(LAMBDA m : steps[m].waiting), required |-> sum(LAMBDA m : need[m]),
      excess |-> sum(LAMBDA m : Larger(0, gap(m))), shortfall |-> sum(LAMBDA m : Larger(0, -gap(m))),
      spare |-> sum(LAMBDA m : Larger(0, lack(m))), missing |-> sum(LAMBDA m : Larger(0, -lack(m)))]

\* _staffing_values: the windows of a run; the gaps exist only within the horizon.
Windows(steps) ==
  LET part(m) == CHOOSE i \in DOMAIN Needed : Needed[i].start <= m /\ m < Needed[i].finish
      need == [m \in DOMAIN steps |-> IF m < Closing THEN Needed[part(m)].servers ELSE 0]
  IN [segments |-> [i \in DOMAIN Needed |-> Window(steps, Needed[i].start, Needed[i].finish, need)],
      horizon |-> Window(steps, 0, Closing, need),
      after |-> Window(steps, Closing, LastMinuteShown, need)]

\* _employee_values, without the causes of the breaks nobody took.
EmployeeValues ==
  LET all == FlattenSeq([i \in 1 .. Cardinality(Employees) |-> Intervals(SetToSortSeq(Employees, <)[i])])
      shifts == {ek \in Employees \X (1 .. MaxShifts) : ek[2] \in ShiftsOf(ek[1])}
      activated == {ek \in shifts : Activated(ek[1], ek[2])}
      rests == UNION {{<<ek[1], ek[2], i>> : i \in DOMAIN emp[ek[1]].rests[ek[2]]} : ek \in shifts}
      row(r) == emp[r[1]].rests[r[2]][r[3]]
      ended(outcome) == Cardinality({r \in rests : row(r).outcome = outcome})
      delay(r) == row(r).start - day.roster[r[1]][r[2]].breaks[r[3]]
  IN [hours |-> [state \in BaseStates |-> InState(all, state)],
      hoursAfter |-> [state \in BaseStates |-> InState(SelectSeq(all, LAMBDA s : s.after), state)],
      scheduled |-> Cardinality(shifts), activated |-> Cardinality(activated),
      overrun |-> MapThenSumSet(LAMBDA ek : Overrun(ek[1], ek[2]), activated),
      late |-> MapThenSumSet(LAMBDA ek : emp[ek[1]].duty[ek[2]].start - day.roster[ek[1]][ek[2]].start, activated),
      breaks |-> Cardinality(rests), started |-> Cardinality({r \in rests : row(r).start # None}),
      completed |-> ended("completed"), truncated |-> ended("truncated_by_closing"),
      unfulfilled |-> ended("unfulfilled"),
      delay |-> MapThenSumSet(delay, {r \in rests : row(r).start # None})]

\* named_replication_row: conserved is what it raises on.
ReplicationRow(summary, staffing, values) ==
  [conserved |-> summary.arrivals = summary.departed + summary.unserved,
   customers |-> summary, drained |-> Cardinality(sim.crew), over |-> summary.finish - Closing,
   staffing |-> Windows(staffing), employees |-> values]

\* build_named_playback, for a day that the reading accepted: the row, and what lies outside the horizon by
\* the time of each interval instead of the engine's flag, which _row_reconciliation compares.
PlaybackShown(row) ==
  LET after(e, state) ==
        FoldLeft(LAMBDA sum, s : IF s.state = state THEN sum + Larger(0, s.finish - Larger(s.start, Closing)) ELSE sum,
                 0, Intervals(e))
  IN [valid |-> playback.failed = {}, summary |-> row,
      outside |-> [state \in BaseStates |-> MapThenSumSet(LAMBDA e : after(e, state), Employees)]]

-----------------------------------------------------------------------------
(* cost_named_workforce: paid time *)

\* _paid_rows: on duty, and not on a break unless breaks are paid.
PaidRows(e, paidBreaks) ==
  SelectSeq(Intervals(e), LAMBDA s : s.shift # 0 /\ (s.state = "ON_BREAK" => paidBreaks))

\* One premium only: time after closing or past the scheduled end is overtime already.
Flagged(s) == s.after \/ s.past

\* mutant: time that is overtime already does not use up the threshold.
AfterRowUnflagged(sum, s) == IF Flagged(s) THEN sum ELSE sum + Length(s)

\* What is paid up to the end of a row, of which the threshold is counted.
AfterRow(sum, s) == sum + Length(s)

\* What of a row is below the threshold.
Below(theta, sum, s) == IF sum >= theta THEN 0 ELSE IF theta - sum >= Length(s) THEN Length(s) ELSE theta - sum

\* _pay_walk: the pieces of an employee's paid rows, in time order over all shifts.
PayWalk(rows, theta) ==
  LET piece(s, sum) ==
        IF Flagged(s) THEN [shift |-> s.shift, flagged |-> Length(s), regular |-> 0, beyond |-> 0]
        ELSE [shift |-> s.shift, flagged |-> 0, regular |-> Below(theta, sum, s),
              beyond |-> Length(s) - Below(theta, sum, s)]
      walk == FoldLeft(LAMBDA so, s : [sum |-> AfterRow(so.sum, s), pieces |-> Append(so.pieces, piece(s, so.sum))],
                       [sum |-> 0, pieces |-> <<>>], rows)
  IN walk.pieces

\* _hours: the pieces of one shift, or of all of them.
Pieces(pieces, k) ==
  FoldLeft(LAMBDA so, p :
             IF k # 0 /\ p.shift # k THEN so
             ELSE [flagged |-> so.flagged + p.flagged, regular |-> so.regular + p.regular,
                   beyond |-> so.beyond + p.beyond],
           [flagged |-> 0, regular |-> 0, beyond |-> 0], pieces)

\* threshold_required: some paid time is not overtime already.
ThresholdRequired(rows) == \E i \in DOMAIN rows : ~Flagged(rows[i])

\* _check_partitions: rows and paid are those of one shift or of all of them.
PartitionsHold(rows, paid, hours, theta) ==
  LET unpaid == Total(rows) - Total(paid)
      union == Cell(rows, TRUE, TRUE) + Cell(rows, TRUE, FALSE) + Cell(rows, FALSE, TRUE)
  IN /\ InState(paid, "ON_BREAK") + unpaid = InState(rows, "ON_BREAK")
     /\ hours.flagged + Total(SelectSeq(rows, Flagged)) - Total(SelectSeq(paid, Flagged)) = union
     /\ hours.regular + hours.beyond + hours.flagged = Total(paid)
     /\ hours.regular <= theta

\* _employee_record: the hours of each shift that began, and those of the day.
EmployeeReconciles(e, paidBreaks, theta) ==
  LET paid == PaidRows(e, paidBreaks)
      walk == PayWalk(paid, theta)
      onDuty == SelectSeq(Intervals(e), LAMBDA s : s.shift # 0)
      ofShift(rows, k) == SelectSeq(rows, LAMBDA s : s.shift = k)
  IN /\ PartitionsHold(onDuty, paid, Pieces(walk, 0), theta)
     /\ \A k \in ShiftsOf(e) :
          Activated(e, k) => PartitionsHold(ofShift(onDuty, k), ofShift(paid, k), Pieces(walk, k), theta)

\* unserved_consistency: at_close.waiting_customer_ids are those whom nobody served before closing.
UnservedConsistent ==
  LET waiting == {c \in Customers : sim.customer[c].start = None \/ sim.customer[c].start >= Closing}
      reason(name) == {c \in Unserved : sim.customer[c].unserved = name}
  IN IF day.policy = "HARD_CUTOFF" THEN reason("no_eligible_employee") = {} /\ Unserved = waiting
     ELSE IF sim.crew # {} THEN Unserved = {}
     ELSE reason("hard_cutoff") = {} /\ Unserved = waiting

-----------------------------------------------------------------------------
(* cost_named_workforce: money *)

\* _component: rate is a set, empty when the rate is not supplied.
Component(quantity, rate, applies) ==
  CASE ~applies -> [status |-> "NOT_APPLICABLE", cost |-> 0]
    [] applies /\ quantity = 0 -> [status |-> "ZERO_QUANTITY", cost |-> 0]
    [] applies /\ quantity # 0 /\ rate = {} -> [status |-> "RATE_MISSING", cost |-> 0]
    [] OTHER -> [status |-> "COSTED", cost |-> quantity * CHOOSE r \in rate : TRUE]

\* The two components of an employee's labor; theta is a set, empty when the threshold is not supplied.
Labor(e, rows, theta, rates) ==
  LET pieces == Pieces(PayWalk(rows, IF theta = {} THEN 0 ELSE CHOOSE m \in theta : TRUE), 0)
  IN IF theta = {} /\ ThresholdRequired(rows)
     THEN {<<e, "regular", [status |-> "HOURS_UNDETERMINED", cost |-> 0]>>,
           <<e, "overtime", [status |-> "HOURS_UNDETERMINED", cost |-> 0]>>}
     ELSE {<<e, "regular", Component(pieces.regular, rates.regular, TRUE)>>,
           <<e, "overtime", Component(pieces.flagged + pieces.beyond, rates.overtime, TRUE)>>}

Components(paidBreaks, theta, rates) ==
  LET unserved == Cardinality(Unserved)
  IN UNION {Labor(e, PaidRows(e, paidBreaks), theta, rates) : e \in Employees}
       \cup {<<0, "waiting", Component(sim.area.within + sim.area.after, rates.waiting, TRUE)>>,
             <<0, "unserved", Component(unserved, rates.unserved, day.policy = "HARD_CUTOFF" \/ unserved > 0)>>}

Withheld(components) == \E c \in components : c[3].status \in {"RATE_MISSING", "HOURS_UNDETERMINED"}

TotalCost(components) == MapThenSumSet(LAMBDA c : c[3].cost, components)

-----------------------------------------------------------------------------
(* Properties *)

DayIsOver == Instants = {}

\* The accounts of a finished day never contradict each other: no check of the attribution or of the
\* cost fails on a record of the engine, and each shift's regular and overtime pay add up to its time.
AccountsReconcile ==
  DayIsOver =>
    /\ Broken(AttributionChecks) = {}
    /\ UnservedConsistent
    /\ \A paidBreaks \in BOOLEAN, e \in Employees : EmployeeReconciles(e, paidBreaks, Threshold)

\* Told from the roster and the shifts and breaks of the machine alone, minute by minute.
PaidMinutes(e, paidBreaks) ==
  {m \in 0 .. Finish - 1 :
     \E k \in ShiftsOf(e) :
       /\ Activated(e, k) /\ emp[e].duty[k].start <= m /\ m < emp[e].duty[k].release
       /\ paidBreaks \/ \A i \in DOMAIN emp[e].rests[k] :
            LET b == emp[e].rests[k][i] IN b.start = None \/ m < b.start \/ m >= b.finish}

\* Neither after closing nor past the end of the shift.
InTime(e, minutes) ==
  {m \in minutes : m < Closing /\ \E k \in ShiftsOf(e) :
     Activated(e, k) /\ emp[e].duty[k].start <= m /\ m < day.roster[e][k].end}

Waited(c) == (IF sim.customer[c].start = None THEN Closing ELSE sim.customer[c].start) - day.arrival[c]

\* cost_named_workforce: a minute is paid as regular time if it comes before closing, before the end of
\* its shift and before the daily threshold is used up, and every other paid minute as overtime; waiting
\* is charged for every minute of every customer.  The total is withheld exactly when a quantity that is
\* not zero has no rate, or when the threshold is missing while some paid minute could be regular.
PayIsCountedByTheMinute ==
  DayIsOver =>
    \A paidBreaks \in BOOLEAN :
      LET paid == [e \in Employees |-> PaidMinutes(e, paidBreaks)]
          inTime == [e \in Employees |-> InTime(e, paid[e])]
          regular == [e \in Employees |->
            Cardinality({m \in inTime[e] : Cardinality({n \in paid[e] : n < m}) < Threshold})]
          quantity ==
            [regular |-> SumFunction(regular),
             overtime |-> SumFunction([e \in Employees |-> Cardinality(paid[e]) - regular[e]]),
             waiting |-> MapThenSumSet(Waited, Customers),
             unserved |-> Cardinality(Unserved)]
          rates(missing) == [c \in DOMAIN Prices |-> IF c = missing THEN {} ELSE {Prices[c]}]
          full == Components(paidBreaks, {Threshold}, rates("none"))
      IN /\ ~Withheld(full)
         /\ TotalCost(full) = SumFunction([c \in DOMAIN Prices |-> Prices[c] * quantity[c]])
         /\ \A c \in DOMAIN Prices :
              Withheld(Components(paidBreaks, {Threshold}, rates(c))) <=> quantity[c] > 0
         /\ Withheld(Components(paidBreaks, {}, rates("none"))) <=> \E e \in Employees : inTime[e] # {}

\* An employee who accepts customers in a minute in which none was planned makes up for a late shift or break.
MakesUp(e, m) ==
  \E k \in ShiftsOf(e) :
    /\ Activated(e, k) /\ emp[e].duty[k].start <= m
    /\ \/ emp[e].duty[k].start > day.roster[e][k].start
       \/ \E i \in DOMAIN emp[e].rests[k] :
            LET b == emp[e].rests[k][i]
            IN day.roster[e][k].breaks[i] <= m /\ (b.start = None \/ b.start > day.roster[e][k].breaks[i])

\* What is reported of a run is one story: the customers' rows, the line the engine measured, the employees'
\* timeline and the roster each tell the same hours, and staff beyond plan is always somebody making up
\* for a delay (_summarize, _staffing, named_replication_row, build_named_playback).
RunIsSummedUp ==
  DayIsOver =>
    \E steps \in {Staffing} : \E row \in {ReplicationRow(Summary, steps, EmployeeValues)} :
      LET customers == row.customers
          staff == row.staffing
          values == row.employees
          being(m) == {c \in Served : sim.customer[c].start <= m /\ m < sim.customer[c].finish}
          sums(part) == MapThenSumSet(LAMBDA i : staff.segments[i][part], DOMAIN Needed)
      IN /\ row.conserved
         /\ customers.unserved = customers.cutOff + customers.notEligible
         /\ customers.afterClosing > 0 => day.policy = "DRAIN" /\ row.drained > 0 /\ row.over > 0
         /\ customers.waited + MapThenSumSet(LAMBDA c : Closing - day.arrival[c], Unserved)
              = customers.queue.within + customers.queue.after
         /\ staff.horizon.busy + staff.after.busy
              = MapThenSumSet(LAMBDA c : sim.customer[c].finish - sim.customer[c].start, Served)
         /\ \A m \in DOMAIN steps :
              /\ steps[m].busy = Cardinality(being(m))
              /\ steps[m].registers \in 0 .. day.registers
              /\ steps[m].waiting > 0 => steps[m].registers = day.registers
              /\ m < Closing =>
                   \A e \in InStates(m, {"AVAILABLE", "SERVING"}) : ActiveAt(day.roster[e], m) \/ MakesUp(e, m)
         /\ \A part \in DOMAIN staff.horizon : sums(part) = staff.horizon[part]
         /\ staff.horizon.excess - staff.horizon.shortfall = staff.horizon.accepting - staff.horizon.scheduled
         /\ SumFunction(values.hours) = Cardinality(Employees) * Finish
         /\ staff.horizon.registers + staff.after.registers
              = MapThenSumSet(LAMBDA state : values.hours[state], Registered)
         /\ values.breaks = values.started + values.unfulfilled
         /\ values.started = values.completed + values.truncated
         /\ values.delay >= 0 /\ values.late >= 0
         /\ PlaybackShown(row).valid /\ PlaybackShown(row).outside = values.hoursAfter

\* A finished day is accounted for once and truly: the accounts agree with each other, with the summary of the run
\* and with the roster, the shifts and the breaks of the engine, told minute by minute (attribute_named_workforce,
\* cost_named_workforce, build_named_playback).
AccountsAreTrue == AccountsReconcile /\ RunIsSummedUp /\ PayIsCountedByTheMinute
=============================================================================
