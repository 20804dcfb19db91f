-------------------------- MODULE EmployeeTimeline --------------------------
(***************************************************************************)
(* The state machine of one named employee: duty, breaks, register.  An    *)
(* operator takes p, the employee's planned shifts, x, the employee, and   *)
(* t, the instant; it gives the employee after one stage of that instant.  *)
(*                                                                         *)
(* What the code refuses with EmployeeTimelineError is the state REFUSED,  *)
(* which no employee should reach.                                         *)
(***************************************************************************)
EXTENDS Workforce

None == -1

Registered == {"AVAILABLE", "SERVING", "SERVING_BREAK_DUE", "SERVING_SHIFT_ENDED"}
Serving == {"SERVING", "SERVING_BREAK_DUE", "SERVING_SHIFT_ENDED"}
BaseStates == {"OFF", "WAITING_FOR_REGISTER", "ON_BREAK"} \cup Registered

Time == Nat \cup {None}

BreakRow ==
  [due : Time, start : Time, finish : Time,
   outcome : {"none", "completed", "truncated_by_closing", "unfulfilled"}]

Employee ==
  [state : BaseStates,
   register : Nat,           \* 0 for none
   wait : Time,              \* wait_start
   since : Time,             \* when the employee last became AVAILABLE
   shift : Nat,              \* the current shift, 0 for none
   next : Nat,               \* the next shift to activate
   last : Time,              \* last_release
   basis : {"none", "scheduled_shift_end", "release_input"},
   reached : BOOLEAN,        \* the end of the current shift has passed
   gone : BOOLEAN,           \* released_for_run
   duty : Seq([start : Time, release : Time]),
   rests : Seq(Seq(BreakRow))]

Larger(a, b) == IF a >= b THEN a ELSE b

Least(S) == CHOOSE x \in S : \A y \in S : x <= y

NewEmployee(p) ==
  [state |-> "OFF", register |-> 0, wait |-> None, since |-> None, shift |-> 0, next |-> 1,
   last |-> None, basis |-> "none", reached |-> FALSE, gone |-> FALSE,
   duty |-> [k \in DOMAIN p |-> [start |-> None, release |-> None]],
   rests |-> [k \in DOMAIN p |-> [i \in DOMAIN p[k].breaks |->
                [due |-> None, start |-> None, finish |-> None, outcome |-> "none"]]]]

-----------------------------------------------------------------------------
(* Scheduled times *)

Unstarted(row) == row.start = None /\ row.outcome = "none"

\* The breaks of the current shift that are still to be taken.
Pending(x) == IF x.shift = 0 THEN {} ELSE {i \in DOMAIN x.rests[x.shift] : Unstarted(x.rests[x.shift][i])}

CurrentBreak(x) ==
  CHOOSE i \in DOMAIN x.rests[x.shift] :
    x.rests[x.shift][i].start # None /\ x.rests[x.shift][i].finish = None

\* mutant: a break that started late ends as if it had started when it was due.
BreakEndAfterDue(x) == x.rests[x.shift][CurrentBreak(x)].due + BreakLength

BreakEnd(x) == x.rests[x.shift][CurrentBreak(x)].start + BreakLength

\* mutant: a break that is due falls due again.
AwaitsBreakAgain(x) == Pending(x) # {} /\ x.basis = "none"

\* A break can still fall due in this shift.
AwaitsBreak(x) ==
  Pending(x) # {} /\ x.basis = "none" /\ x.rests[x.shift][Least(Pending(x))].due = None

\* P3: the planned offset of a break from the actual start of its shift.
PlannedDue(p, x, i) == x.duty[x.shift].start + p[x.shift].breaks[i] - p[x.shift].start

\* _due_time, as a set of at most one instant.
DueTimes(p, x) ==
  IF ~AwaitsBreak(x) THEN {}
  ELSE LET i == Least(Pending(x))
           row == x.rests[x.shift]
       IN IF i = 1 THEN {PlannedDue(p, x, i)}
          ELSE IF row[i - 1].finish = None THEN {}
          ELSE {Larger(PlannedDue(p, x, i), row[i - 1].finish + Gap)}

Activation(p, k, last) == IF last = None THEN p[k].start ELSE Larger(p[k].start, last + RestBetween)

ActivationTimes(p, x) ==
  IF x.shift # 0 \/ x.gone \/ x.next > Len(p) THEN {} ELSE {Activation(p, x.next, x.last)}

\* _employee_times
Times(p, x) ==
  ActivationTimes(p, x) \cup DueTimes(p, x)
    \cup (IF x.shift # 0 /\ ~x.reached THEN {p[x.shift].end} ELSE {})
    \cup (IF x.state = "ON_BREAK" THEN {BreakEnd(x)} ELSE {})

-----------------------------------------------------------------------------
(* Transitions *)

Unfulfilled(rows) ==
  [i \in DOMAIN rows |-> IF Unstarted(rows[i]) THEN [rows[i] EXCEPT !.outcome = "unfulfilled"] ELSE rows[i]]

JoinWait(x, t) == [x EXCEPT !.state = "WAITING_FOR_REGISTER", !.wait = t]

\* Break i of the current shift becomes row.
Noted(x, i, row) == [x.rests EXCEPT ![x.shift][i] = row]

StartBreak(x, t) ==
  LET i == Least(Pending(x))
      row == x.rests[x.shift][i]
  IN [x EXCEPT !.state = "ON_BREAK", !.register = 0, !.wait = None,
               !.rests = Noted(x, i, [row EXCEPT !.due = IF row.due = None THEN t ELSE row.due, !.start = t])]

\* _after_release: the shifts still to come, but for those whose rest from now would reach their end.
LaterShifts(p, x, t) == {k \in x.next .. Len(p) : ~x.gone /\ Activation(p, k, t) < p[k].end}

\* _release: shifts before the next that can begin are given up.
GoOff(p, x, t) ==
  LET later == LaterShifts(p, x, t)
      next == IF later = {} THEN Len(p) + 1 ELSE Least(later)
  IN [x EXCEPT !.state = "OFF", !.register = 0, !.wait = None, !.shift = 0, !.basis = "none",
               !.last = t, !.next = next, !.duty[x.shift].release = t,
               !.rests = [k \in DOMAIN @ |-> IF k < next THEN Unfulfilled(@[k]) ELSE @[k]]]

\* The service of this employee completes; cancelled: the closing input that cancels breaks comes with it.
Complete(p, x, t, cancelled) ==
  CASE x.state = "SERVING" \/ (x.state = "SERVING_BREAK_DUE" /\ cancelled) ->
         [x EXCEPT !.state = "AVAILABLE", !.since = t]
    [] x.state = "SERVING_BREAK_DUE" /\ ~cancelled -> StartBreak(x, t)
    [] x.state = "SERVING_SHIFT_ENDED" -> GoOff(p, x, t)
    [] OTHER -> [x EXCEPT !.state = "REFUSED"]

\* After closing those still there are held past the end of their shift.
ShiftEnd(p, x, t, closed) ==
  LET y == [x EXCEPT !.reached = TRUE]
      due == [y EXCEPT !.basis = "scheduled_shift_end"]
  IN IF x.shift = 0 THEN x
     ELSE IF x.reached \/ p[x.shift].end # t THEN x
     ELSE IF closed \/ x.basis # "none" THEN y
     ELSE IF x.state \in {"AVAILABLE", "WAITING_FOR_REGISTER"} THEN GoOff(p, due, t)
     ELSE IF x.state \in Serving THEN [due EXCEPT !.state = "SERVING_SHIFT_ENDED"]
     ELSE due

EndBreak(p, x, t, outcome) ==
  LET i == CurrentBreak(x)
      y == [x EXCEPT !.rests = Noted(x, i, [x.rests[x.shift][i] EXCEPT !.finish = t, !.outcome = outcome])]
  IN IF x.basis # "none" THEN GoOff(p, y, t) ELSE JoinWait(y, t)

BreakEnds(p, x, t) ==
  IF x.state # "ON_BREAK" THEN x ELSE IF BreakEnd(x) # t THEN x ELSE EndBreak(p, x, t, "completed")

BreakDue(p, x, t) ==
  IF t \notin DueTimes(p, x) THEN x
  ELSE LET i == Least(Pending(x))
           y == [x EXCEPT !.rests = Noted(x, i, [x.rests[x.shift][i] EXCEPT !.due = t])]
       IN CASE x.state \in {"AVAILABLE", "WAITING_FOR_REGISTER"} -> StartBreak(y, t)
            [] x.state = "SERVING" -> [y EXCEPT !.state = "SERVING_BREAK_DUE"]
            [] OTHER -> [y EXCEPT !.state = "REFUSED"]

Activate(p, x, t) ==
  IF t \notin ActivationTimes(p, x) THEN x
  ELSE LET y == [x EXCEPT !.shift = x.next, !.next = @ + 1, !.reached = FALSE, !.duty[x.next].start = t]
       IN IF t \in DueTimes(p, y) THEN StartBreak(y, t) ELSE JoinWait(y, t)

\* The stages of process between the closing inputs and the handover of registers: the employee after each.
Scheduled(p, x, t, closed) ==
  LET ended == ShiftEnd(p, x, t, closed)
      rested == BreakEnds(p, ended, t)
      due == BreakDue(p, rested, t)
  IN <<ended, rested, due, Activate(p, due, t)>>

-----------------------------------------------------------------------------
(* Closing inputs *)

ApplyCancel(x) ==
  [x EXCEPT !.rests = [k \in DOMAIN @ |-> Unfulfilled(@[k])],
            !.state = IF @ = "SERVING_BREAK_DUE" THEN "SERVING" ELSE @]

ApplyRelease(p, x, t) ==
  LET y == [x EXCEPT !.gone = TRUE, !.basis = IF @ = "none" THEN "release_input" ELSE @]
  IN IF x.gone THEN [x EXCEPT !.state = "REFUSED"]
     ELSE IF x.shift = 0
     THEN [x EXCEPT !.gone = TRUE, !.next = Len(p) + 1, !.rests = [k \in DOMAIN @ |-> Unfulfilled(@[k])]]
     ELSE IF x.state \in {"AVAILABLE", "WAITING_FOR_REGISTER"} THEN GoOff(p, y, t)
     ELSE IF x.state \in Serving THEN [y EXCEPT !.state = "SERVING_SHIFT_ENDED"]
     ELSE y

EndBreakAtClosing(p, x, t) ==
  IF x.state = "ON_BREAK" THEN EndBreak(p, x, t, "truncated_by_closing") ELSE [x EXCEPT !.state = "REFUSED"]

-----------------------------------------------------------------------------
(* Registers *)

Held(emp) == {emp[e].register : e \in Employees} \ {0}

\* The longest waiting employee takes the lowest of the free ones of k registers, and so on.
Handover(emp, k, t) ==
  LET free == (1 .. k) \ Held(emp)
      waiting == {e \in Employees : emp[e].state = "WAITING_FOR_REGISTER"}
      before(e) == {d \in waiting : emp[d].wait < emp[e].wait \/ (emp[d].wait = emp[e].wait /\ d < e)}
      takes(e) == {r \in free : Cardinality({q \in free : q < r}) = Cardinality(before(e))}
  IN [e \in Employees |->
        IF e \in waiting /\ takes(e) # {}
        THEN [emp[e] EXCEPT !.state = "AVAILABLE", !.register = Least(takes(e)), !.wait = None, !.since = t]
        ELSE emp[e]]
=============================================================================
