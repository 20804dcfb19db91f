------------------------------ MODULE NamedDay ------------------------------
(***************************************************************************)
(* simulate_named_prescribed: customers in one line, served by the named   *)
(* employees of a roster.  Each turn of the loop handles one instant, in   *)
(* the approved order X2: completions, closing, shift ends, break ends,    *)
(* breaks due, shift starts, register handovers, arrivals, assignment.     *)
(* The actions are such instants before, at and after closing.             *)
(***************************************************************************)
EXTENDS EmployeeTimeline, SequencesExt

CONSTANTS
  N,         \* how many customers come
  Works,     \* how long services take
  Closing    \* closing_time; the horizon opens at minute 0

ASSUME NamedDayAssumption ==
  /\ N \in Nat
  /\ Works \subseteq Nat \ {0}
  /\ Closing \in Nat \ {0}

Customers == 1 .. N

VARIABLES
  day,      \* the arguments of the run: registers, roster, arrival times, closing policy
  clock,    \* the instant last processed, None before the first, and whether closing has been
  emp,      \* the employees of the machine
  sim,      \* the line and its customers
  record,   \* what the last instant added to the trace and to the machine's transitions
  spans     \* the closed intervals of each employee: a stretch of time in one state

vars == <<day, clock, emp, sim, record, spans>>

Arrivals == {a \in [Customers -> 0 .. Closing - 1] : \A c \in Customers : c > 1 => a[c] >= a[c - 1]}

Days ==
  UNION {[registers : {k}, roster : Rosters(k), arrival : Arrivals, policy : {"DRAIN", "HARD_CUTOFF"}] :
           k \in Registers}

CustomerRow ==
  [by : Employees \cup {0}, start : Time, finish : Time, departed : BOOLEAN,
   unserved : {"no", "hard_cutoff", "no_eligible_employee"}]

TypeOK ==
  /\ day \in Days
  /\ clock \in [now : Time, closed : BOOLEAN]
  /\ emp \in [Employees -> Employee]
  /\ sim \in [line : Seq(Customers), come : 0 .. N, customer : [Customers -> CustomerRow],
              crew : SUBSET Employees, area : [within : Nat, after : Nat], most : 0 .. N]

Init ==
  /\ day \in Days
  /\ clock = [now |-> None, closed |-> FALSE]
  /\ emp = [e \in Employees |-> NewEmployee(day.roster[e])]
  /\ sim = [line |-> <<>>, come |-> 0, crew |-> {}, area |-> [within |-> 0, after |-> 0], most |-> 0,
            customer |-> [c \in Customers |->
              [by |-> 0, start |-> None, finish |-> None, departed |-> FALSE, unserved |-> "no"]]]
  /\ record = <<>>
  /\ spans = [e \in Employees |-> <<>>]

-----------------------------------------------------------------------------
(* Who and when *)

InService(c) == sim.customer[c].by # 0 /\ ~sim.customer[c].departed

\* The candidates for the next instant.
Instants ==
  (UNION {Times(day.roster[e], emp[e]) : e \in Employees})
    \cup (IF clock.closed THEN {} ELSE {Closing})
    \cup (IF sim.come < N THEN {day.arrival[sim.come + 1]} ELSE {})
    \cup {sim.customer[c].finish : c \in {d \in Customers : InService(d)}}

Departing(t) == {c \in Customers : InService(c) /\ sim.customer[c].finish = t}

Finishing(t) == {sim.customer[c].by : c \in Departing(t)}

Arriving(t) == {c \in Customers : c > sim.come /\ day.arrival[c] = t}

\* X1: of those in the first set, who became AVAILABLE earlier; then the lower id.
Before(x, d, e) == x[d].since < x[e].since \/ (x[d].since = x[e].since /\ d < e)

Available(x) == {e \in Employees : x[e].state = "AVAILABLE"}

Completed(t, cancelling) ==
  [e \in Employees |->
    IF e \in Finishing(t) THEN Complete(day.roster[e], emp[e], t, e \in cancelling) ELSE emp[e]]

\* How many of those available in x take a customer before e.
Rank(x, e) == Cardinality({d \in Available(x) : Before(x, d, e)})

\* Those available who take a customer of the line, who waited longest first.
Taking(x, line) == {e \in Available(x) : Rank(x, e) < Len(line)}

\* One pass: each of them takes the first customer left.
Assign(x, line, t, work) ==
  LET taking == Taking(x, line)
      takes(e) == line[Rank(x, e) + 1]
  IN [emp |-> [e \in Employees |-> IF e \in taking THEN [x[e] EXCEPT !.state = "SERVING"] ELSE x[e]],
      line |-> SubSeq(line, Cardinality(taking) + 1, Len(line)),
      served |-> [c \in {takes(e) : e \in taking} |->
                    LET e == CHOOSE d \in taking : takes(d) = c
                    IN [by |-> e, start |-> t, finish |-> t + work[e], departed |-> FALSE, unserved |-> "no"]]]

\* mutant: who comes goes before those waiting.
QueueInFront(line, come) == come \o line

\* The line with those who come now.
Queue(line, come) == line \o come

\* advance: customer-minutes waited up to t, by whether the last instant was before closing.
Area(t) ==
  IF clock.now = None THEN sim.area
  ELSE [sim.area EXCEPT ![IF clock.now >= Closing THEN "after" ELSE "within"] = @ + Len(sim.line) * (t - clock.now)]

-----------------------------------------------------------------------------
(* The record of an instant *)

\* record: a customer's event, with the length of the line after it.
Event(type, c, e, register, length) ==
  [type |-> type, customer |-> c, employee |-> e, register |-> register, line |-> length]

\* _set: an employee's change of state; an event is the stage it belongs to and the two states.
Transition(stage, x, y, e) ==
  [type |-> "transition", stage |-> stage, employee |-> e, from |-> x.state, to |-> y.state,
   before |-> x.register, after |-> y.register]

Stages == <<"completion", "closing_input", "closing_input", "shift_end", "break_end", "break_due",
            "shift_start", "register_handover">>

\* The transitions of the i-th stage, steps[e] being employee e before the first stage and after each.
Transitions(steps, i) ==
  LET moved == {e \in Employees : steps[e][i].state # steps[e][i + 1].state}
      first(d, e) == IF Stages[i] = "register_handover"
                     THEN steps[d][i + 1].register < steps[e][i + 1].register ELSE d < e
      order == SetToSortSeq(moved, first)
  IN [k \in DOMAIN order |-> Transition(Stages[i], steps[order[k]][i], steps[order[k]][i + 1], order[k])]

Completions(t) ==
  LET order == SetToSortSeq(Departing(t), <)
      end(c) == Event("service_end", c, sim.customer[c].by, emp[sim.customer[c].by].register, Len(sim.line))
  IN [k \in DOMAIN order |-> end(order[k])]

\* Customers sent away leave one after the other.
Closed(sentAway) ==
  <<Event("closing", 0, 0, 0, Len(sim.line))>> \o
    [k \in 1 .. Cardinality(sentAway) |-> Event("unserved_at_close", sim.line[k], 0, 0, Len(sim.line) - k)]

Arrived(come, line) == [k \in DOMAIN come |-> Event("arrival", come[k], 0, 0, Len(line) + k)]

\* Every service that starts, as the employee's transition and then the customer's event.
Started(x, queue) ==
  LET order == SetToSortSeq(Taking(x, queue), LAMBDA d, e : Before(x, d, e))
      pair(e, k) == <<Transition("service_start", x[e], [x[e] EXCEPT !.state = "SERVING"], e),
                      Event("service_start", queue[k], e, x[e].register, Len(queue) - k)>>
  IN FlattenSeq([k \in DOMAIN order |-> pair(order[k], k)])

OpenSince(e) == IF spans[e] = <<>> THEN 0 ELSE Last(spans[e]).finish

\* The interval of employee e that is open until t.
Open(e, t) ==
  [start |-> OpenSince(e), finish |-> t, state |-> emp[e].state, register |-> emp[e].register,
   shift |-> emp[e].shift, after |-> clock.closed, past |-> emp[e].shift # 0 /\ emp[e].reached]

\* _flush: at every change of state, at the end of a shift and for everybody at closing.
Flushed(e, steps, t, closed) ==
  LET touched == \/ closed # clock.closed
                 \/ \E i \in 1 .. Len(steps) - 1 : steps[i].state # steps[i + 1].state
                 \/ emp[e].shift # 0 /\ ~emp[e].reached /\ day.roster[e][emp[e].shift].end = t
  IN IF touched /\ t > OpenSince(e) THEN Append(spans[e], Open(e, t)) ELSE spans[e]

-----------------------------------------------------------------------------
(* Instants *)

\* The end of an instant: those available take customers of the queue.  all[e] is employee e before the
\* instant and after each stage up to the handover, which made them ready.
Concluded(ready, queue, all, line, come, sentAway, crew, t, closed) ==
  \E departing \in {Departing(t)}, work \in [Taking(ready, queue) -> Works] :
  \E a \in {Assign(ready, queue, t, work)} :
    /\ emp' = a.emp
    /\ sim' =
         [line |-> a.line, come |-> sim.come + Len(come), crew |-> crew, area |-> Area(t),
          most |-> IF t < Closing THEN Larger(sim.most, Len(a.line)) ELSE sim.most,
          customer |-> [c \in Customers |->
            IF c \in DOMAIN a.served THEN a.served[c]
            ELSE IF c \in departing THEN [sim.customer[c] EXCEPT !.departed = TRUE]
            ELSE IF c \in sentAway
            THEN [sim.customer[c] EXCEPT
                    !.unserved = IF day.policy = "HARD_CUTOFF" THEN "hard_cutoff" ELSE "no_eligible_employee"]
            ELSE sim.customer[c]]]
    /\ record' = Completions(t) \o (IF closed # clock.closed THEN Closed(sentAway) ELSE <<>>)
                   \o FlattenSeq([i \in DOMAIN Stages |-> Transitions(all, i)])
                   \o Arrived(come, line) \o Started(ready, queue)
    /\ spans' = [e \in Employees |-> Flushed(e, Append(all[e], a.emp[e]), t, closed)]
    /\ clock' = [now |-> t, closed |-> closed]
    /\ UNCHANGED day

\* The rest of an instant.  steps[e] is employee e before it, after the completion, after the inputs at
\* closing and after the release of those for whom nobody is left.
Finished(steps, line, sentAway, crew, t, closed) ==
  \E come \in {[k \in 1 .. Cardinality(Arriving(t)) |-> sim.come + k]},
     more \in {[e \in Employees |-> steps[e] \o Scheduled(day.roster[e], Last(steps[e]), t, closed)]} :
  \E ready \in {Handover([e \in Employees |-> Last(more[e])], day.registers, t)}, queue \in {Queue(line, come)} :
  \E all \in {[e \in Employees |-> Append(more[e], ready[e])]} :
    Concluded(ready, queue, all, line, come, sentAway, crew, t, closed)

\* The next instant, as a set that is empty when none is left.
Soonest == IF Instants = {} THEN {} ELSE {Least(Instants)}

ServeInstant ==
  \E t \in Soonest :
    /\ ~clock.closed /\ t < Closing
    /\ \E ended \in {Completed(t, {})} :
         Finished([e \in Employees |-> <<emp[e], ended[e], ended[e], ended[e]>>], sim.line, {}, {}, t, FALSE)

-----------------------------------------------------------------------------
(* Closing *)

\* P5: those accepting customers immediately before closing.
CrewAtClosing ==
  IF day.policy = "DRAIN" THEN {e \in Employees : emp[e].state \in {"AVAILABLE", "SERVING"}} ELSE {}

\* _closing_inputs for one employee: x after the completions, the state before them decides.
ClosingInputs(e, x, t, crew) ==
  LET p == day.roster[e]
  IN IF e \in crew THEN ApplyCancel(x)
     ELSE IF emp[e].state = "SERVING_BREAK_DUE" /\ e \notin Finishing(t)
     THEN ApplyCancel(ApplyRelease(p, x, t))
     ELSE IF emp[e].state = "ON_BREAK"
     THEN EndBreakAtClosing(p, ApplyRelease(p, ApplyCancel(x), t), t)
     ELSE ApplyRelease(p, ApplyCancel(x), t)

\* P5: crew members for whom nobody is left, those who became idle last; who finishes now comes last.
DoneForToday(crew, waiting, t) ==
  LET idle == Available(emp) \cap crew
      done == {e \in Finishing(t) \cap crew : emp[e].state = "SERVING"}
  IN {e \in idle : Cardinality({d \in idle : Before(emp, d, e)}) >= waiting}
       \cup {e \in done : Cardinality(idle) + Cardinality({d \in done : d < e}) >= waiting}

CloseInstant ==
  /\ ~clock.closed /\ Closing \in Soonest
  /\ \E crew \in {CrewAtClosing}, ended \in {Completed(Closing, Employees)} :
     LET sent == IF crew = {} THEN Range(sim.line) ELSE {}
         line == IF crew = {} THEN <<>> ELSE sim.line
         leaving == DoneForToday(crew, Len(line), Closing)
     IN \E told \in {[e \in Employees |-> ClosingInputs(e, ended[e], Closing, crew)]} :
        \E released \in {[e \in Employees |->
           IF e \in leaving THEN ApplyRelease(day.roster[e], told[e], Closing) ELSE told[e]]} :
          Finished([e \in Employees |-> <<emp[e], ended[e], told[e], released[e]>>],
                   line, sent, crew, Closing, TRUE)

\* The crew goes on with the line.
DrainInstant ==
  \E t \in Soonest :
    /\ clock.closed
    /\ \E leaving \in {DoneForToday(sim.crew, Len(sim.line), t)}, ended \in {Completed(t, {})} :
       \E released \in {[e \in Employees |->
           IF e \in leaving THEN ApplyRelease(day.roster[e], ended[e], t) ELSE ended[e]]} :
         Finished([e \in Employees |-> <<emp[e], ended[e], ended[e], released[e]>>],
                  sim.line, {}, sim.crew, t, TRUE)

Next == ServeInstant \/ CloseInstant \/ DrainInstant

Spec == Init /\ [][Next]_vars

-----------------------------------------------------------------------------
(* Properties *)

\* When service c of an employee ends.
Ended(e) == {sim.customer[c].finish : c \in {d \in Customers : sim.customer[d].by = e /\ sim.customer[d].departed}}

\* A break is due at its planned offset from the start the shift really had, or the gap after the
\* break before it, whichever is later; it starts then or when the customer being served leaves,
\* lasts its full length unless closing cuts it, and never starts at closing or later (P2, P3, P7).
BreaksKeepTheirRules ==
  \A e \in Employees : \A k \in DOMAIN emp[e].rests : \A i \in DOMAIN emp[e].rests[k] :
    LET row == emp[e].rests[k][i]
        plan == day.roster[e][k]
        planned == emp[e].duty[k].start + plan.breaks[i] - plan.start
    IN /\ row.due # None =>
            row.due = IF i = 1 THEN planned ELSE Larger(planned, emp[e].rests[k][i - 1].finish + Gap)
       /\ row.start # None =>
            /\ row.start < Closing
            /\ row.start = row.due \/ (row.start > row.due /\ row.start \in Ended(e))
            /\ row.outcome = "completed" => row.finish = row.start + BreakLength
            /\ row.outcome = "truncated_by_closing" =>
                 row.finish = Closing /\ Closing <= row.start + BreakLength
       /\ row.outcome = "none" /\ row.start = None => emp[e].duty[k].release = None

\* A shift starts on time or the rest after the last release, before its own end and before closing;
\* it ends on time, or with the customer or the break in progress then, or not before closing.
ShiftsKeepTheirRules ==
  \A e \in Employees : \A k \in DOMAIN emp[e].duty :
    LET d == emp[e].duty[k]
        plan == day.roster[e][k]
        earlier == {emp[e].duty[j].release : j \in {i \in 1 .. k - 1 : emp[e].duty[i].start # None}}
    IN /\ d.start # None =>
            /\ d.start < plan.end /\ d.start < Closing
            /\ d.start = plan.start \/ \E last \in earlier : d.start = last + RestBetween
            /\ \A last \in earlier : last # None /\ d.start >= last + RestBetween
       /\ d.release # None =>
            \/ d.release = plan.end
            \/ d.release >= Closing
            \/ d.release > plan.end /\
                 (d.release \in Ended(e) \/ \E i \in DOMAIN emp[e].rests[k] : emp[e].rests[k][i].finish = d.release)

\* Approved rules P2, P3 and P7 for breaks and shifts, over whatever delays a day brings (EmployeeTimeline).
RulesAreKept == BreaksKeepTheirRules /\ ShiftsKeepTheirRules

\* No instant left to process has passed, or process would refuse it; and when none is left, closing has
\* been, everybody is off for good and every customer departed, but for those sent away at closing
\* because the policy cuts or nobody was there to drain the line.
TheRunComesToItsEnd ==
  /\ \A t \in Instants : t > clock.now
  /\ Instants = {} =>
       /\ clock.closed
       /\ \A e \in Employees : emp[e].state = "OFF" /\ emp[e].shift = 0
       /\ \A c \in Customers :
            sim.customer[c].departed \/
              (sim.customer[c].unserved # "no" /\ (day.policy = "HARD_CUTOFF" \/ sim.crew = {}))

\* simulate_named_prescribed keeps what a shared line promises.
StillToCome == {c \in Customers : c > sim.come}

BeingServed == {c \in Customers : InService(c)}

Departed == {c \in Customers : sim.customer[c].departed}

SentHome == {c \in Customers : sim.customer[c].unserved # "no"}

Promise == INSTANCE ServiceLine WITH
  coming <- StillToCome, line <- sim.line, serving <- BeingServed, departed <- Departed, unserved <- SentHome,
  closed <- clock.closed

KeepsThePromise == Promise!Spec
=============================================================================
