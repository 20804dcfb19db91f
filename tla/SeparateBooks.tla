--------------------------- MODULE SeparateBooks ---------------------------
(***************************************************************************)
(* What the separate-lane engines count while a day runs, the rows they    *)
(* report of it, and what the workflow adds up from these rows: the run    *)
(* of a selected plan, the dashboard and the report of a break placement.  *)
(* A mean is kept as its sum and its count; one of nothing is None.        *)
(***************************************************************************)
EXTENDS SeparateDay

VARIABLE book

bookedVars == <<vars, book>>

NewRow == [arrivals |-> 0, served |-> 0, waits |-> 0, busy |-> 0, longest |-> 0]

BookedInit ==
  /\ Init
  /\ book = [row |-> [x \in Windows \X Lanes |-> NewRow], atClose |-> None]

-----------------------------------------------------------------------------
(* Counting *)

\* customer_process begins: the newcomer is counted where the customer was routed, in the window of the arrival.
Entered ==
  IF Len(sim'.customer) = Len(sim.customer) THEN book
  ELSE LET c == Last(sim'.customer)
       IN [book EXCEPT !.row[<<c.window, c.lane>>] =
             [@ EXCEPT !.arrivals = @ + 1, !.longest = Max({@, Len(sim'.lane[c.lane].waiting)})]]

Begun ==
  LET c == sim.customer[Event.customer]
  IN [book EXCEPT !.row[<<c.window, c.lane>>].waits = @ + Now - c.arrived]

Overlap(from, to, w) == Max({0, Min({to, EndOf(w)}) - Max({from, w})})

\* mutant: a service counts where its customer arrived.
CreditedOnArrival(c, w) == IF w = c.window THEN Now - c.began ELSE 0

\* add_busy: the day engine credits a service to the windows it lies in, the others only to the window of the
\* customer.
Credited(c, w) == IF day.engine = "day" \/ w = c.window THEN Overlap(c.began, Now, w) ELSE 0

Left ==
  LET c == sim.customer[Event.customer]
  IN [book EXCEPT !.row = [x \in DOMAIN @ |->
        IF x[2] # c.lane THEN @[x]
        ELSE [@[x] EXCEPT !.busy = @ + Credited(c, x[1]), !.served = IF x[1] = c.window THEN @ + 1 ELSE @]]]

Summed(rows, F(_)) == FoldLeft(LAMBDA n, x : n + F(x), 0, rows)

TotalOf(field) == MapThenSumSet(LAMBDA x : book.row[x][field], DOMAIN book.row)

\* closing_count waits for the end of the last window from the beginning, and so comes before all else there.
ClosingDue ==
  /\ day.engine = "day" /\ clock.outcome = "running" /\ book.atClose = None
  /\ sim.agenda # <<>> => Now >= DayEnd

CountAtClose ==
  /\ ClosingDue
  /\ book' = [book EXCEPT !.atClose = sim.admitted - TotalOf("served")]
  /\ UNCHANGED vars

BookedNext ==
  \/ CountAtClose
  \/ /\ ~ClosingDue
     /\ \/ (Arrive \/ WakeArrival) /\ book' = Entered
        \/ BeginServing /\ book' = Begun
        \/ EndServing /\ book' = Left
        \/ /\ ChangeWindow \/ RefuseReactivation \/ OpenArrivals \/ ReleaseServer \/ BreakIsDue \/ LaneEmptied
              \/ EndRest \/ Finish
           /\ UNCHANGED book

\* The run is one call: it goes on to its end.
BookedSpec == BookedInit /\ [][BookedNext]_bookedVars /\ WF_bookedVars(BookedNext)

-----------------------------------------------------------------------------
(* Rows *)

IsLast(w) == Later(w) = {}

DayRow(w, q) ==
  LET row == book.row[<<w, q>>]
  IN [time |-> w, lane |-> q, active |-> q \in day.active[w], arrivals |-> row.arrivals, served |-> row.served,
      wait |-> IF row.served = 0 THEN None ELSE row.waits, busy |-> row.busy, longest |-> row.longest,
      waiting |-> 0, inService |-> 0]

\* A run that is cut off at its horizon: those still there are counted in the last window, wherever they came.
HorizonRow(w, q) ==
  IF ~IsLast(w) THEN DayRow(w, q)
  ELSE [DayRow(w, q) EXCEPT !.waiting = Len(sim.lane[q].waiting),
                            !.inService = IF sim.lane[q].serving # Nobody THEN 1 ELSE 0]

LaneRow(w, q) == IF day.engine = "day" THEN DayRow(w, q) ELSE HorizonRow(w, q)

WindowOrder == SetToSortSeq(Windows, <)

\* _run_selected_plan_day_des: a lane that is closed and met nobody is not shown; the other engines show all rows.
Shown(w) ==
  SelectSeq([i \in DOMAIN LaneOrder |-> LaneRow(w, LaneOrder[i])],
            LAMBDA row : day.engine = "day" => row.active \/ row.arrivals > 0)

AllRows == FlattenSeq([i \in DOMAIN WindowOrder |-> Shown(WindowOrder[i])])

\* The engines' customer_conservation: of the whole day, or of every lane over its windows.  Of the period engine it
\* compares the rows among themselves, so a customer no lane took before the horizon is on neither side.
Conserved ==
  IF day.engine = "day" THEN TotalOf("served") = sim.admitted
  ELSE \A q \in Lanes :
         LET mine == SelectSeq(AllRows, LAMBDA row : row.lane = q)
         IN Summed(mine, LAMBDA r : r.arrivals) = Summed(mine, LAMBDA r : r.served + r.waiting + r.inService)

-----------------------------------------------------------------------------
(* Totals *)

\* _wait_and_line: the mean weighted by those served; a row that served nobody has none to add, and one that served
\* somebody without a known wait leaves the mean unknown.
WaitAndLine(rows) ==
  LET counted == SelectSeq(rows, LAMBDA r : r.served > 0)
  IN [wait |-> IF counted = <<>> \/ \E i \in DOMAIN counted : counted[i].wait = None THEN None
               ELSE Summed(counted, LAMBDA r : r.wait),
      served |-> Summed(counted, LAMBDA r : r.served),
      line |-> IF rows = <<>> THEN None ELSE Max({rows[i].longest : i \in DOMAIN rows})]

\* _run_selected_plan_day_des: the run of a selected plan as it is stored, of one day; a day that lost customers makes
\* every period of it an error.
SelectedRun ==
  [periods |-> [w \in Windows |-> [open |-> day.active[w], closed |-> Lanes \ day.active[w], rows |-> Shown(w),
                                   status |-> IF Conserved THEN "FEASIBLE" ELSE "ERROR"]],
   admitted |-> sim.admitted, served |-> TotalOf("served"), atClose |-> book.atClose,
   status |-> IF Conserved THEN "COMPLETED" ELSE "ERROR"]

\* _run_summary: only a continuous day reports customers.
RunSummary ==
  LET continuous == day.engine = "day"
      periods == SelectedRun.periods
  IN [total |-> WaitAndLine(AllRows),
      period |-> [w \in Windows |-> WaitAndLine(periods[w].rows)],
      arrivals |-> IF continuous THEN [w \in Windows |-> Summed(periods[w].rows, LAMBDA r : r.arrivals)] ELSE <<>>,
      admitted |-> IF continuous THEN SelectedRun.admitted ELSE None,
      inSystemAtClose |-> SelectedRun.atClose]

\* summarize_simulation of separate rows, which are those of the parallel engine.
Dashboard ==
  [served |-> Summed(AllRows, LAMBDA r : r.served), arrivals |-> Summed(AllRows, LAMBDA r : r.arrivals),
   waits |-> Summed(SelectSeq(AllRows, LAMBDA r : r.served > 0), LAMBDA r : r.wait),
   left |-> Summed(AllRows, LAMBDA r : r.waiting + r.inService), busy |-> Summed(AllRows, LAMBDA r : r.busy)]

-----------------------------------------------------------------------------
(* Properties *)

Met(w, q) == {c \in DOMAIN sim.customer : sim.customer[c].window = w /\ sim.customer[c].lane = q}

Begins(c) == sim.customer[c].began # None
Leaves(c) == sim.customer[c].left # None

Waited(c) == sim.customer[c].began - sim.customer[c].arrived

\* The time in window w that lane q spends on services that end.
Serving(w, q) ==
  Cardinality({t \in w .. EndOf(w) - 1 :
    \E c \in DOMAIN sim.customer :
      /\ Leaves(c) /\ sim.customer[c].lane = q
      /\ day.engine # "day" => sim.customer[c].window = w
      /\ sim.customer[c].began <= t /\ t < sim.customer[c].left})

\* At the end of a run the books say what its customers met: the row of a lane and window has those who came,
\* who were served and how long they waited, and the time the lane spent serving in that window, so that no
\* stretch of a service that goes on into the next window counts twice or is lost (add_busy).  Those in the
\* system at closing are those who leave later, whatever else happens in the instant of closing
\* (closing_count).  Whoever came is in a row, and the rows balance (customer_conservation), but for one customer
\* of the period engine: the one who still looks for an open lane at the horizon, whom neither the rows nor the
\* check counts.  What the workflow shows and adds up of these rows is the whole run, though it leaves out the
\* closed lanes, because a customer who waited past the end of a period never ends in a lane that was closed then
\* (_run_selected_plan_day_des, _run_summary, summarize_simulation).
BooksAreTrue ==
  clock.outcome = "finished" =>
    LET run == RunSummary
        board == Dashboard
    IN
    /\ \A w \in Windows, q \in Lanes :
         LET row == book.row[<<w, q>>]
         IN /\ row.arrivals = Cardinality(Met(w, q))
            /\ row.served = Cardinality({c \in Met(w, q) : Leaves(c)})
            /\ row.waits = MapThenSumSet(Waited, {c \in Met(w, q) : Begins(c)})
            /\ row.busy = Serving(w, q)
            /\ row.longest = 0 <=> row.arrivals = 0
    /\ day.engine = "day" =>
         /\ book.atClose = Cardinality({c \in DOMAIN sim.customer : sim.customer[c].left >= DayEnd})
         /\ run.total.served = run.admitted
         /\ Summed([i \in DOMAIN WindowOrder |-> run.arrivals[WindowOrder[i]]], LAMBDA n : n) = run.admitted
         /\ SelectedRun.served = SelectedRun.admitted /\ SelectedRun.status = "COMPLETED"
         /\ \A w \in Windows :
              LET period == SelectedRun.periods[w]
              IN {period.rows[i].lane : i \in DOMAIN period.rows} = period.open
    /\ Conserved
    /\ sim.admitted = TotalOf("arrivals") + Cardinality(sim.stalled)
    /\ sim.stalled # {} => day.engine = "period"
    /\ run.total.wait # None =>
         run.total.wait = Summed(SelectSeq([i \in DOMAIN WindowOrder |-> run.period[WindowOrder[i]].wait],
                                                  LAMBDA n : n # None), LAMBDA n : n)
    /\ day.engine = "parallel" =>
         /\ board.arrivals = Len(sim.customer) /\ board.busy = TotalOf("busy")
         /\ board.arrivals = board.served + board.left

=============================================================================
