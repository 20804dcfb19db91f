----------------------------- MODULE SegmentDay -----------------------------
(***************************************************************************)
(* The period-by-period engine of a shared line (simulate_segment,         *)
(* _simulate_segments_core): every period of a plan is a simulation of its *)
(* own, with its own counters and random numbers, which begins with the    *)
(* customers the last one left waiting.  Utilization, waits and the line   *)
(* are measured from the end of a warm-up on, and what happens is recorded *)
(* for the playback until the record is full.                              *)
(*                                                                         *)
(* Events are handled in SimPy's order: by time, those of one instant in   *)
(* the order they were scheduled; a customer's first step follows his      *)
(* arrival at once.                                                        *)
(***************************************************************************)
EXTENDS Integers, Sequences, FiniteSets, SequencesExt, FiniteSetsExt, Functions

CONSTANTS
  K,          \* periods
  Hours,      \* how long each is simulated
  Servers,    \* counters a period may have
  Warmups,    \* when the measuring of a period may begin
  Gaps,       \* times between arrivals that may be drawn
  Works,      \* service times that may be drawn
  Overload,   \* queue_overload_threshold
  MaxEvents   \* events the record holds

ASSUME SegmentAssumption ==
  /\ K \in Nat \ {0} /\ Hours \in Nat \ {0} /\ MaxEvents \in Nat /\ Overload \in Nat \ {0}
  /\ Servers \subseteq Nat \ {0}
  /\ Warmups \subseteq 0 .. Hours \div 2
  /\ Gaps \subseteq Nat \ {0} /\ Works \subseteq Nat \ {0}

VARIABLES
  plan,      \* the periods asked for
  carryover, \* whether a period begins with the line of the last
  sim,       \* the period under way: time, agenda, line, counters and monitor
  customer,  \* everyone who has come, in the order of their ids
  rows,      \* the results of the periods done
  record     \* the trace

vars == <<plan, carryover, sim, customer, rows, record>>

Never == -1

\* _validate_segment, simulation_coverage: a period has a counter at least; nobody may be expected in it; one that is
\* not supported is an error.
Periods ==
  [servers : Servers, warmup : Warmups, arrivals : BOOLEAN, supported : BOOLEAN]

TypeOK ==
  /\ plan \in [1 .. K -> Periods] /\ carryover \in BOOLEAN
  /\ sim.now \in 0 .. Hours
  /\ \A c \in DOMAIN customer :
       customer[c].period \in 1 .. K /\ customer[c].start \in {Never} \cup 0 .. Hours
  /\ Len(rows) <= K /\ Len(record.events) <= MaxEvents

-----------------------------------------------------------------------------
(* The period under way *)

\* simulate_segment, before its first event; the customers left over come at once, and in order.
Empty(k) ==
  [period |-> k, now |-> 0, agenda |-> <<>>, line |-> <<>>, users |-> {}, server |-> <<>>, longest |-> 0,
   left |-> 0, served |-> 0, waits |-> 0, seen |-> 0, queueArea |-> 0, busyArea |-> 0]

Now == plan[sim.period]

\* env.timeout, request: an event comes after all those of its time or earlier ones.
Scheduled(s, at, what, of) ==
  [s EXCEPT !.agenda =
     LET sooner == {i \in DOMAIN @ : @[i].at <= at}
     IN InsertAt(@, Cardinality(sooner) + 1, [at |-> at, what |-> what, of |-> of])]

Popped == [sim EXCEPT !.agenda = Tail(@), !.now = Head(sim.agenda).at]

\* mutant: the time since the last record is measured if it ends after the warm-up.
MeasuredFromTheLast(s, now) == IF now > plan[s.period].warmup THEN now - s.seen ELSE 0

\* The part of the time since the last record that lies after the warm-up.
Measured(s, now) == Max({0, now - Max({s.seen, plan[s.period].warmup})})

\* _QueueMonitor.record
Monitored(s, now) ==
  [s EXCEPT !.queueArea = @ + Len(s.line) * Measured(s, now),
            !.busyArea = @ + Cardinality(s.users) * Measured(s, now),
            !.seen = now]

\* What the recorder is given; once it is full nothing more is kept.
Kept(r, event) ==
  IF Len(r.events) < MaxEvents THEN [r EXCEPT !.events = Append(@, event)] ELSE [r EXCEPT !.truncated = TRUE]

\* The same for several events.
AllKept(r, events) ==
  [events |-> SubSeq(r.events \o events, 1, Min({MaxEvents, Len(r.events) + Len(events)})),
   truncated |-> r.truncated \/ Len(r.events) + Len(events) > MaxEvents]

Event(s, type, c, v) ==
  [t |-> (s.period - 1) * Hours + s.now, type |-> type, customer |-> c, server |-> v, line |-> Len(s.line)]

\* Resource._trigger_put: the first in line is granted a counter if one is free, and nobody else; he goes on when
\* his event comes up.
Granted(s) ==
  IF s.line = <<>> \/ Cardinality(s.users) = plan[s.period].servers THEN s
  ELSE Scheduled([s EXCEPT !.line = Tail(@), !.users = @ \cup {Head(s.line)}], s.now, "granted", Head(s.line))

\* mutant: a free counter goes to the newcomer.
JoinedAhead(s, c) ==
  LET m == Monitored(s, s.now)
      t == IF Cardinality(m.users) < plan[m.period].servers
           THEN Scheduled([m EXCEPT !.users = @ \cup {c}], m.now, "granted", c)
           ELSE [m EXCEPT !.line = Append(@, c)]
  IN [t EXCEPT !.longest = Max({@, Len(t.line)})]

\* A request stands in line and grants.
Joined(s, c) ==
  LET m == Monitored(s, s.now)
      t == Granted([m EXCEPT !.line = Append(@, c)])
  IN [t EXCEPT !.longest = Max({@, Len(t.line)})]

NewCustomer(k, now) == [period |-> k, arrival |-> now, start |-> Never, work |-> 0]

-----------------------------------------------------------------------------
(* Steps *)

\* The event that comes up next, if it is still inside the period.
Comes(what) == sim.agenda # <<>> /\ Head(sim.agenda).what = what /\ Head(sim.agenda).at < Hours

\* The next arrival is drawn; one that falls outside the period ends the arrivals.
NextArrival(s, gap) == IF s.now + gap < Hours THEN Scheduled(s, s.now + gap, "arrival", 0) ELSE s

\* _arrival_process: the next arrival is drawn before the customer takes the first step.
Arrive ==
  /\ Comes("arrival")
  /\ LET c == Len(customer) + 1
     IN /\ customer' = Append(customer, NewCustomer(sim.period, Popped.now))
        /\ \E gap \in Gaps : \E s \in {Joined(NextArrival(Popped, gap), c)} :
             /\ sim' = s
             /\ record' = Kept(record, Event(s, "arrival", c, Never))
  /\ UNCHANGED <<plan, carryover, rows>>

\* The lowest number no customer in service has; 0 if there were none.
FreeServer(s) == Min(((0 .. plan[s.period].servers - 1) \ Range(s.server)) \cup {plan[s.period].servers}) % plan[s.period].servers

\* _customer_process, from the grant to the service.
StartService ==
  /\ Comes("granted")
  /\ \E work \in Works :
       LET c == Head(sim.agenda).of
           s == Monitored(Popped, Popped.now)
           v == FreeServer(s)
           counted == s.now >= Now.warmup
       IN /\ sim' = Scheduled([s EXCEPT
                !.server = [d \in DOMAIN @ \cup {c} |-> IF d = c THEN v ELSE @[d]],
                !.served = IF counted THEN @ + 1 ELSE @,
                !.waits = IF counted THEN @ + s.now - customer[c].arrival ELSE @],
                s.now + work, "end", c)
          /\ customer' = [customer EXCEPT ![c] = [@ EXCEPT !.start = s.now, !.work = work]]
          /\ record' = Kept(record, Event(s, "service_start", c, v))
  /\ UNCHANGED <<plan, carryover, rows>>

\* The counter is left at once, and offered to the line when the event of the release comes up.
Released(s, c) ==
  Scheduled([s EXCEPT !.users = @ \ {c}, !.server = Restrict(@, DOMAIN @ \ {c})], s.now, "released", 0)

EndService ==
  /\ Comes("end")
  /\ LET c == Head(sim.agenda).of
         s == Monitored(Popped, Popped.now)
     IN /\ sim' = Released(s, c)
        /\ record' = Kept(record, Event(s, "service_end", c, sim.server[c]))
  /\ UNCHANGED <<plan, carryover, customer, rows>>

\* Other customers may have come or gone since, in the same instant.
OfferCounter ==
  /\ Comes("released")
  /\ sim' = Granted(Popped)
  /\ UNCHANGED <<plan, carryover, customer, rows, record>>

-----------------------------------------------------------------------------
(* Periods *)

NoRow == [simulated |-> FALSE, status |-> "ERROR", initial |-> 0, final |-> 0, served |-> 0, waits |-> 0, longest |-> 0,
          queueArea |-> 0, busyArea |-> 0]

\* What the counters of a period could have served after its warm-up.
Measurable(k) == plan[k].servers * (Hours - plan[k].warmup)

\* utilization_band, of busy hours out of those available.
Band(busy, available) ==
  CASE busy >= available -> "Unstable"
    [] busy < available /\ 10 * busy >= 9 * available -> "Critical"
    [] 10 * busy > 8 * available /\ 10 * busy < 9 * available -> "Peak"
    [] 10 * busy >= 6 * available /\ 10 * busy <= 8 * available -> "Normal"
    [] 10 * busy < 6 * available -> "Lean"

\* _classify_status
Status(s) ==
  LET band == Band(s.busyArea, Measurable(s.period))
  IN IF band # "Unstable" /\ s.longest >= Overload THEN "Critical" ELSE band

RowOf(s) ==
  [simulated |-> TRUE, status |-> Status(s), initial |-> s.left, final |-> Len(s.line), served |-> s.served, waits |-> s.waits,
   longest |-> s.longest, queueArea |-> s.queueArea, busyArea |-> s.busyArea]

\* simulate_segment up to env.run: those left by the period before join one after the other, so the first of them
\* are granted a counter each and the others stand in line.
Begun(k, carry, gap) ==
  LET first == Min({carry, plan[k].servers})
      joined == [Empty(k) EXCEPT
        !.left = carry, !.longest = carry - first,
        !.users = {Len(customer) + i : i \in 1 .. first},
        !.agenda = [i \in 1 .. first |-> [at |-> 0, what |-> "granted", of |-> Len(customer) + i]],
        !.line = [i \in 1 .. carry - first |-> Len(customer) + first + i]]
  IN IF plan[k].arrivals THEN NextArrival(joined, gap) ELSE joined

\* Whom a period passes on.
Carry(row) == IF carryover THEN row.final ELSE 0

\* A period that is not simulated: the model is not supported, or nobody comes.
Skipped(k, carry) == ~plan[k].supported \/ (~plan[k].arrivals /\ carry = 0)

\* _simulate_segments_core: the next period begins with the line of the last.
Begin(k, carry) ==
  IF k > K THEN sim' = [Empty(K) EXCEPT !.now = Hours] /\ UNCHANGED <<customer, record>>
  ELSE IF Skipped(k, carry) THEN sim' = [Empty(k) EXCEPT !.now = Hours] /\ UNCHANGED <<customer, record>>
  ELSE \E gap \in Gaps : \E s \in {Begun(k, carry, gap)} :
         /\ sim' = s
         /\ customer' = customer \o [i \in 1 .. carry |-> NewCustomer(k, 0)]
         /\ record' = AllKept(record, [i \in 1 .. carry |->
              [Event(s, "arrival", Len(customer) + i, Never) EXCEPT !.line = Max({0, i - plan[k].servers})]])

\* env.run until the end of the period, and finalize; events at that very time are not handled.
ClosePeriod ==
  /\ Len(rows) < K
  /\ \A i \in DOMAIN sim.agenda : sim.agenda[i].at >= Hours
  /\ LET row == IF Skipped(sim.period, sim.left) THEN [NoRow EXCEPT !.status = IF plan[sim.period].supported THEN "NORMAL" ELSE @]
            ELSE RowOf(Monitored(sim, Hours))
     IN /\ rows' = Append(rows, row)
        /\ Begin(sim.period + 1, Carry(row))
  /\ UNCHANGED <<plan, carryover>>

Init ==
  /\ plan \in [1 .. K -> Periods] /\ carryover \in BOOLEAN
  /\ rows = <<>>
  /\ customer = <<>>
  /\ record = [events |-> <<>>, truncated |-> FALSE]
  /\ \E gap \in Gaps :
       sim = IF Skipped(1, 0) THEN [Empty(1) EXCEPT !.now = Hours]
             ELSE NextArrival(Empty(1), gap)

Next == Arrive \/ StartService \/ EndService \/ OfferCounter \/ ClosePeriod

Spec == Init /\ [][Next]_vars

\* summarize_simulation: how many periods have each status, and whom they served.
Summary ==
  LET valid == {k \in DOMAIN rows : rows[k].status # "ERROR"}
  IN [count |-> [status \in {"Critical", "Unstable", "Peak", "Normal", "Lean"} |->
                   Cardinality({k \in valid : rows[k].status = status})],
      served |-> SumFunction([k \in DOMAIN rows |-> rows[k].served]),
      queues |-> SumFunction([k \in valid |-> rows[k].longest])]

-----------------------------------------------------------------------------
(* Properties *)

Of(k) == {c \in DOMAIN customer : customer[c].period = k}

\* How much of the time from a to b lies in the measured part of period k.
Within(k, a, b) == Max({0, Min({b, Hours}) - Max({a, plan[k].warmup})})

\* The results of a period are what its customers did: the area under the line is the time they waited after
\* the warm-up and the area of busy counters the time they were served; those counted as served began after it;
\* whoever came has begun service or is left over, and the next period begins with all of them, unless nothing
\* was simulated for it or periods are kept apart.  A period is unstable just when no counter was ever free after the
\* warm-up, and one with a status that may pass never had a long line, nor leaves one to the next; the summary counts
\* every period that was simulated once (_QueueMonitor, _customer_process, _simulate_segments_core,
\* _classify_status, summarize_simulation).
RowsAccountForEveryCustomer ==
  /\ SumFunction(Summary.count) = Cardinality({k \in DOMAIN rows : rows[k].simulated})
  /\ Summary.served = Cardinality({c \in DOMAIN customer :
       customer[c].period \in DOMAIN rows /\ customer[c].start >= plan[customer[c].period].warmup})
  /\ \A k \in DOMAIN rows : rows[k].simulated =>
      LET row == rows[k]
          begun == {c \in Of(k) : customer[c].start # Never}
          counted == {c \in begun : customer[c].start >= plan[k].warmup}
          until(c) == IF c \in begun THEN customer[c].start ELSE Hours
      IN /\ row.queueArea = SumFunction([c \in Of(k) |-> Within(k, customer[c].arrival, until(c))])
         /\ row.busyArea = SumFunction([c \in begun |-> Within(k, customer[c].start, customer[c].start + customer[c].work)])
         /\ row.served = Cardinality(counted)
         /\ row.waits = SumFunction([c \in counted |-> customer[c].start - customer[c].arrival])
         /\ row.final = Cardinality(Of(k) \ begun) /\ row.final <= row.longest
         /\ row.initial = IF k = 1 \/ ~carryover THEN 0 ELSE rows[k - 1].final
         /\ row.initial = Cardinality({c \in Of(k) : customer[c].arrival = 0})
         /\ row.status = "Unstable" <=>
              \A t \in plan[k].warmup .. Hours - 1 :
                Cardinality({c \in begun : customer[c].start <= t /\ t < customer[c].start + customer[c].work}) = plan[k].servers
         /\ row.status \notin {"Unstable", "Critical"} => row.longest < Overload /\ row.final < Overload

\* The line is served in its order; a counter beside which somebody stands in line is being offered in this very
\* instant, one release for each, although a release grants one request only and newcomers may come between, so
\* that nobody stands beside a free counter while time passes or at the end of a period; and the playback shows
\* every customer in service at a counter of his own; the record is a beginning of the day, in the order of time
\* (_customer_process, _TraceRecorder).
LineMovesInOrder ==
  /\ \A k \in 1 .. K : \A b, c \in Of(k) :
       b < c /\ customer[c].start # Never => customer[b].start # Never /\ customer[b].start <= customer[c].start
  /\ sim.line # <<>> =>
       Cardinality({i \in DOMAIN sim.agenda : sim.agenda[i].what = "released" /\ sim.agenda[i].at = sim.now})
         >= Now.servers - Cardinality(sim.users)
  /\ IsInjective(sim.server) /\ Range(sim.server) \subseteq 0 .. Now.servers - 1
  /\ \A i, j \in DOMAIN record.events : i < j => record.events[i].t <= record.events[j].t
  /\ record.truncated => Len(record.events) = MaxEvents
=============================================================================
