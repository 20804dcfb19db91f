---------------------------- MODULE SeparateDay ----------------------------
(***************************************************************************)
(* One simulated day of separate lanes, each a queue with its own server.  *)
(* Three engines share these processes:                                    *)
(*   "day"       run_routing_day_des: one stream of customers, routed to   *)
(*               the shortest open lane; lanes open, close and rest        *)
(*   "period"    _run_routing_des: the same over fixed lanes, to a horizon *)
(*   "parallel"  _simulate_parallel_segments_core: a stream for each lane  *)
(*               and segment, no breaks                                    *)
(*                                                                         *)
(* Their processes are SimPy coroutines.  The agenda is SimPy's event      *)
(* queue: a process that waits for a time or was just woken has one entry  *)
(* in it, and of the entries for one instant the oldest is taken first.    *)
(***************************************************************************)
EXTENDS QueueLifecycle, FiniteSets, SequencesExt

CONSTANTS
  Lanes,    \* the configured queues
  N,        \* bound: customers a run admits
  Starts,   \* when the windows start; a window is named by its start
  DayEnd,   \* when the last window ends
  Gaps,     \* times between arrivals
  Works,    \* service times
  RestStarts,  \* when breaks start
  Lengths,  \* break lengths
  B,        \* bound: breaks of one lane
  Cutoff,   \* PRE_BREAK_CUTOFF_MINUTES
  Overrun,  \* how long the day engine goes on after the end
  Engines   \* engines in play

ASSUME DayAssumption ==
  /\ IsFiniteSet(Lanes) /\ Lanes \subseteq Nat /\ IsFiniteSet(Starts)
  /\ N \in Nat /\ B \in Nat /\ Cutoff \in Nat /\ Overrun \in Nat
  /\ DayEnd \in Nat
  /\ 0 \in Starts
  /\ Starts \subseteq 0 .. DayEnd - 1 /\ RestStarts \subseteq 0 .. DayEnd - 1
  /\ Gaps \subseteq Nat \ {0} /\ Works \subseteq Nat \ {0} /\ Lengths \subseteq Nat \ {0}
  /\ Engines \subseteq {"day", "period", "parallel"}

Customers == 1 .. N

None == -1

VARIABLES
  day,     \* the arguments of the run
  clock,   \* env.now and how the run ended, if it did
  sim      \* agenda, lanes, servers, customers, and who waits for what

vars == <<day, clock, sim>>

-----------------------------------------------------------------------------
(* Arguments *)

Rest == [start : RestStarts, length : Lengths]

\* Breaks of one lane do not overlap and end within the operating day.
Rests ==
  {r \in UNION {[1 .. n -> Rest] : n \in 0 .. B} :
     /\ \A i \in DOMAIN r : r[i].start + r[i].length <= DayEnd
     /\ \A i, j \in DOMAIN r : i < j => r[i].start + r[i].length <= r[j].start}

\* sampled: every lane has observed service times for the windows it is scheduled in.
Days ==
  {d \in [engine : Engines, active : [Starts -> (SUBSET Lanes) \ {{}}], rests : [Lanes -> Rests], sampled : BOOLEAN] :
     /\ d.engine = "parallel" => \A q \in Lanes : d.rests[q] = <<>>
     /\ d.engine = "period" =>
          /\ \A w \in Starts : d.active[w] = d.active[0]
          /\ \A q \in Lanes \ d.active[0] : d.rests[q] = <<>>}

Windows == IF day.engine = "period" THEN {0} ELSE Starts

Later(w) == {v \in Windows : v > w}

NextStart(w) == CHOOSE v \in Later(w) : \A u \in Later(w) : v <= u

EndOf(w) == IF Later(w) = {} THEN DayEnd ELSE NextStart(w)

Until == IF day.engine = "day" THEN DayEnd + Overrun ELSE DayEnd

CutoffOf(q, n) ==
  LET start == day.rests[q][n].start IN IF start >= Cutoff THEN start - Cutoff ELSE 0

-----------------------------------------------------------------------------
(* State *)

Events ==
  [who : {"schedule"}, window : Starts]
    \cup [who : {"arrivals"}, lanes : SUBSET Lanes, window : Starts, step : {"open", "gap", "woken"},
          since : Nat]
    \cup [who : {"break"}, lane : Lanes, rest : Nat, step : {"start", "due", "emptied", "over"}]
    \cup [who : {"customer"}, customer : Customers, step : {"granted", "served"}]
    \cup [who : {"release"}, lane : Lanes]

Schedule(w) == [who |-> "schedule", window |-> w]
Arrivals(lanes, w, step, since) ==
  [who |-> "arrivals", lanes |-> lanes, window |-> w, step |-> step, since |-> since]
Controller(q, n, step) == [who |-> "break", lane |-> q, rest |-> n, step |-> step]
Customer(c, step) == [who |-> "customer", customer |-> c, step |-> step]
Release(q) == [who |-> "release", lane |-> q]

CustomerRow == [lane : Lanes, window : Starts, arrived : Nat, began : Nat \cup {None}, left : Nat \cup {None}]

Sim == [agenda : Seq([at : Nat, what : Events]),
        lane : [Lanes -> Lifecycle],
        user : [Lanes -> Nat],          \* who holds the lane's resource
        queue : [Lanes -> Seq(Nat)],    \* who asked for it, the first one first
        customer : Seq(CustomerRow),
        emptying : [Lanes -> Nat],      \* the break whose controller waits for a completion
        stalled : SUBSET Events,        \* the arrival that waits for topology_changed
        admitted : 0 .. N,
        current : Starts,               \* the window whose schedule is in force
        taken : [Lanes -> SUBSET (1 .. B)]]

Outcomes == {"running", "finished", "reactivated", "unsampled", "refused"}

TypeOK ==
  /\ day \in Days
  /\ clock \in [now : Nat, outcome : Outcomes]
  /\ sim \in Sim
  /\ Cardinality(sim.stalled) <= 1

-----------------------------------------------------------------------------
(* SimPy *)

\* An entry for time t goes behind every entry for t or earlier.
At(s, t, event) ==
  LET n == Cardinality({i \in DOMAIN s.agenda : s.agenda[i].at <= t})
  IN [s EXCEPT !.agenda = InsertAt(@, n + 1, [at |-> t, what |-> event])]

\* A free resource goes to the one who asked first.
Grant(s, q, t) ==
  IF s.user[q] # Nobody \/ s.queue[q] = <<>> THEN s
  ELSE At([s EXCEPT !.user[q] = Head(s.queue[q]), !.queue[q] = Tail(@)],
          t, Customer(Head(s.queue[q]), "granted"))

\* signal: an arrival that waits for topology_changed goes on.
Signal(s, t) ==
  IF s.stalled = {} THEN s
  ELSE At([s EXCEPT !.stalled = {}], t, CHOOSE e \in s.stalled : TRUE)

-----------------------------------------------------------------------------
(* Breaks *)

\* The lane rests if nobody is left; else its controller waits for the next completion.
RestIfEmpty(s, q, n, t) ==
  IF Occupied(s.lane[q]) THEN [s EXCEPT !.emptying[q] = n]
  ELSE At(Signal([s EXCEPT !.lane[q] = BeginBreak(@), !.taken[q] = @ \cup {n}], t),
          t + day.rests[q][n].length, Controller(q, n, "over"))

\* break_controller from its n-th break on; a lane that is off shift skips breaks.
Continue(s, q, n, t) ==
  LET next == {m \in n .. Len(day.rests[q]) : CutoffOf(q, m) > t \/ s.lane[q].state # "INACTIVE"}
      m == Min(next)
  IN IF next = {} THEN s
     ELSE IF CutoffOf(q, m) > t THEN At(s, CutoffOf(q, m), Controller(q, m, "due"))
     ELSE RestIfEmpty(Signal([s EXCEPT !.lane[q] = BeginDraining(@)], t), q, m, t)

Resting(l) == l.pending \/ l.state = "ON_BREAK"

\* apply_schedule: the controller of a lane's break applies it when the rest ends.
Scheduled(s, q) ==
  IF Resting(s.lane[q]) \/ day.engine = "period" THEN s.lane[q]
  ELSE TransitionForSegment(s.lane[q], q \in day.active[s.current])

-----------------------------------------------------------------------------
(* Arrivals *)

\* Customers that came and customers on their way.
Coming(s) ==
  s.admitted + Cardinality({i \in DOMAIN s.agenda :
                              s.agenda[i].what.who = "arrivals" /\ s.agenda[i].what.step = "gap"})

\* arrival_process draws the time of its next customer: what may become of s.
Draws(s, lanes, w, t) ==
  LET open == {v \in Windows : v >= w /\ t < EndOf(v)}
      v == Min(open)
      gaps == IF Coming(s) < N THEN {g \in Gaps : t + g < EndOf(v)} ELSE {}
      parallel == day.engine = "parallel"
  IN IF open = {} \/ (parallel /\ w \notin open) THEN {s}
     ELSE IF t < v THEN {At(s, v, Arrivals(lanes, v, "open", 0))}
     ELSE {At(s, t + g, Arrivals(lanes, v, "gap", 0)) : g \in gaps}
            \cup {IF parallel THEN s ELSE At(s, EndOf(v), Arrivals(lanes, v, "open", 0))}

Open(s, lanes) == {q \in lanes : AcceptsArrivals(s.lane[q])}

SystemSize(l) == Len(l.waiting) + (IF l.serving # Nobody THEN 1 ELSE 0)

\* route_arrival: the open lanes with the fewest customers; ties are drawn.
Shortest(s, lanes) ==
  {q \in Open(s, lanes) : \A p \in Open(s, lanes) : SystemSize(s.lane[q]) <= SystemSize(s.lane[p])}

\* The next customer joins lane q: its process starts once the arrival process has drawn again.
Joins(s, q, a, t) ==
  LET c == Len(s.customer) + 1
      arrived == IF day.engine = "period" THEN t ELSE a.since
      row == [lane |-> q, window |-> a.window, arrived |-> arrived, began |-> None, left |-> None]
      joined == [s EXCEPT !.lane[q] = Enqueue(@, c), !.customer = Append(@, row)]
  IN {Grant([x EXCEPT !.queue[q] = Append(@, c)], q, t) : x \in Draws(joined, a.lanes, a.window, t)}

-----------------------------------------------------------------------------
(* The run *)

\* The members of a set of numbers, in their order.
InOrder(S) ==
  CHOOSE f \in [1 .. Cardinality(S) -> S] : \A i, j \in 1 .. Cardinality(S) : i < j => f[i] < f[j]

LaneOrder == InOrder(Lanes)

\* Parallel streams of customers: window by window, in the order of the setup.
Streams ==
  LET windows == InOrder(Starts)
  IN [i \in 1 .. Len(windows) * Len(LaneOrder) |->
        LET w == windows[((i - 1) \div Len(LaneOrder)) + 1]
        IN [at |-> w, what |-> Arrivals({LaneOrder[((i - 1) % Len(LaneOrder)) + 1]}, w, "open", 0)]]

\* The processes in the order they are created, each with its first wait.
Processes ==
  (IF Later(0) = {} THEN <<>> ELSE <<[at |-> NextStart(0), what |-> Schedule(NextStart(0))]>>)
  \o [i \in DOMAIN LaneOrder |-> [at |-> 0, what |-> Controller(LaneOrder[i], 1, "start")]]
  \o IF day.engine = "parallel" THEN Streams ELSE <<[at |-> 0, what |-> Arrivals(Lanes, 0, "open", 0)]>>

\* Only a lane with breaks has a controller, and only an active one a stream of its own.
Runs(e) ==
  /\ e.who = "break" => day.rests[e.lane] # <<>>
  /\ e.who = "arrivals" /\ day.engine = "parallel" => e.lanes \subseteq day.active[e.window]

Launched(s, processes) ==
  LET first[n \in 0 .. Len(processes)] ==
        IF n = 0 THEN s
        ELSE LET x == first[n - 1]
                 p == processes[n]
             IN IF Runs(p.what) THEN At(x, p.at, p.what) ELSE x
  IN first[Len(processes)]

Init ==
  /\ day \in Days
  /\ clock = [now |-> 0, outcome |-> IF day.sampled THEN "running" ELSE "refused"]
  /\ sim = Launched([agenda |-> <<>>,
                     lane |-> [q \in Lanes |-> New(IF q \in day.active[0] THEN "ACTIVE" ELSE "INACTIVE")],
                     user |-> [q \in Lanes |-> Nobody],
                     queue |-> [q \in Lanes |-> <<>>],
                     customer |-> <<>>,
                     emptying |-> [q \in Lanes |-> 0],
                     stalled |-> {},
                     admitted |-> 0,
                     current |-> 0,
                     taken |-> [q \in Lanes |-> {}]], Processes)

Event == Head(sim.agenda).what
Now == Head(sim.agenda).at
Popped == [sim EXCEPT !.agenda = Tail(@)]

\* The next event is one of who's.
Turn(who) ==
  /\ clock.outcome = "running"
  /\ sim.agenda # <<>>
  /\ Now < Until
  /\ Event.who = who

Goes(outcome) ==
  /\ clock' = [now |-> Now, outcome |-> outcome]
  /\ UNCHANGED day

Becomes(s) == Goes("running") /\ sim' = s

\* schedule_controller and transition_process: the next window's lanes open and close.
ChangeWindow ==
  /\ Turn("schedule")
  /\ \A q \in Lanes : Resting(sim.lane[q]) \/ ~Refuses(sim.lane[q], q \in day.active[Event.window])
  /\ \E w \in {Event.window} : \E x \in {[Popped EXCEPT !.current = w]} :
       \E s \in {Signal([x EXCEPT !.lane = [q \in Lanes |-> Scheduled(x, q)]], Now)} :
         Becomes(IF Later(w) = {} THEN s ELSE At(s, NextStart(w), Schedule(NextStart(w))))

\* A lane still draining is scheduled active again: the run is given up.
RefuseReactivation ==
  /\ Turn("schedule")
  /\ \E q \in Lanes : ~Resting(sim.lane[q]) /\ Refuses(sim.lane[q], q \in day.active[Event.window])
  /\ Goes("reactivated")
  /\ UNCHANGED sim

OpenArrivals ==
  /\ Turn("arrivals") /\ Event.step = "open"
  /\ \E s \in Draws(Popped, Event.lanes, Event.window, Now) : Becomes(s)

\* A customer comes, or the one who waited for an open lane looks again; s counts the customer.
Route(s, a) ==
  \/ \E q \in Shortest(s, a.lanes) :
       IF day.engine = "day" /\ q \notin day.active[a.window]
       THEN Goes("unsampled") /\ sim' = s
       ELSE \E x \in Joins(s, q, a, Now) : Becomes(x)
  \/ /\ Open(s, a.lanes) = {}
     /\ Becomes([s EXCEPT !.stalled = {[a EXCEPT !.step = "woken"]}])

\* A lane's own stream lets a customer go who finds the lane not accepting.
Arrive ==
  /\ Turn("arrivals") /\ Event.step = "gap"
  /\ IF day.engine = "parallel" /\ Open(sim, Event.lanes) = {}
     THEN \E s \in Draws(Popped, Event.lanes, Event.window, Now) : Becomes(s)
     ELSE Route([Popped EXCEPT !.admitted = @ + 1], [Event EXCEPT !.since = Now])

WakeArrival ==
  /\ Turn("arrivals") /\ Event.step = "woken"
  /\ Route(Popped, Event)

BeginServing ==
  /\ Turn("customer") /\ Event.step = "granted"
  /\ \E c \in {Event.customer}, work \in Works : \E q \in {sim.customer[c].lane} :
       Becomes(At([Popped EXCEPT !.lane[q] = BeginService(@), !.customer[c].began = Now],
                  Now + work, Customer(c, "served")))

\* The lane closes if it was draining and is empty now; a waiting break controller is woken.
EndServing ==
  /\ Turn("customer") /\ Event.step = "served"
  /\ \E c \in {Event.customer} : \E q \in {sim.customer[c].lane} : \E n \in {sim.emptying[q]} :
     \E x \in {[Popped EXCEPT !.lane[q] = CompleteService(@), !.customer[c].left = Now,
                              !.emptying[q] = 0, !.user[q] = Nobody]} :
     \E s \in {IF day.engine = "day" /\ x.lane[q].state = "INACTIVE" THEN Signal(x, Now) ELSE x} :
       Becomes(At(IF n = 0 THEN s ELSE At(s, Now, Controller(q, n, "emptied")), Now, Release(q)))

\* mutant: a released server waits to be asked again.
ReleaseServerUnasked == Turn("release") /\ Becomes(Popped)

ReleaseServer == Turn("release") /\ Becomes(Grant(Popped, Event.lane, Now))

BreakIsDue ==
  /\ Turn("break") /\ Event.step \in {"start", "due"}
  /\ Becomes(Continue(Popped, Event.lane, Event.rest, Now))

LaneEmptied ==
  /\ Turn("break") /\ Event.step = "emptied"
  /\ Becomes(RestIfEmpty(Popped, Event.lane, Event.rest, Now))

\* mutant: after its rest a lane is open whatever the schedule says.
EndRestOpen ==
  /\ Turn("break") /\ Event.step = "over"
  /\ \E q \in {Event.lane} : \E x \in {[Popped EXCEPT !.lane[q] = EndBreak(@)]} :
       Becomes(Continue(Signal(x, Now), q, Event.rest + 1, Now))

EndRest ==
  /\ Turn("break") /\ Event.step = "over"
  /\ \E q \in {Event.lane} : \E x \in {[Popped EXCEPT !.lane[q] = EndBreak(@)]} :
       Becomes(Continue(Signal([x EXCEPT !.lane[q] = Scheduled(x, q)], Now), q, Event.rest + 1, Now))

Finish ==
  /\ clock.outcome = "running"
  /\ sim.agenda # <<>> => Now >= Until
  /\ clock' = [now |-> Until, outcome |-> "finished"]
  /\ UNCHANGED <<day, sim>>

Next ==
  \/ ChangeWindow \/ RefuseReactivation
  \/ OpenArrivals \/ Arrive \/ WakeArrival
  \/ BeginServing \/ EndServing \/ ReleaseServer
  \/ BreakIsDue \/ LaneEmptied \/ EndRest
  \/ Finish

Spec == Init /\ [][Next]_vars

\* The run is one call: it goes on to its end.
FairSpec == Spec /\ WF_vars(Next)

-----------------------------------------------------------------------------
(* Properties *)

\* Outside a rest and its preparation a lane is open exactly when the schedule in force has it, a
\* closing lane has customers to finish, and a closed or resting lane has none (apply_schedule, the
\* controllers of breaks and windows, complete_service).  A lane that is to rest and has nobody left rests
\* in that instant: its controller was not left waiting for a completion that already came
\* (pending_completion).  A customer waits outside the lanes only while no lane is open (topology_changed).
LanesFollowTheSchedule ==
  /\ sim.stalled # {} => Open(sim, Lanes) = {}
  /\ \A q \in Lanes :
       LET l == sim.lane[q]
       IN /\ ~Resting(l) => (l.state = "ACTIVE" <=> q \in day.active[sim.current])
          /\ l.state = "DRAINING" /\ ~l.pending => Occupied(l)
          /\ l.state \in {"INACTIVE", "ON_BREAK"} => ~Occupied(l)
          /\ l.pending /\ ~Occupied(l) /\ l.state # "ON_BREAK" =>
               \E i \in DOMAIN sim.agenda :
                 /\ sim.agenda[i].at = clock.now
                 /\ \E n \in DOMAIN day.rests[q] : sim.agenda[i].what = Controller(q, n, "emptied")

\* A run ends; if it was not given up, and the engine is not cut off by its horizon, every customer
\* admitted has been served ("service continues until every admitted customer is served").
DayServesEveryone ==
  <>(/\ clock.outcome # "running"
     /\ clock.outcome = "finished" /\ day.engine = "day" =>
          /\ sim.stalled = {}
          /\ \A c \in DOMAIN sim.customer : sim.customer[c].left # None
          /\ sim.admitted = Len(sim.customer))

================================================================================
