--------------------------- MODULE SharedPlayback ---------------------------
(***************************************************************************)
(* What is made of a simulated day: the engine's trace and areas, the      *)
(* summary row of the replication (replication_row), and a second reading  *)
(* of the day (replay_events) which sees nothing but the trace, rebuilds   *)
(* the line and the counters from it, and refuses a trace that breaks one  *)
(* of its checks or differs from the summary.  The code replays the trace  *)
(* of a finished run; here every turn of the loop is read as soon as it is *)
(* recorded, which gives the same, the reading being one pass.             *)
(***************************************************************************)
EXTENDS SharedDay, SequencesExt, FiniteSetsExt

VARIABLES
  trace,     \* the events of the last turn
  ledger,    \* areas, longest lines and the last release, as the engine keeps them
  playback   \* what the replay has rebuilt

playedVars == <<vars, trace, ledger, playback>>

After == Closing   \* the area of the time after closing, beside one for each staffing segment

-----------------------------------------------------------------------------
(* The trace *)

Ascending(S) == SetToSortSeq(S, <)
Descending(S) == SetToSortSeq(S, >)

State(s, v) == IF v \in DOMAIN s.server THEN s.server[v].state ELSE "CLOSED"

Event(type, c, v) == [type |-> type, customer |-> c, server |-> v, reason |-> "none"]

Counters(type, ids) == [i \in DOMAIN ids |-> Event(type, 0, ids[i])]

\* The counters whose state was among the ones before the turn and is among the others after it.
Turned(before, after) ==
  {v \in DOMAIN sim'.server : State(sim, v) \in before /\ State(sim', v) \in after}

\* complete
Completed(c) ==
  LET v == sim.customer[c].server
  IN <<Event("service_end", c, v)>>
       \o (IF State(sim, v) = "DRAINING" THEN <<Event("server_drain_complete", c, v)>> ELSE <<>>)

BreaksEnded(ids, reason) == [i \in DOMAIN ids |-> [Event("break_end", 0, ids[i]) EXCEPT !.reason = reason]]

\* apply_capacity: the idle ones are closed first, new numbers are opened last.
Restaffed ==
  Counters("server_close", Descending(Turned({"IDLE"}, {"CLOSED"})))
    \o BreaksEnded(Descending(Turned({"ON_BREAK"}, {"CLOSED"})), "staffing_change")
    \o Counters("server_drain_start", Descending(Turned({"BUSY"}, {"DRAINING"})))
    \o Counters("server_reactivate", Ascending(Turned({"DRAINING"}, {"BUSY"})))
    \o Counters("server_open", Ascending(Turned({"CLOSED"}, {"IDLE", "BUSY", "ON_BREAK"})))
    \o <<Event("capacity_change", 0, 0)>>

\* What the event popped is recorded as, before due breaks and waiting customers get the free counters.
Handled(e) ==
  CASE e.order = Completion -> Completed(e.of)
    [] e.order = Capacity -> Restaffed
    [] e.order = BreakDue -> <<Event("break_due", 0, 0)>>
    [] e.order = Arrival -> <<Event("arrival", e.of, 0)>>
    [] e.order = BreakEnd ->
         LET v == sim.rest[e.of].server
         IN IF sim.server[v].rest = e.of THEN BreaksEnded(<<v>>, "completed") ELSE <<>>

\* start_due_breaks, assign
Started_ ==
  LET rests == Ascending({b \in Breaks : sim.rest[b].start = Never /\ sim'.rest[b].start # Never})
      customers == Ascending({c \in Customers : sim.customer[c].start = Never /\ sim'.customer[c].start # Never})
  IN [i \in DOMAIN rests |-> Event("break_start", 0, sim'.rest[rests[i]].server)]
       \o [i \in DOMAIN customers |-> Event("service_start", customers[i], sim'.customer[customers[i]].server)]

\* The closing, up to those sent away; the last completions of the day come before it.
ClosedFor ==
  LET ending == Ascending({c \in Customers : At(Closing, Completion, c) \in sim.heap})
      away == SelectSeq(sim.line, LAMBDA c : sim'.customer[c].unserved # "no")
  IN FlattenSeq([i \in DOMAIN ending |-> Completed(ending[i])])
       \o <<Event("closing", 0, 0)>>
       \o BreaksEnded(Ascending(With(sim, "ON_BREAK")), "truncated_by_closing")
       \o [i \in DOMAIN sim.pending |-> Event("break_cancelled_at_closing", 0, 0)]
       \o [i \in DOMAIN away |-> Event("unserved_at_close", away[i], 0)]

\* release_idle
Released == Counters("server_close", Ascending(Turned({"IDLE", "BUSY"}, {"CLOSED"})))

\* record: the events of a turn, each with the number waiting right after it.
Recorded(events) ==
  LET leaves(i) == {j \in i + 1 .. Len(events) : events[j].type \in {"service_start", "unserved_at_close"}}
      joins(i) == {j \in i + 1 .. Len(events) : events[j].type = "arrival"}
  IN [i \in DOMAIN events |->
        [type |-> events[i].type, customer |-> events[i].customer, server |-> events[i].server,
         reason |-> events[i].reason,
         line |-> Len(sim'.line) + Cardinality(leaves(i)) - Cardinality(joins(i))]]

-----------------------------------------------------------------------------
(* Areas *)

Untouched == [queue |-> 0, busy |-> 0, present |-> 0, resting |-> 0]

\* mutant: the time between the last event of the day and closing counts as after closing.
ChargedByEnd == IF clock'.closed THEN After ELSE clock.segment

\* The segment, or the time after closing, in force until now.
Charged == IF clock.closed THEN After ELSE clock.segment

\* advance, to the time of the turn
Advanced ==
  LET elapsed == clock'.now - clock.now
      area == ledger.area[Charged]
  IN [ledger.area EXCEPT ![Charged] =
        [queue |-> area.queue + Len(sim.line) * elapsed,
         busy |-> area.busy + Cardinality(With(sim, "BUSY") \cup With(sim, "DRAINING")) * elapsed,
         present |-> area.present + Cardinality({v \in DOMAIN sim.server : State(sim, v) # "CLOSED"}) * elapsed,
         resting |-> IF clock.closed THEN 0 ELSE area.resting + Cardinality(With(sim, "ON_BREAK")) * elapsed]]

\* assign: the longest line left of the segment in force.
Longest ==
  IF clock'.closed THEN ledger.most
  ELSE [ledger.most EXCEPT ![clock'.segment] = Max({@, Len(sim'.line)})]

\* at_close: who waits, is served and is on duty once the services that end at closing have ended.
AtClose ==
  LET last == LastCompletions
  IN [waiting |-> Range(last.line),
      serving |-> {last.server[v].customer : v \in With(last, "BUSY") \cup With(last, "DRAINING")},
      accepting |-> Crew(last)]

Accounted ==
  [area |-> Advanced, most |-> Longest, atClose |-> IF clock.closed THEN ledger.atClose ELSE AtClose,
   release |-> IF clock'.closed /\ \E v \in DOMAIN sim.server : State(sim, v) # "CLOSED" /\ State(sim', v) = "CLOSED"
               THEN clock'.now ELSE ledger.release]

-----------------------------------------------------------------------------
(* The replay *)

Played ==
  [line |-> <<>>, server |-> <<>>, customer |-> <<>>, waitingBreaks |-> 0, closed |-> FALSE, last |-> 0,
   queueIn |-> 0, queueAfter |-> 0, busyIn |-> 0, busyAfter |-> 0, presentIn |-> 0, presentAfter |-> 0,
   release |-> Closing, failed |-> FALSE]

Has(p, v, states) == v \in DOMAIN p.server /\ p.server[v].state \in states

In(p, states) == {v \in DOMAIN p.server : p.server[v].state \in states}

HeadOfLine(p, c) == p.line # <<>> /\ Head(p.line) = c

\* The areas of the time since the last event.
Elapsed(p, t) ==
  LET elapsed == t - p.last
      busy == Cardinality({v \in In(p, {"BUSY", "DRAINING"}) : p.server[v].customer # 0}) * elapsed
      present == Cardinality(DOMAIN p.server \ In(p, {"CLOSED"})) * elapsed
      queue == Len(p.line) * elapsed
  IN IF p.closed
     THEN [p EXCEPT !.last = t, !.queueAfter = @ + queue, !.busyAfter = @ + busy, !.presentAfter = @ + present]
     ELSE [p EXCEPT !.last = t, !.queueIn = @ + queue, !.busyIn = @ + busy, !.presentIn = @ + present]

\* What must be so just before an event; scheduled is the count of the segment it names.
Legal(p, r, t, scheduled) ==
  /\ p.closed => r.type \notin {"arrival", "capacity_change", "server_open", "server_drain_start",
                                "server_reactivate", "closing", "break_due", "break_start"}
  /\ CASE r.type = "arrival" -> r.customer = Len(p.customer) + 1
       [] r.type = "service_start" ->
            /\ HeadOfLine(p, r.customer)
            /\ Has(p, r.server, {"IDLE"})
            /\ ~(p.closed /\ day.policy = "HARD_CUTOFF")
            /\ p.waitingBreaks = 0 \/ p.closed
       [] r.type = "service_end" ->
            Has(p, r.server, {"BUSY", "DRAINING"}) /\ p.server[r.server].customer = r.customer
       [] r.type = "server_drain_complete" -> Has(p, r.server, {"DRAINING_FINISHED"})
       [] r.type = "server_open" -> r.server \in DOMAIN p.server => Has(p, r.server, {"CLOSED"})
       [] r.type = "server_close" -> Has(p, r.server, {"IDLE"})
       [] r.type = "server_drain_start" -> Has(p, r.server, {"BUSY"})
       [] r.type = "server_reactivate" -> Has(p, r.server, {"DRAINING"})
       [] r.type = "capacity_change" -> Cardinality(In(p, {"IDLE", "BUSY", "ON_BREAK"})) = scheduled
       [] r.type = "break_start" -> p.waitingBreaks > 0 /\ Has(p, r.server, {"IDLE"})
       [] r.type = "break_end" -> Has(p, r.server, {"ON_BREAK"})
       [] r.type = "break_cancelled_at_closing" -> p.closed /\ p.waitingBreaks > 0
       [] r.type = "closing" -> t = Closing
       [] r.type = "unserved_at_close" -> HeadOfLine(p, r.customer)
       [] r.type = "break_due" -> TRUE

\* set_state
Become(p, v, state, c) == [p EXCEPT !.server = (v :> [state |-> state, customer |-> c]) @@ @]

\* A counter that stops being present at or after closing is released then.
Leave(p, v, t) == [Become(p, v, "CLOSED", 0) EXCEPT !.release = IF t > @ THEN t ELSE @]

Apply(p, r, t) ==
  LET v == r.server
      c == r.customer
  IN CASE r.type = "arrival" ->
            [p EXCEPT !.line = Append(@, c),
                      !.customer = Append(@, [arrival |-> t, start |-> Never, finish |-> Never, server |-> 0,
                                              status |-> "none"])]
       [] r.type = "service_start" ->
            [Become(p, v, "BUSY", c) EXCEPT !.line = Tail(@), !.customer[c] = [@ EXCEPT !.start = t, !.server = v]]
       [] r.type = "service_end" ->
            [Become(p, v, IF p.server[v].state = "BUSY" THEN "IDLE" ELSE "DRAINING_FINISHED", 0)
               EXCEPT !.customer[c] = [@ EXCEPT !.finish = t, !.status = "departed"],
                      !.release = IF t > @ THEN t ELSE @]
       [] r.type = "server_open" -> Become(p, v, "IDLE", 0)
       [] r.type \in {"server_close", "server_drain_complete"} -> Leave(p, v, t)
       [] r.type = "server_drain_start" -> Become(p, v, "DRAINING", p.server[v].customer)
       [] r.type = "server_reactivate" -> Become(p, v, "BUSY", p.server[v].customer)
       [] r.type = "break_due" -> [p EXCEPT !.waitingBreaks = @ + 1]
       [] r.type = "break_start" -> [Become(p, v, "ON_BREAK", 0) EXCEPT !.waitingBreaks = @ - 1]
       [] r.type = "break_end" ->
            IF r.reason = "completed" THEN Become(p, v, "IDLE", 0) ELSE Leave(p, v, t)
       [] r.type = "break_cancelled_at_closing" -> [p EXCEPT !.waitingBreaks = @ - 1]
       [] r.type = "closing" -> [p EXCEPT !.closed = TRUE]
       [] r.type = "unserved_at_close" ->
            [p EXCEPT !.line = Tail(@), !.customer[c].status = "unserved_at_close"]
       [] r.type = "capacity_change" -> p

\* replay_events, for one event; after a failure nothing more is read.
Read(p, r, t, scheduled) ==
  LET q == Elapsed(p, t)
  IN IF p.failed THEN p
     ELSE IF t < p.last \/ ~Legal(q, r, t, scheduled) THEN [p EXCEPT !.failed = TRUE]
     ELSE LET next == Apply(q, r, t)
              torn == In(next, {"DRAINING_FINISHED"}) # {} /\ r.type # "service_end"
          IN [next EXCEPT !.failed = torn \/ Len(next.line) # r.line]

Replayed(p, events, t, scheduled) == FoldLeft(LAMBDA so, r : Read(so, r, t, scheduled), p, events)

-----------------------------------------------------------------------------
(* The recorded day *)

PlayedInit ==
  /\ Init
  /\ trace = <<>>
  /\ ledger = [area |-> [s \in SegmentStarts \cup {After} |-> Untouched], most |-> [s \in SegmentStarts |-> 0],
               atClose |-> [waiting |-> {}, serving |-> {}, accepting |-> {}], release |-> Closing]
  /\ playback = Played

\* Whatever a turn does is recorded, accounted for and read by the replay.
Keeping(events) ==
  /\ \E those \in {events} : trace' = Recorded(those)
  /\ ledger' = Accounted
  /\ playback' = Replayed(playback, trace', clock'.now, day.staff[clock'.segment])

PlayedNext ==
  \/ CloseDay /\ Keeping(ClosedFor \o Started_ \o Released)
  \/ \E e \in First :
       \/ /\ CompleteService(e) \/ FinishBreak(e) \/ ChangeCapacity(e) \/ BreakIsDue(e) \/ Arrive(e)
          /\ Keeping(Handled(e) \o Started_)
       \/ CompleteAfterClosing(e) /\ Keeping(Completed(e.of) \o Started_ \o Released)

\* One process runs the loop to its end; nothing recorded holds it up.
PlayedSpec == PlayedInit /\ [][PlayedNext]_playedVars /\ WF_vars(Next)

-----------------------------------------------------------------------------
(* The summary of the replication *)

Waits == [c \in Departed |-> sim.customer[c].start - day.arrival[c]]

\* _summarize and replication_row: sums over the segments, and what came after closing.
Row ==
  LET inside(key) == MapThenSumSet(LAMBDA s : ledger.area[s][key], SegmentStarts)
  IN [served |-> Cardinality(Departed), unserved |-> Cardinality(Unserved),
      waitSum |-> SumFunction(Waits),
      queueIn |-> inside("queue"), queueAfter |-> ledger.area[After].queue,
      busyIn |-> inside("busy"), busyAfter |-> ledger.area[After].busy,
      presentIn |-> inside("present"), presentAfter |-> ledger.area[After].present,
      overrun |-> ledger.release - Closing]

\* _check_against_engine: the same from the events.
Derived ==
  LET served == {c \in DOMAIN playback.customer : playback.customer[c].status = "departed"}
      unserved == {c \in DOMAIN playback.customer : playback.customer[c].status = "unserved_at_close"}
      wait(c) == playback.customer[c].start - playback.customer[c].arrival
  IN [served |-> Cardinality(served), unserved |-> Cardinality(unserved),
      waitSum |-> MapThenSumSet(wait, served),
      queueIn |-> playback.queueIn, queueAfter |-> playback.queueAfter,
      busyIn |-> playback.busyIn, busyAfter |-> playback.busyAfter,
      presentIn |-> playback.presentIn, presentAfter |-> playback.presentAfter,
      overrun |-> playback.release - Closing]

\* _unserved_possible: whether the configured closing can leave customers unserved at all.
UnservedPossible == day.policy = "HARD_CUTOFF" \/ FinalStaff = 0 \/ B > 0

\* The customers' rows, as the engine keeps them and as the replay does.
EngineRow(c) ==
  LET row == sim.customer[c]
  IN [arrival |-> day.arrival[c], start |-> row.start,
      finish |-> IF row.departed THEN row.start + day.work[c] ELSE Never,
      server |-> row.server,
      status |-> IF row.departed THEN "departed" ELSE IF row.unserved # "no" THEN "unserved_at_close" ELSE "none"]

Over == clock.closed /\ sim.heap = {}

\* segment_at: a customer belongs to the last segment that starts when it comes or before.
SegmentOf(c) == Max({s \in SegmentStarts : s <= day.arrival[c]})

\* _summarize: the row of a segment counts the customers that came in it, and the hours while it was in force.
SegmentRow(s) ==
  LET rows == {c \in Customers : SegmentOf(c) = s}
      started == rows \cap Started
      hours == Min({t \in SegmentStarts \cup {Closing} : t > s}) - s
  IN [arrivals |-> Cardinality(rows), starts |-> Cardinality(started),
      waited |-> Cardinality({c \in started : Waits[c] > 0}), unserved |-> Cardinality(rows \cap Unserved),
      most |-> ledger.most[s], queue |-> ledger.area[s].queue, busy |-> ledger.area[s].busy,
      present |-> ledger.area[s].present, aboveSchedule |-> ledger.area[s].present - day.staff[s] * hours]

AllSegments(key) == MapThenSumSet(LAMBDA s : SegmentRow(s)[key], SegmentStarts)

\* _summarize: the totals, of the customers of the whole run and of the hours until closing.
TotalsRow ==
  [arrivals |-> N, starts |-> Cardinality(Started), waited |-> Cardinality({c \in Started : Waits[c] > 0}),
   unserved |-> Cardinality(Unserved),
   most |-> Max({ledger.most[s] : s \in SegmentStarts})]

\* _summarize: what came after closing.
ClosingRow ==
  [starts |-> {c \in Started : sim.customer[c].start >= Closing},
   completions |-> {c \in Departed : sim.customer[c].start + day.work[c] > Closing}]

\* _period_utilization: busy and present hours of a segment; undefined where nobody was present.
PeriodUse(s) == {<<area.busy, area.present>> : area \in {a \in {ledger.area[s]} : a.present > 0}}

\* build_playback: a customer as it is shown, from the replay; the reason follows from the policy.
Shown(c) ==
  LET row == playback.customer[c]
  IN [status |-> row.status, arrival |-> row.arrival,
      wait |-> IF row.start = Never THEN Never ELSE row.start - row.arrival,
      reason |-> IF row.status # "unserved_at_close" THEN "no"
                 ELSE IF day.policy = "HARD_CUTOFF" THEN "hard_cutoff" ELSE "no_eligible_server"]

\* _by_period: the customers shown of a demand period; a period starts with one of its segments.
ByPeriod(starts, p) ==
  LET owner(c) == Max({q \in starts : q <= Shown(c).arrival})
      own == {c \in DOMAIN playback.customer : owner(c) = p}
  IN [arrivals |-> Cardinality(own), served |-> Cardinality({c \in own : Shown(c).status = "departed"}),
      unserved |-> Cardinality({c \in own : Shown(c).status # "departed"}),
      waits |-> MapThenSumSet(LAMBDA c : Shown(c).wait, {c \in own : Shown(c).wait # Never})]

-----------------------------------------------------------------------------
(* Properties *)

\* replay_events: no trace of the engine is refused.  Whatever stands in it was legal in its place, first
\* come first served, a due break before a customer, accepting counters as scheduled after every change;
\* and the line, the counters and the customers rebuilt from it are the engine's.
PlaybackRebuildsTheDay ==
  /\ ~playback.failed
  /\ playback.line = sim.line /\ playback.closed = clock.closed /\ playback.waitingBreaks = Len(sim.pending)
  /\ DOMAIN playback.server = DOMAIN sim.server
  /\ \A v \in DOMAIN sim.server :
       playback.server[v] = [state |-> sim.server[v].state, customer |-> sim.server[v].customer]
  /\ \A c \in DOMAIN playback.customer : playback.customer[c] = EngineRow(c)
  /\ Over => Derived = Row

\* The summary of a finished day is about its customers and counters: nobody is lost, the area under the
\* line is the time its customers waited, sent away ones to the end; the area of busy counters is the
\* time served, and that of breaks the time taken; after closing the last counter leaves with the last customer; and
\* customers stay unserved only if the configuration had announced that they may.
SummaryReconciles ==
  Over =>
    /\ Row.served + Row.unserved = N
    /\ Row.queueIn + Row.queueAfter =
         Row.waitSum + MapThenSumSet(LAMBDA c : Closing - day.arrival[c], Unserved)
    /\ Row.busyIn + Row.busyAfter = MapThenSumSet(LAMBDA c : day.work[c], Departed)
    /\ MapThenSumSet(LAMBDA s : ledger.area[s].resting, SegmentStarts) =
         MapThenSumSet(LAMBDA b : sim.rest[b].finish - sim.rest[b].start, {b \in Breaks : sim.rest[b].start # Never})
    /\ Closing + Row.overrun = Max({Closing} \cup {sim.customer[c].start + day.work[c] : c \in Departed})
    /\ Row.unserved > 0 => UnservedPossible

\* The rows of the segments add up to those of the day; nobody is busy without being present, and counters are
\* present for as long as they are scheduled at least, so that drains only ever add hours; a line is reported exactly
\* where somebody waited.  An arrival is recorded in the segment that its row is counted in.
SegmentsAddUp ==
  /\ Over =>
       /\ \A key \in {"arrivals", "starts", "waited", "unserved"} : AllSegments(key) = TotalsRow[key]
       /\ \A s \in SegmentStarts :
            LET row == SegmentRow(s)
            IN /\ row.busy <= row.present /\ row.aboveSchedule >= 0
               /\ \A use \in PeriodUse(s) : use[1] <= use[2]
               /\ PeriodUse(s) = {} => row.busy = 0 /\ row.aboveSchedule = 0
               /\ row.queue > 0 => row.most > 0
       /\ TotalsRow.waited > 0 => TotalsRow.most > 0
  /\ \A i \in DOMAIN trace : trace[i].type = "arrival" => ~clock.closed /\ clock.segment = SegmentOf(trace[i].customer)

\* Whoever waits at closing is served after it or sent away, and only a policy that drains, with somebody on duty,
\* serves anyone then; those who leave after closing are those in service at closing and those served after it.
\* Who is shown as unserved is shown with the engine's own reason.
ClosingIsAccountedFor ==
  Over =>
    /\ ledger.atClose.waiting = ClosingRow.starts \cup Unserved /\ ClosingRow.starts \cap Unserved = {}
    /\ ClosingRow.completions = ledger.atClose.serving \cup ClosingRow.starts
    /\ ClosingRow.starts # {} => day.policy = "DRAIN" /\ ledger.atClose.accepting # {}
    /\ Row.overrun > 0 <=> ClosingRow.completions # {}
    /\ \A c \in Customers : Shown(c).reason = sim.customer[c].unserved

\* Whatever the demand periods are, their customers are those of their segments: everybody is counted once.
PeriodsAddUp ==
  Over =>
    \A starts \in {P \in SUBSET SegmentStarts : 0 \in P} : \A p \in starts :
      LET segments == {s \in SegmentStarts : Max({q \in starts : q <= s}) = p}
          row == ByPeriod(starts, p)
      IN /\ row.arrivals = MapThenSumSet(LAMBDA s : SegmentRow(s).arrivals, segments)
         /\ row.served + row.unserved = row.arrivals
         /\ row.unserved = MapThenSumSet(LAMBDA s : SegmentRow(s).unserved, segments)
         /\ row.waits = MapThenSumSet(LAMBDA c : Waits[c], {c \in Departed : SegmentOf(c) \in segments})

\* What a reader is shown of a day, the replay, the summary and its rows, is the day the engine ran and adds up
\* (replay_events, _summarize, build_playback, _by_period).
ShownDayIsTheDay == PlaybackRebuildsTheDay /\ SummaryReconciles /\ SegmentsAddUp /\ ClosingIsAccountedFor /\ PeriodsAddUp
=============================================================================
