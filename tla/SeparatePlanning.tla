-------------------------- MODULE SeparatePlanning --------------------------
(***************************************************************************)
(* One analysis of separate queues and the requests that plan for it:      *)
(* run_separate_optimize judges the scheduled lanes period by period,      *)
(* apply_separate_breaks moves the breaks, and apply_supervisor_schedule   *)
(* does both and writes the moved breaks only when the judgement allows.   *)
(* Between requests the owner may retype a break or upload other data.     *)
(***************************************************************************)
EXTENDS BreakPlacement, LaneSearch

CONSTANTS
  Layouts,       \* how the periods lie in time: "representative", "dated" or "plain"
  Dates,         \* the dates of a dated analysis, in order
  Staffings,     \* the segments the last cashier may work in; the others work in all
  Long, Short,   \* the durations of the configured breaks
  FirstStarts,   \* where the configured breaks may start
  Typed,         \* the starts the owner may type
  Loads,         \* demand of a segment over one cashier's service rate
  Evidences,     \* what the stored rows carry: "samples", "variance", "rates" or "malformed"
  Moves,         \* max_shift_minutes of a request
  MaxPasses,     \* MAX_PLACEMENT_PASSES
  BaseSeed,      \* base_seed
  Stride,        \* DATE_SEED_STRIDE
  TargetRho,     \* target of the break placement, in multiples of 1 / Scale
  MaxBusy,       \* bound: lanes and periods of one day that are busy at once
  MaxEdits       \* bound on retyped breaks and uploads

PlanningConstants ==
  /\ Layouts \subseteq {"representative", "dated", "plain"}
  /\ Evidences \subseteq {"samples", "variance", "rates", "malformed"}
  /\ Long \in Nat \ {0} /\ Short \in Nat \ {0} /\ FirstStarts \subseteq Nat /\ Typed \subseteq Nat /\ Loads \subseteq Nat
  /\ Moves \subseteq Nat /\ Moves # {} /\ IsFiniteSet(Moves) /\ MaxPasses \in Nat \ {0}
  /\ Dates \subseteq Nat /\ Dates # {} /\ BaseSeed \in Nat /\ Stride \in Nat /\ Replications <= Stride
  /\ MaxBusy \in Nat /\ MaxEdits \in Nat

ASSUME PlanningAssumption == PlanningConstants

VARIABLES
  setup,     \* the stored Setup: layout, staffing and breaks
  data,      \* the stored records: load of each segment, evidence, recorded periods
  request,   \* the request in hand, or none
  placing,   \* the schedule of breaks a placement has reached
  runs,      \* the continuous days simulated for this request
  readings,  \* the readings of every period and candidate, one per replication
  answer,    \* the verdict on the schedule
  settled,   \* the move with which the breaks were last placed, if nothing has changed since
  typed,     \* for the properties: the start the owner last typed of each break
  edits

planningVars == <<setup, data, request, placing, runs, readings, answer, settled, typed, edits>>

-----------------------------------------------------------------------------
(* Setup and data *)

Staff(worked) == [s \in Segments |-> {c \in Cashiers : c < Max(Cashiers) \/ s \in worked}]

Day(s, d) == [breaks |-> s.breaks, staffing |-> s.staffing, load |-> d.load]

\* _validate_break_schedule: each break within its cashier's shift, no two of a cashier overlapping.
ValidBreaks(s) ==
  /\ \A i \in DOMAIN s.breaks :
       LET b == s.breaks[i]
           worked == {t \in Segments : b.cashier \in s.staffing[t]}
       IN s.layout # "plain" =>
            \E run \in SUBSET worked :
              /\ run # {} /\ IsOneShift(run)
              /\ Min(run) <= b.start /\ b.start + b.duration <= Max(run) + SegmentLength
  /\ \A i, j \in DOMAIN s.breaks :
       i < j /\ s.breaks[i].cashier = s.breaks[j].cashier =>
         \/ s.breaks[i].start + s.breaks[i].duration <= s.breaks[j].start
         \/ s.breaks[j].start + s.breaks[j].duration <= s.breaks[i].start

\* One break of the last cashier, then two of the first.
BreaksAt(first, second, third) ==
  LET break(c, start, duration) == [cashier |-> c, start |-> start, duration |-> duration, original |-> NoTime]
  IN <<break(Max(Cashiers), first, Long), break(Min(Cashiers), second, Long), break(Min(Cashiers), third, Short)>>

Setups ==
  {s \in [layout : Layouts, staffing : {Staff(w) : w \in Staffings},
          breaks : {BreaksAt(i, j, k) : i, j, k \in FirstStarts} \cup {<<>>}] :
     /\ ValidBreaks(s)
     /\ s.layout = "plain" => \A t \in Segments : s.staffing[t] = Cashiers
     /\ s.layout = "dated" => s.breaks = <<>>}

\* The periods of the stored rows: a date and a segment.
Periods(s) ==
  IF s.layout = "plain" THEN {<<0, Min(Segments)>>}
  ELSE (IF s.layout = "dated" THEN Dates ELSE {0}) \X Segments

\* One date may lack its last segment.
Recordings(s) ==
  {Periods(s)} \cup (IF s.layout = "dated" THEN {Periods(s) \ {<<Max(Dates), Max(Segments)>>}} ELSE {})

\* Demand matters where breaks can be placed, and differs only there.
Records(s) ==
  {d \in [load : [Segments -> Loads], evidence : Evidences, recorded : Recordings(s)] :
     (s.layout = "representative" /\ d.evidence = "samples") \/ \A t \in Segments : d.load[t] = Min(Loads)}

\* One reading for each period and candidate, in the order of the replications.
Candidates(kind, s, p) ==
  LET scheduled == s.staffing[p[2]]
  IN IF kind = "search" THEN {{c \in scheduled : c <= k} : k \in scheduled} ELSE {scheduled}

Tasks(kind, s, d) == UNION {{<<p, active>> : active \in Candidates(kind, s, p)} : p \in d.recorded}

NoRequest == [kind |-> "none", move |-> 0]
NotPlacing == [at |-> <<>>, passes |-> 0, status |-> "none"]
NoAnswer == [overall |-> "none", periods |-> <<>>]

PlanningInit ==
  /\ setup \in Setups
  /\ data \in Records(setup)
  /\ request = NoRequest
  /\ placing = NotPlacing
  /\ runs = <<>> /\ readings = <<>>
  /\ answer = NoAnswer
  /\ settled = NoTime
  /\ typed = BreakStarts(Day(setup, data))
  /\ edits = 0

-----------------------------------------------------------------------------
(* Requests *)

\* slot_inputs_from_setup: what a placement needs.
CanPlace(s) ==
  /\ s.layout = "representative" /\ s.breaks # <<>> /\ data.evidence = "samples"
  /\ \A c \in Cashiers : IsOneShift({t \in Segments : c \in s.staffing[t]})

Ask(kind, move) ==
  /\ request = NoRequest
  /\ kind \in {"breaks", "supervisor"} => CanPlace(setup)
  /\ kind = "search" => setup.layout = "plain"
  /\ request' = [kind |-> kind, move |-> move]
  /\ placing' = IF kind \in {"breaks", "supervisor"}
                THEN [at |-> BreakStarts(Day(setup, data)), passes |-> 0, status |-> "placing"]
                ELSE NotPlacing
  /\ UNCHANGED <<setup, data, runs, readings, answer, settled, typed, edits>>

\* The mutant of AppliedBreaksLowerThePeak: a schedule as busy as before is kept.
IsNoWorse(day, found, at) == Peak(day, found) <= Peak(day, at)

IsBetter(day, found, at) == Peak(day, found) < Peak(day, at)

\* place_breaks: a pass is kept only when it lowers the peak, and the last kept schedule is proposed.
PlacePass ==
  /\ placing.status = "placing"
  /\ LET day == Day(setup, data)
         found == Pass(day, placing.at, request.move)
         kept == found # placing.at /\ IsBetter(day, found, placing.at)
     IN placing' = CASE DOMAIN found # DOMAIN setup.breaks -> [placing EXCEPT !.status = "no start"]
                     [] DOMAIN found = DOMAIN setup.breaks /\ ~kept -> [placing EXCEPT !.status = "settled"]
                     [] OTHER -> [at |-> found, passes |-> placing.passes + 1,
                                  status |-> IF placing.passes + 1 = MaxPasses THEN "capped" ELSE "placing"]
  /\ UNCHANGED <<setup, data, request, runs, readings, answer, settled, typed, edits>>

Placed == placing.status \in {"settled", "capped"}

Moved(i) == placing.at[i] # setup.breaks[i].start

\* A moved break keeps its first anchor; without one, its start before the move becomes the anchor.
Draft ==
  [setup EXCEPT !.breaks =
     [i \in DOMAIN setup.breaks |->
        IF Moved(i) THEN [setup.breaks[i] EXCEPT !.start = placing.at[i], !.original = Anchor(setup.breaks[i])]
        ELSE setup.breaks[i]]]

EndRequest ==
  /\ request' = NoRequest /\ placing' = NotPlacing
  /\ runs' = <<>> /\ readings' = <<>> /\ answer' = NoAnswer

WriteDraft ==
  /\ setup' = Draft
  /\ settled' = IF placing.status = "settled" THEN request.move ELSE NoTime

\* apply_separate_breaks; without moves there is nothing to apply.
ApplyBreaks ==
  /\ request.kind = "breaks" /\ Placed
  /\ IF \E i \in DOMAIN setup.breaks : Moved(i) THEN WriteDraft ELSE UNCHANGED <<setup, settled>>
  /\ EndRequest
  /\ UNCHANGED <<data, typed, edits>>

\* No allowed start: the request is refused.
RefusePlacing ==
  /\ placing.status = "no start"
  /\ EndRequest
  /\ UNCHANGED <<setup, data, settled, typed, edits>>

-----------------------------------------------------------------------------
(* Judging the schedule *)

Judging == request.kind \in {"optimize", "search"} \/ (request.kind = "supervisor" /\ Placed)

\* Breaks need operating segments, and a date needs records for every one of them.
CannotLayOut ==
  \/ setup.layout = "plain" /\ setup.breaks # <<>>
  \/ setup.layout = "dated" /\ data.recorded # Periods(setup)

FullCoverage == request.kind # "search"

\* Representative days and dated days are simulated whole.
Continuous == FullCoverage /\ setup.layout # "plain"

AllTasks == Tasks(request.kind, setup, data)

OpenTasks == {t \in AllTasks : t \notin DOMAIN readings \/ Len(readings[t]) < Replications}

Key(t) == <<t[1][1], t[1][2], Cardinality(t[2])>>

NextTask == CHOOSE t \in OpenTasks : \A u \in OpenTasks \ {t} : Lexicographic(Key(t), Key(u))

ReadingsOf(t) == IF t \in DOMAIN readings THEN readings[t] ELSE <<>>

\* The mutant of OneDayPerSeed: every date uses the replication's own seed.
ReplicationSeed(date, replication) == BaseSeed + replication - 1

\* date_seed: the seed of a date's day for the seed of a replication.
DateSeed(date, replication) ==
  BaseSeed + replication - 1 + Stride * Cardinality({d \in Dates : d < date})

\* What may happen on a day: some lanes are busy in some periods, customers are lost, or the day fails.
PossibleDays(date, replication) ==
  LET places == {q \in data.recorded \X Cashiers : q[1][1] = date /\ q[2] \in setup.staffing[q[1][2]]}
      day(busy, conserved, failed) ==
        [seed |-> DateSeed(date, replication), busy |-> busy, conserved |-> conserved, failed |-> failed]
  IN {day(busy, TRUE, FALSE) : busy \in UNION {kSubset(k, places) : k \in 0 .. MaxBusy}}
       \cup {day({}, FALSE, FALSE), day({}, FALSE, TRUE)}

\* The reading of one period from its day.
ReadDay(run, p, active) ==
  IF run.failed THEN Refused(active, "INVALID_INPUT")
  ELSE Measured(active, {c \in active : <<p, c>> \in run.busy}, run.conserved)

\* A value is stored, for the first time or instead of another.
Stored(f, x, v) == [y \in (DOMAIN f) \cup {x} |-> IF y = x THEN v ELSE f[y]]

Note(t, reading) == readings' = Stored(readings, t, Append(ReadingsOf(t), reading))

\* _day_candidate_runner: the first period of a date to need a replication runs the day; the others read it.
ReplicateDay ==
  /\ Judging /\ ~CannotLayOut /\ Continuous /\ data.evidence = "samples" /\ OpenTasks # {}
  /\ LET t == NextTask
         replication == Len(ReadingsOf(t)) + 1
         key == <<t[1][1], replication>>
     IN \E run \in (IF key \in DOMAIN runs THEN {runs[key]} ELSE PossibleDays(t[1][1], replication)) :
          /\ runs' = Stored(runs, key, run)
          /\ Note(t, ReadDay(run, t[1], t[2]))
  /\ UNCHANGED <<setup, data, request, placing, answer, settled, typed, edits>>

\* evaluate_candidate_with_des: a period simulated by itself.
ReplicatePeriod ==
  /\ Judging /\ ~CannotLayOut /\ ~Continuous /\ data.evidence = "samples" /\ OpenTasks # {}
  /\ LET t == NextTask
     IN \/ \E busy \in UNION {kSubset(k, t[2]) : k \in 0 .. MaxBusy} : Note(t, Measured(t[2], busy, TRUE))
        \/ Note(t, Measured(t[2], {}, FALSE))
  /\ UNCHANGED <<setup, data, request, placing, runs, answer, settled, typed, edits>>

ByFormula(p, stable) ==
  LET available == setup.staffing[p[2]]
  IN Analytical({Formula(data.evidence, stable, active, available) : active \in Candidates(request.kind, setup, p)})

BySimulation(p) == Simulated({Entry(readings[t], t[2]) : t \in {u \in AllTasks : u[1] = p}})

Answer(periods) == answer' = [overall |-> RollUp(periods), periods |-> periods]

\* optimize_separate_schedule returns.
Judge ==
  /\ Judging /\ answer = NoAnswer
  /\ IF CannotLayOut THEN answer' = [overall |-> "INVALID_INPUT", periods |-> <<>>]
     ELSE IF data.evidence = "samples"
     THEN OpenTasks = {} /\ Answer([p \in data.recorded |-> BySimulation(p)])
     ELSE \E stable \in SUBSET data.recorded : Answer([p \in data.recorded |-> ByFormula(p, p \in stable)])
  /\ UNCHANGED <<setup, data, request, placing, runs, readings, settled, typed, edits>>

\* run_separate_optimize answers and forgets.
Show ==
  /\ request.kind \in {"optimize", "search"} /\ answer # NoAnswer
  /\ EndRequest
  /\ UNCHANGED <<setup, data, settled, typed, edits>>

\* What the paired runs of both break schedules may say.
Pairings == {"not longer", "longer", "unavailable", "customers lost"}

AllBelowTarget == \A slot \in Slots : SlotRho(Day(setup, data), placing.at, slot) < TargetRho

\* apply_supervisor_schedule: written only without a blocker.
ApplySupervised ==
  /\ request.kind = "supervisor" /\ answer # NoAnswer
  /\ \E paired \in Pairings :
       IF (\E i \in DOMAIN setup.breaks : Moved(i)) /\ AllBelowTarget /\ paired = "not longer" /\ answer.overall = "COMPLETE"
       THEN WriteDraft ELSE UNCHANGED <<setup, settled>>
  /\ EndRequest
  /\ UNCHANGED <<data, typed, edits>>

-----------------------------------------------------------------------------
(* The owner *)

\* The editor drops the anchor of a break whose start is typed.
TypeStart(i, start) ==
  /\ request = NoRequest /\ edits < MaxEdits
  /\ start # setup.breaks[i].start
  /\ setup' = [setup EXCEPT !.breaks[i].start = start, !.breaks[i].original = NoTime]
  /\ ValidBreaks(setup')
  /\ typed' = [typed EXCEPT ![i] = start]
  /\ settled' = NoTime /\ edits' = edits + 1
  /\ UNCHANGED <<data, request, placing, runs, readings, answer>>

Upload ==
  /\ request = NoRequest /\ edits < MaxEdits
  /\ data' \in Records(setup) \ {data}
  /\ settled' = NoTime /\ edits' = edits + 1
  /\ UNCHANGED <<setup, request, placing, runs, readings, answer, typed>>

PlanningNext ==
  \/ \E kind \in {"breaks", "supervisor"}, move \in Moves : Ask(kind, move)
  \/ \E kind \in {"optimize", "search"} : Ask(kind, 0)
  \/ PlacePass \/ ApplyBreaks \/ RefusePlacing
  \/ ReplicateDay \/ ReplicatePeriod \/ Judge \/ Show \/ ApplySupervised
  \/ \E i \in DOMAIN setup.breaks, start \in Typed : TypeStart(i, start)
  \/ Upload

PlanningSpec == PlanningInit /\ [][PlanningNext]_planningVars

-----------------------------------------------------------------------------
(* Properties *)

\* However often breaks are applied, under whatever demand: the Setup stays one that
\* _validate_break_schedule accepts, a break that was moved stays within the largest
\* window around the start its owner typed, and a placed schedule keeps every break
\* of apply_separate_breaks off the edges of its shift.
MovedBreaksKeepTheRules ==
  /\ ValidBreaks(setup)
  /\ \A i \in DOMAIN setup.breaks :
       LET b == setup.breaks[i]
           shift == ShiftOf(setup.staffing, b.cashier)
       IN /\ b.start - typed[i] \in -Max(Moves) .. Max(Moves)
          /\ settled # NoTime => shift.low + Edge <= b.start /\ b.start + b.duration <= shift.high - Edge

\* place_breaks reaches a fixed point: placed again with the same window, on the same
\* data, nothing moves.
PlacingAgainMovesNothing ==
  Placed /\ settled = request.move => \A i \in DOMAIN setup.breaks : ~Moved(i)

\* Breaks may be placed again and again, after edits and under new data: they settle, where the rules allow
\* (place_breaks, apply_separate_breaks).
BreaksSettleWithinTheRules == MovedBreaksKeepTheRules /\ PlacingAgainMovesNothing

\* A request that moves breaks lowers the busiest slot of the day it was computed for.
AppliedBreaksLowerThePeak ==
  [][setup' # setup /\ request # NoRequest =>
       Peak(Day(setup, data), BreakStarts(Day(setup', data))) < Peak(Day(setup, data), BreakStarts(Day(setup, data)))]_planningVars

\* _day_candidate_runner: all periods of a date read one replication from one day,
\* and no two days of a request share a seed.
OneDayPerSeed ==
  /\ \A t \in DOMAIN readings : Continuous =>
       \A i \in DOMAIN readings[t] : readings[t][i] = ReadDay(runs[<<t[1][1], i>>], t[1], t[2])
  /\ \A k, l \in DOMAIN runs : runs[k].seed = runs[l].seed => k = l

\* A simulated answer rests on a complete search: an optimum is within the target on the
\* mean of every lane, no other such candidate is cheaper, and infeasible means that every
\* candidate of every period was judged.
VerdictsAreProved ==
  (answer.overall \in {"COMPLETE", "INFEASIBLE"} /\ data.evidence = "samples") =>
    /\ \A t \in AllTasks : \A i \in 1 .. Replications : readings[t][i].status = "measured" /\ readings[t][i].conserved
    /\ \A p \in DOMAIN answer.periods :
         LET fits == {t \in AllTasks : t[1] = p /\ \A c \in t[2] :
                        SumFunction([i \in 1 .. Replications |-> readings[t][i].rho[c]]) <= Target * Replications}
             cost(t) == SumFunction([i \in 1 .. Replications |-> readings[t][i].cost])
             best == answer.periods[p].optimum
         IN IF fits = {} THEN answer.periods[p].overall = "INFEASIBLE"
            ELSE /\ answer.periods[p].overall = "OPTIMAL"
                 /\ \E t \in fits : Cardinality(t[2]) = best.lanes /\ cost(t) = best.cost
                 /\ \A t \in fits : best.cost < cost(t) \/ (best.cost = cost(t) /\ best.lanes <= Cardinality(t[2]))
    /\ answer.overall = "COMPLETE" <=> \A p \in DOMAIN answer.periods : answer.periods[p].overall = "OPTIMAL"
=============================================================================
