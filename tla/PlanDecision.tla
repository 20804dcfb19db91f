---------------------------- MODULE PlanDecision ----------------------------
(***************************************************************************)
(* From a plan to its Decision.  A shared plan is optimised period by      *)
(* period; it is then checked either period by period (a simulation and    *)
(* Monte Carlo trials of every period) or by a full-day run and Monte      *)
(* Carlo trials.  A separate plan names the open lanes of every period and *)
(* is checked lane by lane; so is what a separate analysis does today.     *)
(* Simulations and trials are external: they end as they end.  Which run   *)
(* is current evidence, and for what, is EvidenceChain's matter.           *)
(***************************************************************************)
EXTENDS Capacity

CONSTANTS
  Periods,     \* the periods, 1 .. n
  Demands,     \* customers per minute
  Staffs,      \* counters open today
  Limit,       \* max_servers
  WaitRate,    \* customer_waiting_cost
  Lanes,       \* the queues of a separate analysis
  Trials,      \* num_trials
  MaxWorkload, \* MC_MAX_COUNTER_TRIALS
  Unit,        \* a rate is shown as a multiple of 1 / Unit (round(failure_rate, 4))
  Cap,         \* failure_rate_cap, as a multiple of 1 / Unit
  Outcomes     \* how the trials of a row may end: failures, and whether their interval is narrow enough

ASSUME PlanDecisionAssumption ==
  /\ IsFiniteSet(Periods) /\ Periods = 1 .. Cardinality(Periods)
  /\ Demands \subseteq Nat /\ Staffs \subseteq Nat \ {0}
  /\ Limit \in Nat \ {0} /\ WaitRate \in Nat /\ MaxWorkload \in Nat /\ Trials \in Nat \ {0} /\ Unit \in Nat \ {0} /\ Cap \in 0 .. Unit
  /\ Outcomes \subseteq [failures : 0 .. Trials, adequate : BOOLEAN]

VARIABLES
  plan,        \* what is planned: demand, today's counters, service times; or the open lanes
  stage,       \* how far the plan has come
  rows,        \* the optimised periods of a shared plan
  simulated,   \* the simulation
  varied,      \* the Monte Carlo rows
  decision

vars == <<plan, stage, rows, simulated, varied, decision>>

\* What is known of a period's service times: nothing but the mean; their variance; the recorded times as well.
Kinds == {"exponential", "variance", "recorded"}

Lines == [structure : {"shared"}, demand : [Periods -> Demands], staff : [Periods -> Staffs],
          kind : [Periods -> Kinds]]

Schedules == [structure : {"separate", "today"}, active : [Periods -> (SUBSET Lanes) \ {{}}]]

\* What is asked of the trials: a row for every period, or for every open lane of a period.
Entities ==
  IF plan.structure = "shared" THEN Periods \X {None}
  ELSE {p \in Periods \X Lanes : p[2] \in plan.active[p[1]]}

TypeOK ==
  /\ plan \in Lines \cup Schedules
  /\ stage \in {"asked", "planned", "simulated", "varied", "decided", "refused"}
  /\ DOMAIN decision = {"status", "failed"} /\ decision.failed \subseteq Entities

-----------------------------------------------------------------------------
(* The optimiser of a shared plan *)

\* mgc: fixed service times halve the wait, exponential ones leave it.
WaitingLine(kind, d, c) == IF kind = "exponential" THEN Lq(d, c) ELSE Lq(d, c) \div 2

\* _eval_cost: what a count is refused for; nothing else is allowed to refuse it.
Admits(kind, d, c) ==
  /\ Stable(d, c)
  /\ 100 * d <= TargetPercent * c * ServiceRate
  /\ WaitingLine(kind, d, c) <= MaxWait * d

\* Counters and waiting of a period; an overloaded line has no finite waiting cost.
CostOf(kind, d, c) ==
  IF Stable(d, c) THEN Scale * ServerCost * c + WaitRate * WaitingLine(kind, d, c) ELSE None

\* mutant: the fewest counters that will do.
BestFewest(kind, d) ==
  LET feasible == {c \in MinServers .. Limit : Admits(kind, d, c)}
  IN IF feasible = {} THEN None ELSE Min(feasible)

\* optimize_segment: the cheapest count that keeps the limits; of equally cheap ones the fewest counters.
Best(kind, d) ==
  LET feasible == {c \in MinServers .. Limit : Admits(kind, d, c)}
      cheapest == {c \in feasible : \A b \in feasible : CostOf(kind, d, c) <= CostOf(kind, d, b)}
  IN IF feasible = {} THEN None ELSE Min(cheapest)

Row(k) ==
  LET kind == plan.kind[k]
      d == plan.demand[k]
      best == Best(kind, d)
  IN [best |-> best, now |-> plan.staff[k], stable |-> Stable(d, plan.staff[k]),
      costNow |-> CostOf(kind, d, plan.staff[k]),
      costBest |-> IF best = None THEN None ELSE CostOf(kind, d, best)]

\* optimize_segments; a plan with a period no count will do for cannot be saved and selected.
Optimise ==
  /\ stage = "asked"
  /\ rows' = [k \in Periods |-> Row(k)]
  /\ stage' = IF \A k \in Periods : rows'[k].best # None THEN "planned" ELSE "refused"
  /\ UNCHANGED <<plan, simulated, varied, decision>>

-----------------------------------------------------------------------------
(* Evidence *)

\* simulation_coverage: a general service time is simulated only from its recorded times.
Supported(k) == plan.structure # "shared" \/ plan.kind[k] # "variance"

\* How a simulation of every period by itself ends: in the busy ones a line grew too long, or the counters were too busy.
Ends(k, busy) == IF ~Supported(k) THEN "error" ELSE IF k \in busy THEN "critical" ELSE "normal"

Busy == SUBSET {k \in Periods : Supported(k)}

\* run_des: the run that is shown and that the Decision cites.
SimulatePeriods ==
  /\ stage = "planned" /\ plan.structure = "shared"
  /\ \E busy \in Busy : simulated' = [basis |-> "periods", cited |-> [k \in Periods |-> Ends(k, busy)]]
  /\ stage' = "simulated"
  /\ UNCHANGED <<plan, rows, varied, decision>>

\* create_continuous_run with a selected plan: the mean of every period's utilisation over the repeats, where a
\* period is reported.
SimulateDay ==
  /\ stage = "planned" /\ plan.structure = "shared"
  /\ \E use \in [Periods -> {"within", "above", "missing"}] : simulated' = [basis |-> "day", use |-> use]
  /\ stage' = "simulated"
  /\ UNCHANGED <<plan, rows, varied, decision>>

\* _run_selected_plan_des: the run of a period accounts for its customers, or does not.
SimulateLanes ==
  /\ stage = "planned" /\ plan.structure = "separate"
  /\ \E conserved \in [Periods -> BOOLEAN] : simulated' = [basis |-> "lanes", conserved |-> conserved]
  /\ stage' = "simulated"
  /\ UNCHANGED <<plan, rows, varied, decision>>

\* mc_simulate_segment: the exact count, and the rate that is shown of it; no trial is run of what is not supported.
\* ended is how the validation's own simulation of the period ended, where it makes one.
Tried(p, outcome, ended) ==
  IF Supported(p[1])
  THEN [ended |-> ended, supported |-> TRUE, failures |-> outcome.failures, adequate |-> outcome.adequate,
        rate |-> LET scaled == outcome.failures * Unit
                     low == scaled \div Trials
                     rest == 2 * (scaled % Trials)
                 IN IF rest > Trials \/ (rest = Trials /\ low % 2 = 1) THEN low + 1 ELSE low]
  ELSE [ended |-> ended, supported |-> FALSE, failures |-> None, adequate |-> FALSE, rate |-> None]

\* However the trials of all rows may end.
TrialsEnd == [{p \in Entities : Supported(p[1])} -> Outcomes]

OutcomeOf(outcome, p) == IF Supported(p[1]) THEN outcome[p] ELSE <<>>

\* Every counter of a plan costs every trial.
Workload == Trials * (IF plan.structure = "shared" THEN MapThenSumSet(LAMBDA k : rows[k].best, Periods) ELSE Cardinality(Entities))

\* require_mc_workload_within_limit: refused before any trial.
RefuseWorkload ==
  /\ stage = IF plan.structure = "today" THEN "planned" ELSE "simulated"
  /\ Workload > MaxWorkload
  /\ stage' = "refused"
  /\ UNCHANGED <<plan, rows, simulated, varied, decision>>

\* run_validation: every period is simulated once more, with hours, seed and limit of its own, and tried.
Validate ==
  /\ stage = "simulated" /\ simulated.basis = "periods"
  /\ Workload <= MaxWorkload
  /\ \E busy \in Busy : \E outcome \in TrialsEnd :
       varied' = [p \in Entities |-> Tried(p, OutcomeOf(outcome, p), Ends(p[1], busy))]
  /\ stage' = "varied"
  /\ UNCHANGED <<plan, rows, simulated, decision>>

\* run_mc, run_selected_mc, run_mc_current: trials only; those of today's lanes need no simulation.
Vary ==
  /\ stage = IF plan.structure = "today" THEN "planned" ELSE "simulated"
  /\ simulated.basis # "periods"
  /\ Workload <= MaxWorkload
  /\ \E outcome \in TrialsEnd : varied' = [p \in Entities |-> Tried(p, OutcomeOf(outcome, p), "none")]
  /\ stage' = "varied"
  /\ UNCHANGED <<plan, rows, simulated, decision>>

-----------------------------------------------------------------------------
(* Verdicts *)

Totals(side) == [known |-> \A k \in Periods : rows[k][side] # None,
                 sum |-> MapThenSumSet(LAMBDA k : rows[k][side], Periods)]

\* _today_overloaded_periods, for a plan whose costs are all known.
Overloaded == {k \in Periods : rows[k].costNow = None}

\* comparable_result: real, feasible results on both sides.
Comparable(k) == rows[k].stable /\ rows[k].best # None /\ rows[k].costNow >= 0 /\ rows[k].costBest >= 0

\* summarize_optimization, as the report of a plan shows it: no saving is made of rows that cannot all be compared.
Summary ==
  LET complete == \A k \in Periods : Comparable(k)
  IN [complete |-> complete,
      savings |-> IF complete THEN Totals("costNow").sum - Totals("costBest").sum ELSE None]

\* unstable_current_reason: the periods that are named for a saving that is withheld.
WhyNoSaving == IF Summary.complete THEN {} ELSE {k \in Periods : ~rows[k].stable}

\* mutant: the run that is cited is looked at instead of the validation's own.
RowPassesCited(k) ==
  LET row == varied[<<k, None>>]
  IN row.supported /\ row.adequate /\ row.rate <= Cap /\ simulated.cited[k] = "normal"

\* row_passes
RowPasses(k) ==
  LET row == varied[<<k, None>>]
  IN row.supported /\ row.adequate /\ row.rate <= Cap /\ row.ended = "normal"

\* mutant: a row that cannot tell hides one that fails.
WorstUnsettled(verdicts) ==
  IF "insufficient" \in verdicts THEN "insufficient" ELSE IF "fail" \in verdicts THEN "fail" ELSE "pass"

\* The verdict of a set of rows, each "pass", "fail" or "insufficient": FAIL > insufficient > PASS.
Worst(verdicts) ==
  IF "fail" \in verdicts THEN "fail" ELSE IF "insufficient" \in verdicts THEN "insufficient" ELSE "pass"

\* _full_day_periods: the day run and the trials of a period.
DayVerdict(k) ==
  LET use == simulated.use[k]
      row == varied[<<k, None>>]
      day == CASE use = "missing" -> "insufficient" [] use = "above" -> "fail" [] use = "within" -> "pass"
      variations == IF ~row.supported \/ ~row.adequate THEN "insufficient" ELSE IF row.rate > Cap THEN "fail" ELSE "pass"
  IN Worst({day, variations})

\* _separate_validation_verdict: a selected plan is judged by the exact count, today's lanes by the rate shown.
LaneVerdict(p, exact) ==
  LET row == varied[p]
      over == IF exact THEN row.failures * Unit > Cap * Trials ELSE row.rate > Cap
  IN IF ~row.supported \/ ~row.adequate THEN "insufficient" ELSE IF over THEN "fail" ELSE "pass"

\* validate_selected_plan: a period whose simulation lost customers is insufficient, whatever its trials say.
SelectedVerdict(p) == IF simulated.conserved[p[1]] THEN LaneVerdict(p, TRUE) ELSE "insufficient"

\* The outcome of passing checks is a matter of cost.
ByCost ==
  IF Overloaded # {} THEN "conditional"
  ELSE IF Totals("costNow").sum >= Totals("costBest").sum THEN "adopt" ELSE "conditional"

Decided(status, failed) ==
  /\ decision' = [status |-> status, failed |-> failed]
  /\ stage' = "decided"
  /\ UNCHANGED <<plan, rows, simulated, varied>>

\* _derive_decision: a period the cited run could not simulate is missing evidence, and nothing else is asked of that
\* run; a period whose row of the validation does not pass fails.
DecideByPeriods ==
  /\ stage = "varied" /\ simulated.basis = "periods"
  /\ LET failed == {k \in Periods : ~RowPasses(k)}
     IN IF \E k \in Periods : simulated.cited[k] = "error" THEN Decided("insufficient", {})
        ELSE Decided(IF failed # {} THEN "revise" ELSE ByCost, failed \X {None})

\* _derive_full_day_decision
DecideByDay ==
  /\ stage = "varied" /\ simulated.basis = "day"
  /\ LET verdict == [k \in Periods |-> DayVerdict(k)]
         failed == {k \in Periods : verdict[k] = "fail"}
     IN Decided(CASE failed # {} -> "revise"
                  [] failed = {} /\ \E k \in Periods : verdict[k] = "insufficient" -> "insufficient"
                  [] \A k \in Periods : verdict[k] = "pass" -> ByCost,
                failed \X {None})

StatusOf(verdict) == CASE verdict = "fail" -> "revise" [] verdict = "insufficient" -> "insufficient" [] verdict = "pass" -> "conditional"

\* run_selected_validation and _derive_selected_decision: without comparable costs of today a pass is conditional;
\* a run that lost customers anywhere settles nothing.
DecideByLanes ==
  /\ stage = "varied" /\ plan.structure = "separate"
  /\ LET verdict == [p \in Entities |-> SelectedVerdict(p)]
         failed == {p \in Entities : verdict[p] = "fail"}
     IN IF \E k \in Periods : ~simulated.conserved[k] THEN Decided("insufficient", failed)
        ELSE Decided(StatusOf(Worst({verdict[p] : p \in Entities})), failed)

\* run_validation_current: a verdict on today's lanes; no Decision follows from it.
JudgeToday ==
  /\ stage = "varied" /\ plan.structure = "today"
  /\ LET verdict == [p \in Entities |-> LaneVerdict(p, FALSE)]
     IN Decided(StatusOf(Worst({verdict[p] : p \in Entities})), {p \in Entities : verdict[p] = "fail"})

Init ==
  /\ plan \in Lines \cup Schedules
  /\ stage = IF plan.structure = "shared" THEN "asked" ELSE "planned"
  /\ rows = <<>>
  /\ simulated = [basis |-> "none"]
  /\ varied = <<>>
  /\ decision = [status |-> "none", failed |-> {}]

Next ==
  \/ Optimise \/ SimulatePeriods \/ SimulateDay \/ SimulateLanes \/ Validate \/ Vary \/ RefuseWorkload
  \/ DecideByPeriods \/ DecideByDay \/ DecideByLanes \/ JudgeToday

Spec == Init /\ [][Next]_vars

-----------------------------------------------------------------------------
(* Properties *)

\* Whether the trials of a row stayed within the cap, exactly or as far as the rate shown can tell.
WithinCap(p, exact) ==
  IF exact THEN varied[p].failures * Unit <= Cap * Trials
  ELSE 2 * varied[p].failures * Unit <= (2 * Cap + 1) * Trials

\* A Decision to adopt a plan, at once or conditionally, rests on every period, and on every open lane of every
\* period: each was tried, its rate is known closely enough and within the cap, and the simulation that judges it kept
\* up and lost nobody.  Period by period that is the validation's own; the run that is cited beside it must have
\* covered every period and no more, so that a plan may be advised over a cited run in which a period was critical.
\* Nothing missing, unsupported or uncertain ever counts as passed
\* (_derive_decision, _derive_full_day_decision, validate_selected_plan, _derive_selected_decision).
AdviceIsEarned ==
  decision.status \in {"adopt", "conditional"} =>
    \A p \in Entities :
      /\ varied[p].supported /\ varied[p].adequate
      /\ WithinCap(p, plan.structure = "separate")
      /\ simulated.basis # "none" =>
           CASE simulated.basis = "periods" -> varied[p].ended = "normal" /\ simulated.cited[p[1]] # "error"
             [] simulated.basis = "day" -> simulated.use[p[1]] = "within"
             [] simulated.basis = "lanes" -> simulated.conserved[p[1]]

\* What is known to fail: an adequate row above the cap, a day run above the target, or a period that the validation
\* saw grow too busy; period by period a row that is not adequate fails as well.
Failing(p) ==
  \/ /\ varied[p].adequate
     /\ IF plan.structure = "separate" THEN ~WithinCap(p, TRUE) /\ simulated.conserved[p[1]] ELSE varied[p].rate > Cap
  \/ plan.structure = "shared" /\ simulated.basis = "day" /\ simulated.use[p[1]] = "above"
  \/ plan.structure = "shared" /\ simulated.basis = "periods" /\ (varied[p].ended = "critical" \/ ~varied[p].adequate)

\* Period by period a period that cannot be simulated hides all others, also those that fail.
Hidden == plan.structure = "shared" /\ simulated.basis = "periods" /\ \E k \in Periods : ~Supported(k)

\* A verdict names exactly the periods or lanes that failed and asks for a revision just when there are any, whatever
\* others cannot tell, with two exceptions that are never an advice: period by period nothing is named when a period
\* cannot be simulated, and a run of the lanes that lost customers settles nothing
\* (_derive_decision, _separate_validation_verdict, _full_day_periods).
FailuresAreNamed ==
  stage = "decided" =>
    /\ Hidden => decision = [status |-> "insufficient", failed |-> {}]
    /\ ~Hidden => decision.failed = {p \in Entities : Failing(p)}
    /\ decision.status = "revise" <=>
         decision.failed # {} /\ (plan.structure = "separate" => \A k \in Periods : simulated.conserved[k])

\* The optimiser is never dearer than what is done today where that keeps the limits, so a plan whose periods all
\* do so today is adopted once its checks pass; adopting never costs more, and a period that is overloaded today,
\* whose costs are unknown, is never counted as a saving (optimize_segment, _cost_totals).  The saving that is
\* reported never contradicts the Decision, and where it is withheld a period is named (summarize_optimization,
\* unstable_current_reason).
OptimumIsNoDearer ==
  /\ \A k \in DOMAIN rows :
       LET today == plan.staff[k]
       IN today \in MinServers .. Limit /\ Admits(plan.kind[k], plan.demand[k], today) =>
            /\ rows[k].best # None
            /\ CostOf(plan.kind[k], plan.demand[k], rows[k].best) <= CostOf(plan.kind[k], plan.demand[k], today)
  /\ plan.structure = "shared" /\ decision.status \in {"adopt", "conditional"} =>
       LET overloaded == \E k \in Periods : plan.demand[k] >= plan.staff[k] * ServiceRate
           dearer == Totals("costNow").sum < Totals("costBest").sum
       IN /\ decision.status = "adopt" <=> ~overloaded /\ ~dearer
          /\ decision.status = "adopt" <=> Summary.complete /\ Summary.savings >= 0
          /\ Summary.complete <=> WhyNoSaving = {}
=============================================================================
