------------------------------ MODULE Planning ------------------------------
(***************************************************************************)
(* compare_with_sequential: the capacity optimiser picks a server count    *)
(* for every segment, the sequential optimiser rosters employees for those *)
(* counts, the integrated optimiser picks roster and counts together, and  *)
(* the two are priced alike and compared.  The solver is external: it      *)
(* answers with a vector of least cost, or stops early with any vector or  *)
(* none, or proves that there is none, or fails.                           *)
(***************************************************************************)
EXTENDS Rostering

CONSTANTS
  Segments,    \* the start minutes of the staffing segments, each a demand period of its own
  Demands,     \* customers per minute
  WaitRate,    \* waiting_cost_per_customer_hour
  Opens,       \* when the availability of the last employee may begin; the others' begins at 0
  Rates,       \* rates per hour of regular and overtime
  Threshold,   \* daily_regular_paid_minutes
  SmallLimit,  \* max_patterns
  LargeLimit

ASSUME PlanningAssumption ==
  /\ Segments \subseteq Opening .. Closing - 1 /\ Opening \in Segments
  /\ Demands \subseteq Nat /\ WaitRate \in Nat /\ Opens \subseteq Nat /\ Rates \subseteq Nat
  /\ Threshold \in Nat /\ SmallLimit \in Nat /\ LargeLimit \in Nat

VARIABLES
  problem,      \* the arguments
  stage,        \* how far the comparison has come
  capacity,     \* the selected count of every segment, None where there is none
  sequential,   \* the result of the sequential optimiser, and how its roster is priced
  integrated,   \* the result of the integrated optimiser
  comparison    \* integrated_no_worse

vars == <<problem, stage, capacity, sequential, integrated, comparison>>

\* What the caller may leave out.
Lacks == {"nothing", "break rule", "room", "waiting rate", "overtime rate", "threshold"}

\* Overtime dearer or cheaper than regular time; the last employee's pay may be incomplete.
PayOf(rates, lacking, e) ==
  [regular |-> rates[1],
   overtime |-> IF lacking = "overtime rate" /\ e = Max(Employees) THEN None ELSE rates[2],
   threshold |-> IF lacking = "threshold" /\ e = Max(Employees) THEN None ELSE Threshold]

Problem(k, most, demand, lacking, opens, rates) ==
  [registers |-> k, maxServers |-> most, demand |-> demand, lacking |-> lacking,
   opens |-> [e \in Employees |-> IF e = Max(Employees) THEN opens ELSE 0],
   pay |-> [e \in Employees |-> PayOf(rates, lacking, e)],
   limit |-> IF lacking = "room" THEN SmallLimit ELSE LargeLimit]

\* One scarcity at a time: few registers, few servers, or something left out.
Problems ==
  {p \in {Problem(k, most, demand, lacking, opens, rates) :
            k \in Registers, most \in ServerLimits, demand \in [Segments -> Demands], lacking \in Lacks,
            opens \in Opens, rates \in {r \in Rates \X Rates : r[1] # r[2]}} :
     Cardinality({s \in {"registers", "servers", "input"} :
                    CASE s = "registers" -> p.registers < Max(Registers)
                      [] s = "servers" -> p.maxServers < Max(ServerLimits)
                      [] s = "input" -> p.lacking # "nothing"}) <= 1}

\* What a run that reports no plan leaves.
Outcome(status) == [status |-> status, labor |-> None, waiting |-> None, admissible |-> FALSE]

Init ==
  /\ problem \in Problems
  /\ stage = IF problem.lacking = "waiting rate" THEN "integrated" ELSE "capacity"
  /\ capacity = [s \in Segments |-> None]
  /\ sequential = Outcome("NOT_RUN")
  /\ integrated = Outcome("NOT_RUN")
  /\ comparison = "not compared"

SegmentAt(m) == Max({s \in Segments : s <= m})

-----------------------------------------------------------------------------
(* The two programs differ in the on-duty counts they allow. *)

\* Coverage and register rows of _build_model.
Covering(m) == (IF Inside(m) THEN capacity[SegmentAt(m)] ELSE 0) .. problem.registers

AdmissibleAt(m, c) == IsAdmissible(problem.demand[SegmentAt(m)], c, problem.maxServers, problem.registers)

\* Link and choice rows of _build_integrated_model.
Admitted(m) ==
  IF Inside(m) THEN {c \in Candidates(problem.maxServers, problem.registers) : AdmissibleAt(m, c)}
  ELSE 0 .. problem.registers

Allowed(side, m) == IF side = "sequential" THEN Covering(m) ELSE Admitted(m)

AllPatterns == UNION {{<<e, q>> : q \in Patterns(problem, e)} : e \in Employees}

MissingRules == Ruled(problem) # Lengths /\ \E e \in Employees : \E s \in Spans(problem, e) : s.end - s.start \notin Ruled(problem)

TooMany == Cardinality(AllPatterns) > problem.limit

\* _certificates of either optimiser; the second kind only when every pattern is known.
Certified(side) ==
  \/ \E m \in Segments : Allowed(side, m) = {}
  \/ /\ ~TooMany /\ ~MissingRules
     /\ \E m \in Points(problem, Segments) :
          Inside(m) /\ Allowed(side, m) # {} /\ Possible(problem, m) < Min(Allowed(side, m))

\* _waiting_needed
WaitingNeeded(side) ==
  side = "integrated" /\ problem.lacking = "waiting rate" /\ \E s \in Segments : problem.demand[s] > 0

MissingValues(side) ==
  WaitingNeeded(side) \/ \E e \in Employees : MissingPay(problem.pay[e], Patterns(problem, e)) # {}

ModelLabor(x) == MapThenSumSet(LAMBDA e : x[e].labor.cost, Employees)

\* The capacity columns of the integrated objective.
ModelWaiting(points, x) ==
  MapThenSumSet(LAMBDA m : WaitRate * Waiting(problem.demand[SegmentAt(m)], Count(x, m)) * (IntervalEnd(points, m) - m),
                {m \in points : Inside(m)})

Objective(side, points, x) == ModelLabor(x) + (IF side = "integrated" THEN ModelWaiting(points, x) ELSE 0)

-----------------------------------------------------------------------------
(* evaluate_planning_cost and _verify *)

\* Every count inside the horizon is admissible and the roster is legal and on the break grid.
InFeasibleSet(r) ==
  /\ Legal(problem, r) /\ OnBreakGrid(r)
  /\ \A m \in Opening .. Closing - 1 : AdmissibleAt(m, OnDuty(r, m))

LaborCost(r) ==
  LET wages == [e \in Employees |-> Wages(problem.pay[e], r[e])]
  IN IF \E e \in Employees : wages[e] = None THEN None ELSE MapThenSumSet(LAMBDA e : wages[e], Employees)

WaitingCost(r) ==
  LET duty == [m \in Opening .. Closing - 1 |-> OnDuty(r, m)]
      demand == [m \in Opening .. Closing - 1 |-> problem.demand[SegmentAt(m)]]
  IN IF \A m \in DOMAIN duty : HasWaiting(demand[m], duty[m])
     THEN MapThenSumSet(LAMBDA m : WaitRate * Waiting(demand[m], duty[m]), DOMAIN duty)
     ELSE None

\* The model's regular and overtime columns are the minutes of the roster.
SplitsAgree(x, r) ==
  \A e \in Employees :
    x[e].labor.split # <<>> =>
      LET paid == PaidMinutes(r[e])
          regular == Regular(problem.pay[e], paid)
      IN x[e].labor.split = <<regular, paid - regular>>

Verified(side, points, x, r) ==
  /\ Legal(problem, r)
  /\ IF side = "sequential"
     THEN \A m \in Opening .. Closing - 1 : OnDuty(r, m) >= capacity[SegmentAt(m)]
     ELSE /\ \A m \in {m \in points : Inside(m)} : OnDuty(r, m) = Count(x, m)
          /\ InFeasibleSet(r)
          /\ WaitingCost(r) = ModelWaiting(points, x)
  /\ SplitsAgree(x, r)
  /\ LaborCost(r) = ModelLabor(x)

\* What is reported of a vector: nothing of one that fails verification.
Reported(side, points, x, status) ==
  LET r == RosterOf(x)
  IN IF Verified(side, points, x, r)
     THEN [status |-> status, labor |-> LaborCost(r), waiting |-> WaitingCost(r), admissible |-> InFeasibleSet(r)]
     ELSE Outcome("VERIFICATION_FAILED")

-----------------------------------------------------------------------------
(* The pipeline *)

SelectCapacity ==
  /\ stage = "capacity"
  /\ capacity' = [s \in Segments |-> Select(problem.demand[s], problem.maxServers, WaitRate)]
  /\ stage' = IF \E s \in Segments : capacity'[s] = None THEN "integrated" ELSE "sequential"
  /\ UNCHANGED <<problem, sequential, integrated, comparison>>

\* One optimiser ends with this result, and the comparison goes on.
Ends(side, result) ==
  /\ IF side = "sequential"
     THEN sequential' = result /\ stage' = "integrated" /\ UNCHANGED integrated
     ELSE integrated' = result /\ stage' = "compare" /\ UNCHANGED sequential
  /\ UNCHANGED <<problem, capacity, comparison>>

Solvable(side) == ~Certified(side) /\ ~TooMany /\ ~MissingRules /\ ~MissingValues(side)

\* Certificates, the pattern limit and missing values end a run before the solver's.
Refuse(side) ==
  /\ stage = side
  /\ ~Solvable(side)
  /\ Ends(side, Outcome(IF Certified(side) THEN "INFEASIBLE"
                        ELSE IF TooMany THEN "PATTERN_LIMIT_EXCEEDED" ELSE "INCOMPLETE"))

Solve(side) ==
  /\ stage = side
  /\ Solvable(side)
  /\ \E program \in {Program(problem, Segments, LAMBDA m : Allowed(side, m))} :
     \E answers \in {{[x |-> x, cost |-> Objective(side, program.points, x)] : x \in Solutions(program)}} :
       \/ \E a \in answers :
            /\ \A b \in answers : a.cost <= b.cost
            /\ Ends(side, Reported(side, program.points, a.x, "OPTIMAL"))
       \/ \E a \in answers : Ends(side, Reported(side, program.points, a.x, "FEASIBLE_NOT_PROVEN_OPTIMAL"))
       \/ answers = {} /\ Ends(side, Outcome("INFEASIBLE"))
       \/ \E status \in {"NO_SOLUTION_FOUND", "SOLVER_ERROR"} : Ends(side, Outcome(status))

IsFeasible(result) == result.status \in {"OPTIMAL", "FEASIBLE_NOT_PROVEN_OPTIMAL"}

Compare ==
  /\ stage = "compare"
  /\ stage' = "done"
  /\ comparison' =
       IF \/ problem.lacking = "waiting rate" \/ ~IsFeasible(sequential) \/ ~sequential.admissible
          \/ ~IsFeasible(integrated)
       THEN "not comparable"
       ELSE LET mine == integrated.labor + integrated.waiting
                theirs == sequential.labor + sequential.waiting
            IN IF mine <= theirs THEN "no worse"
               ELSE IF integrated.status = "OPTIMAL" THEN "CONFLICTING" ELSE "worse, not proven optimal"
  /\ UNCHANGED <<problem, capacity, sequential, integrated>>

Next ==
  \/ SelectCapacity
  \/ \E side \in {"sequential", "integrated"} : Refuse(side) \/ Solve(side)
  \/ Compare

Spec == Init /\ [][Next]_vars

-----------------------------------------------------------------------------
(* Properties *)

\* The plans of an employee the rules and the break grid permit with shifts of these lengths.
LegalPlans(e, lengths) ==
  {p \in Plans :
     \A i \in DOMAIN p :
       /\ p[i].start >= problem.opens[e] /\ p[i].end - p[i].start \in lengths
       /\ \A j \in DOMAIN p[i].breaks : p[i].breaks[j] % BreakGrid = 0}

LegalRosters(lengths) ==
  LET plans == [e \in Employees |-> LegalPlans(e, lengths)]
  IN {r \in [Employees -> UNION Range(plans)] :
        /\ \A e \in Employees : r[e] \in plans[e]
        /\ \A m \in 0 .. LastMinute : OnDuty(r, m) <= problem.registers}

Meets(side, r) == \A m \in Opening .. Closing - 1 : OnDuty(r, m) \in Allowed(side, m)

TrueCost(side, r) == LaborCost(r) + (IF side = "integrated" THEN WaitingCost(r) ELSE 0)

\* The side whose result the last step has set.
JustRun == IF stage = "integrated" THEN "sequential" ELSE "integrated"

Result == IF stage = "integrated" THEN sequential ELSE integrated

HasResult == stage \in {"integrated", "compare"} /\ Result.status # "NOT_RUN"

\* _verify: the rows of the program say what evaluate_roster and evaluate_planning_cost say: no vector that
\* meets them fails the exact verification.
HonestAnswersPass == HasResult => Result.status # "VERIFICATION_FAILED"

\* A run that reports INFEASIBLE is right: no roster will do, whatever a missing break rule says.
InfeasibleIsProved ==
  HasResult /\ Result.status = "INFEASIBLE" => \A r \in LegalRosters(Lengths) : ~Meets(JustRun, r)

\* What is reported as optimal costs least of all legal rosters that will do, overtime included.
OptimalIsCheapest ==
  HasResult /\ Result.status = "OPTIMAL" =>
    \A r \in LegalRosters(Ruled(problem)) :
      Meets(JustRun, r) =>
        Result.labor + (IF JustRun = "integrated" THEN Result.waiting ELSE 0) <= TrueCost(JustRun, r)

\* _optimize: an honest answer of the solver is never taken for a wrong one, and both verdicts a run can rest on are
\* true of all rosters, not only of those it enumerated.
VerdictsAreTrue == HonestAnswersPass /\ InfeasibleIsProved /\ OptimalIsCheapest

\* compare_with_sequential: a comparison never finds a plan proved optimal
\* dearer than the sequential one.
IntegratedIsNoWorse == comparison # "CONFLICTING"
=============================================================================
