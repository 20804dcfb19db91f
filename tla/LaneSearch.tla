----------------------------- MODULE LaneSearch -----------------------------
(***************************************************************************)
(* How optimize_separate judges one period: every candidate is a number of *)
(* active lanes, every candidate is simulated once per replication, the    *)
(* readings of a candidate are averaged, and the cheapest candidate within *)
(* the utilization target is the optimum, provided that every candidate    *)
(* could be judged.  A period whose lanes carry no service samples is      *)
(* judged by formula instead, which covers only the full set of lanes.     *)
(***************************************************************************)
EXTENDS Integers, Sequences, FiniteSets, Functions

CONSTANTS
  Replications,  \* replications of every candidate
  Low, High,     \* the two utilizations a simulated lane may show
  Target,        \* target_utilization
  ServerCost,    \* staffing cost of one lane
  WaitCost       \* waiting cost of a busy lane's customers

SearchConstants ==
  /\ Replications \in Nat \ {0} /\ Low \in Nat /\ High \in Nat
  /\ Low <= Target /\ Target < High /\ ServerCost \in Nat /\ WaitCost \in Nat

ASSUME SearchAssumption == SearchConstants

NoOptimum == [lanes |-> 0, cost |-> 0]

-----------------------------------------------------------------------------
(* One simulated run of one candidate *)

\* A run that ended: busy lanes are at High, and customers may have been lost.
Measured(active, busy, conserved) ==
  [status |-> "measured", conserved |-> conserved,
   rho |-> [c \in active |-> IF c \in busy THEN High ELSE Low],
   cost |-> ServerCost * Cardinality(active) + WaitCost * Cardinality(busy \cap active)]

\* A run that was refused.
Refused(active, status) ==
  [status |-> status, conserved |-> FALSE, rho |-> [c \in active |-> Low], cost |-> 0]

-----------------------------------------------------------------------------
(* evaluate_candidate_with_des_replications and apply_des_aggregate_feasibility *)

\* The mutant of VerdictsAreProved: every run has to stay within the target.
EveryRunWithin(readings, active) == \A i \in DOMAIN readings : \A c \in active : readings[i].rho[c] <= Target

\* The mean over the replications, not the verdicts of the runs, decides.
WithinTarget(readings, active) ==
  \A c \in active : SumFunction([i \in DOMAIN readings |-> readings[i].rho[c]]) <= Target * Len(readings)

Verdict(readings, active) ==
  LET some(status) == \E i \in DOMAIN readings : readings[i].status = status
  IN CASE some("INVALID_INPUT") -> "INVALID_INPUT"
       [] some("UNSUPPORTED") /\ ~some("INVALID_INPUT") -> "UNSUPPORTED"
       [] OTHER -> IF \E i \in DOMAIN readings : ~readings[i].conserved THEN "AGGREGATION_ERROR"
                   ELSE IF WithinTarget(readings, active) THEN "FEASIBLE" ELSE "INFEASIBLE"

\* The mean cost, times the number of replications.
Entry(readings, active) ==
  [lanes |-> Cardinality(active), status |-> Verdict(readings, active),
   cost |-> SumFunction([i \in DOMAIN readings |-> readings[i].cost])]

-----------------------------------------------------------------------------
(* rank_des_candidates, check_des_search_complete and _optimize_separate_des *)

Cheapest(entries) ==
  LET feasible == {e \in entries : e.status = "FEASIBLE"}
  IN CHOOSE e \in feasible :
       \A f \in feasible : e.cost < f.cost \/ (e.cost = f.cost /\ e.lanes <= f.lanes)

Optimum(entries) == LET best == Cheapest(entries) IN [lanes |-> best.lanes, cost |-> best.cost]

Simulated(entries) ==
  IF \E e \in entries : e.status \notin {"FEASIBLE", "INFEASIBLE"}
  THEN [overall |-> IF \E e \in entries : e.status = "INVALID_INPUT" THEN "INVALID_INPUT" ELSE "UNSUPPORTED",
        optimum |-> NoOptimum]
  ELSE IF \E e \in entries : e.status = "FEASIBLE"
  THEN [overall |-> "OPTIMAL", optimum |-> Optimum(entries)]
  ELSE [overall |-> "INFEASIBLE", optimum |-> NoOptimum]

-----------------------------------------------------------------------------
(* evaluate_candidate and the last part of optimize_separate *)

\* By formula: a set that leaves a lane out has no model, nor has a lane without variance.
Formula(evidence, stable, active, available) ==
  [lanes |-> Cardinality(active),
   status |-> CASE evidence = "malformed" -> "INVALID_INPUT"
                [] evidence # "malformed" /\ (active # available \/ evidence = "rates") -> "UNSUPPORTED"
                [] OTHER -> IF stable THEN "FEASIBLE" ELSE "INFEASIBLE",
   cost |-> ServerCost * Cardinality(active)]

Analytical(entries) ==
  CASE \E e \in entries : e.status = "INVALID_INPUT" -> [overall |-> "INVALID_INPUT", optimum |-> NoOptimum]
    [] \A e \in entries : e.status # "INVALID_INPUT" ->
         IF \E e \in entries : e.status = "FEASIBLE" THEN [overall |-> "OPTIMAL", optimum |-> Optimum(entries)]
         ELSE IF \E e \in entries : e.status = "UNSUPPORTED" THEN [overall |-> "UNSUPPORTED", optimum |-> NoOptimum]
         ELSE [overall |-> "INFEASIBLE", optimum |-> NoOptimum]

\* optimize_separate_schedule: what the periods say together.
RollUp(periods) ==
  LET some(overall) == \E p \in DOMAIN periods : periods[p].overall = overall
  IN CASE some("INVALID_INPUT") -> "INVALID_INPUT"
       [] ~some("INVALID_INPUT") /\ some("UNSUPPORTED") -> "BLOCKED"
       [] OTHER -> IF some("INFEASIBLE") THEN "INFEASIBLE" ELSE "COMPLETE"
=============================================================================
