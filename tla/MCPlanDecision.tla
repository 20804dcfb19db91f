--------------------------- MODULE MCPlanDecision ---------------------------
(* Small plans of PlanDecision. *)
EXTENDS PlanDecision

\* Trials that all stay within the threshold; a rate just above the cap, shown as the cap; one far above; a
\* passing rate too uncertain to tell, and a failing one.
MCOutcomes ==
  {[failures |-> 0, adequate |-> TRUE], [failures |-> 3, adequate |-> TRUE], [failures |-> 5, adequate |-> TRUE],
   [failures |-> 0, adequate |-> FALSE], [failures |-> 4, adequate |-> FALSE]}
=============================================================================
