------------------------------ MODULE Capacity ------------------------------
(***************************************************************************)
(* Which numbers of servers a demand admits, and what waiting they cost.   *)
(* Rates are whole numbers per minute; waiting is counted in units of      *)
(* 1 / Scale customers and rounded down, where the code has floats.        *)
(***************************************************************************)
EXTENDS Integers, FiniteSets, FiniteSetsExt

CONSTANTS
  ServiceRate,     \* service_rate_per_hour of one server
  TargetPercent,   \* target_utilization
  MaxWait,         \* max_wait_minutes, in units of 1 / Scale
  MinServers,      \* min_servers
  ServerLimits,    \* values of max_servers
  ServerCost,      \* server_cost_per_hour, of the capacity optimiser only
  Scale

ASSUME CapacityAssumption ==
  /\ ServiceRate \in Nat \ {0} /\ TargetPercent \in 1 .. 100 /\ MaxWait \in Nat /\ Scale \in Nat \ {0}
  /\ MinServers \in Nat /\ ServerLimits \subseteq Nat /\ ServerCost \in Nat

None == -1

\* Erlang B of d / ServiceRate erlangs on n servers, as a numerator and a denominator.
ErlangB(d, c) ==
  LET B[n \in 0 .. c] ==
        IF n = 0 THEN <<1, 1>>
        ELSE LET b == B[n - 1] IN <<d * b[1], n * ServiceRate * b[2] + d * b[1]>>
  IN B[c]

Stable(d, c) == d < c * ServiceRate

\* The mean number waiting: Erlang C * rho / (1 - rho).
Lq(d, c) ==
  LET b == ErlangB(d, c)
      margin == c * ServiceRate - d
  IN (Scale * d * b[1] * c * ServiceRate) \div ((margin * b[2] + d * b[1]) * margin)

\* What evaluate_segment leaves None: nobody serves customers who come, or they come too fast.
HasWaiting(d, c) == IF c = 0 THEN d = 0 ELSE Stable(d, c)

\* Customers waiting over a minute.
Waiting(d, c) == IF c = 0 THEN 0 ELSE Lq(d, c)

\* evaluate_candidate: stable, within the target utilisation and the longest wait; a closed
\* segment without customers has nothing to limit.
Feasible(d, c) ==
  /\ HasWaiting(d, c)
  /\ c > 0 => /\ 100 * d <= TargetPercent * c * ServiceRate
              /\ Lq(d, c) <= MaxWait * d

\* _select: the cheapest, and of equally cheap ones the fewest servers.
Select(d, maxServers, rate) ==
  LET Cost(c) == ServerCost * c + rate * Waiting(d, c)
      feasible == {c \in MinServers .. maxServers : Feasible(d, c)}
      cheapest == {c \in feasible : \A b \in feasible : Cost(c) <= Cost(b)}
  IN IF feasible = {} THEN None ELSE Min(cheapest)

\* _Capacity.evaluate: whether so many may be on duty in the integrated plan.
IsAdmissible(d, c, maxServers, registers) ==
  Feasible(d, c) /\ MinServers <= c /\ c <= maxServers /\ c <= registers

\* The mutant of IntegratedIsNoWorse: the last candidate is lost.
CandidatesShort(maxServers, registers) == MinServers .. Min({maxServers, registers}) - 1
\* _Capacity.candidates
Candidates(maxServers, registers) == MinServers .. Min({maxServers, registers})

=============================================================================
