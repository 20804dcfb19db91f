------------------------- MODULE PlanDecisionProofs -------------------------
(***************************************************************************)
(* Proofs about a plan's optimum and its Decision, for any number of       *)
(* periods, lanes, counters and trials.                                    *)
(***************************************************************************)
EXTENDS PlanDecision, TLAPS, FiniteSetTheorems, WellFoundedInduction

\* A non-empty set of natural numbers has a least member.
LEMMA LeastNumber ==
  ASSUME NEW S, S \subseteq Nat, S # {}
  PROVE  \E m \in S : \A k \in S : m <= k
<1> DEFINE Less == {ss \in Nat \X Nat : ss[1] < ss[2]}
<1>1. IsWellFoundedOn(Less, Nat)
  BY NatLessThanWellFounded DEF OpToRel
<1> HIDE DEF Less
<1>2. PICK m \in S : \A k \in S : ~ (<<k, m>> \in Less)
  BY <1>1, WFMin
<1>3. \A k \in S : ~ (k < m)
  BY <1>2 DEF Less
<1> QED
  BY <1>3

\* Min is that member.
LEMMA MinIsLeast ==
  ASSUME NEW S, S \subseteq Nat, S # {}
  PROVE  Min(S) \in S /\ \A k \in S : Min(S) <= k
BY LeastNumber DEF Min


-----------------------------------------------------------------------------
(* Erlang B *)

\* What the recursion of ErlangB says of its function f.
IsErlangB(f, d, c) ==
  f = [n \in 0 .. c |->
         IF n = 0 THEN <<1, 1>>
         ELSE <<d * f[n - 1][1], n * ServiceRate * f[n - 1][2] + d * f[n - 1][1]>>]

\* There is such a function, for every number of servers.
LEMMA ErlangBExists ==
  ASSUME NEW d \in Nat, NEW c \in Nat
  PROVE  \E f : IsErlangB(f, d, c)
<1> DEFINE Bad == {n \in Nat : ~\E f : IsErlangB(f, d, n)}
<1> SUFFICES ASSUME Bad # {} PROVE FALSE
  OBVIOUS
<1>1. PICK m \in Bad : \A k \in Bad : m <= k
  BY LeastNumber
<1>2. m \in Nat /\ ~\E f : IsErlangB(f, d, m)
  OBVIOUS
<1>3. CASE m = 0
  <2> DEFINE f == [n \in 0 .. 0 |-> <<1, 1>>]
  <2>1. f = [n \in 0 .. 0 |->
         IF n = 0 THEN <<1, 1>>
         ELSE <<d * f[n - 1][1], n * ServiceRate * f[n - 1][2] + d * f[n - 1][1]>>]
    OBVIOUS
  <2>2. IsErlangB(f, d, 0)
    BY <2>1 DEF IsErlangB
  <2> QED
    BY <1>2, <1>3, <2>2
<1>4. CASE m # 0
  <2>1. m - 1 \in Nat /\ m - 1 \notin Bad
    BY <1>1, <1>2, <1>4
  <2>2. PICK g : IsErlangB(g, d, m - 1)
    BY <2>1
  <2> DEFINE Pair(n) == <<d * g[n - 1][1], n * ServiceRate * g[n - 1][2] + d * g[n - 1][1]>>
             f == [n \in 0 .. m |-> IF n = 0 THEN <<1, 1>> ELSE Pair(n)]
  <2>3. \A n \in 0 .. m - 1 : g[n] = IF n = 0 THEN <<1, 1>> ELSE Pair(n)
    BY <2>1, <2>2 DEF IsErlangB
  <2>4. \A n \in 0 .. m - 1 : f[n] = g[n]
    BY <2>3
  <2>5. \A n \in 0 .. m : n # 0 =>
          Pair(n) = <<d * f[n - 1][1], n * ServiceRate * f[n - 1][2] + d * f[n - 1][1]>>
    <3> SUFFICES ASSUME NEW n \in 0 .. m, n # 0
                 PROVE  Pair(n) = <<d * f[n - 1][1], n * ServiceRate * f[n - 1][2] + d * f[n - 1][1]>>
      OBVIOUS
    <3>1. n - 1 \in 0 .. m - 1
      BY <1>2
    <3>2. f[n - 1] = g[n - 1]
      BY <2>4, <3>1
    <3> HIDE DEF f
    <3> QED
      BY <3>2
  <2>6. f = [n \in 0 .. m |->
         IF n = 0 THEN <<1, 1>>
         ELSE <<d * f[n - 1][1], n * ServiceRate * f[n - 1][2] + d * f[n - 1][1]>>]
    <3>1. ASSUME NEW n \in 0 .. m
          PROVE  f[n] = IF n = 0 THEN <<1, 1>>
                        ELSE <<d * f[n - 1][1], n * ServiceRate * f[n - 1][2] + d * f[n - 1][1]>>
      <4>1. f[n] = IF n = 0 THEN <<1, 1>> ELSE Pair(n)
        OBVIOUS
      <4>2. n # 0 => Pair(n) = <<d * f[n - 1][1], n * ServiceRate * f[n - 1][2] + d * f[n - 1][1]>>
        BY <2>5
      <4> HIDE DEF f, Pair
      <4> QED
        BY <4>1, <4>2
    <3>2. DOMAIN f = 0 .. m /\ f = [n \in DOMAIN f |-> f[n]]
      OBVIOUS
    <3> HIDE DEF f
    <3> QED
      BY <3>1, <3>2, Zenon
  <2>7. IsErlangB(f, d, m)
    BY <2>6 DEF IsErlangB
  <2> QED
    BY <1>2, <2>7
<1> QED
  BY <1>3, <1>4

\* It is a fraction.
LEMMA ErlangBIsAFraction ==
  ASSUME NEW d \in Nat, NEW c \in Nat
  PROVE  ErlangB(d, c)[1] \in Nat /\ ErlangB(d, c)[2] \in Nat \ {0}
<1>1. PICK f : IsErlangB(f, d, c) /\ ErlangB(d, c) = f[c]
  <2> DEFINE B == CHOOSE f : IsErlangB(f, d, c)
  <2>1. IsErlangB(B, d, c)
    BY ErlangBExists
  <2>2. ErlangB(d, c) = B[c]
    BY DEF ErlangB, IsErlangB
  <2> HIDE DEF B
  <2> QED
    BY <2>1, <2>2
<1> DEFINE Bad == {n \in 0 .. c : ~(f[n][1] \in Nat /\ f[n][2] \in Nat \ {0})}
<1>2. Bad = {}
  <2> SUFFICES ASSUME Bad # {} PROVE FALSE
    OBVIOUS
  <2>0. Bad \subseteq Nat
    OBVIOUS
  <2>1. PICK m \in Bad : \A k \in Bad : m <= k
    <3> HIDE DEF Bad
    <3> QED
      BY <2>0, LeastNumber
  <2>2. m \in 0 .. c /\ ~(f[m][1] \in Nat /\ f[m][2] \in Nat \ {0})
    OBVIOUS
  <2>3. f[m] = IF m = 0 THEN <<1, 1>>
               ELSE <<d * f[m - 1][1], m * ServiceRate * f[m - 1][2] + d * f[m - 1][1]>>
    BY <1>1, <2>2 DEF IsErlangB
  <2>4. m # 0
    BY <2>2, <2>3
  <2>5. m - 1 \in 0 .. c /\ m - 1 \notin Bad
    BY <2>1, <2>2, <2>4
  <2> SUFFICES ASSUME NEW x, NEW y, x = f[m - 1][1], y = f[m - 1][2] PROVE FALSE
    OBVIOUS
  <2>6. x \in Nat /\ y \in Nat \ {0}
    BY <2>5
  <2>7. f[m] = <<d * x, m * ServiceRate * y + d * x>>
    BY <2>3, <2>4
  <2>8. ServiceRate \in Nat \ {0} /\ m \in Nat \ {0}
    BY <2>2, <2>4, CapacityAssumption
  <2>9. m * ServiceRate \in Nat \ {0}
    BY <2>8
  <2>10. m * ServiceRate * y \in Nat \ {0} /\ d * x \in Nat
    BY <2>6, <2>9
  <2> QED
    BY <2>2, <2>7, <2>10
<1>3. c \in 0 .. c
  OBVIOUS
<1> QED
  BY <1>1, <1>2, <1>3

-----------------------------------------------------------------------------
(* Costs *)

\* The waiting of a stable line is a number.
LEMMA WaitingIsANumber ==
  ASSUME NEW d \in Nat, NEW c \in Nat, Stable(d, c), NEW kind
  PROVE  Lq(d, c) \in Nat /\ WaitingLine(kind, d, c) \in Nat
<1>1. PICK b : b = ErlangB(d, c)
  OBVIOUS
<1>2. PICK x, y : x = b[1] /\ y = b[2]
  OBVIOUS
<1>3. x \in Nat /\ y \in Nat \ {0}
  BY <1>1, <1>2, ErlangBIsAFraction
<1>4. ServiceRate \in Nat \ {0} /\ Scale \in Nat \ {0}
  BY CapacityAssumption
<1>5. PICK m : m = c * ServiceRate - d
  OBVIOUS
<1>6. c * ServiceRate \in Nat
  BY <1>4
<1>7. m \in Nat \ {0}
  BY <1>5, <1>6 DEF Stable
<1>8. PICK num, den : num = Scale * d * x * c * ServiceRate /\ den = (m * y + d * x) * m
  OBVIOUS
<1>9. num \in Nat
  <2>1. Scale * d \in Nat
    BY <1>4
  <2>2. Scale * d * x \in Nat
    BY <2>1, <1>3
  <2>3. Scale * d * x * c \in Nat
    BY <2>2
  <2> QED
    BY <2>3, <1>4, <1>8
<1>10. den \in Nat \ {0}
  <2>1. m * y \in Nat \ {0} /\ d * x \in Nat
    BY <1>3, <1>7
  <2>2. m * y + d * x \in Nat \ {0}
    BY <2>1
  <2> QED
    BY <2>2, <1>7, <1>8
<1>11. num \div den \in Nat
  BY <1>9, <1>10
<1>12. Lq(d, c) = num \div den
  BY <1>1, <1>2, <1>5, <1>8 DEF Lq
<1>13. Lq(d, c) \in Nat
  BY <1>11, <1>12
<1> QED
  BY <1>13 DEF WaitingLine

\* The cost of a stable line is a number.
LEMMA CostIsANumber ==
  ASSUME NEW d \in Nat, NEW c \in Nat, Stable(d, c), NEW kind
  PROVE  CostOf(kind, d, c) \in Nat
<1>1. PICK w : w = WaitingLine(kind, d, c)
  OBVIOUS
<1>2. w \in Nat
  BY <1>1, WaitingIsANumber
<1>3. Scale * ServerCost \in Nat /\ WaitRate * w \in Nat
  BY <1>2, CapacityAssumption, PlanDecisionAssumption
<1>4. Scale * ServerCost * c \in Nat
  BY <1>3
<1> QED
  BY <1>1, <1>3, <1>4 DEF CostOf

\* The counts that keep the limits.
Admitted(kind, d) == {c \in MinServers .. Limit : Admits(kind, d, c)}

\* The optimum is one of them and none of them is cheaper; there is none only when no count will do.
LEMMA BestIsCheapest ==
  ASSUME NEW d \in Nat, NEW kind, Admitted(kind, d) # {}
  PROVE  /\ Best(kind, d) \in Admitted(kind, d)
         /\ \A c \in Admitted(kind, d) : CostOf(kind, d, Best(kind, d)) <= CostOf(kind, d, c)
<1>1. PICK F : F = Admitted(kind, d)
  OBVIOUS
<1>2. F # {} /\ F \subseteq Nat /\ \A c \in F : CostOf(kind, d, c) \in Nat
  <2>1. F \subseteq Nat /\ \A c \in F : Stable(d, c)
    BY <1>1, CapacityAssumption DEF Admitted, Admits
  <2> QED
    BY <2>1, <1>1, CostIsANumber
<1>3. PICK costs : costs = {CostOf(kind, d, c) : c \in F}
  OBVIOUS
<1>4. costs \subseteq Nat /\ costs # {}
  BY <1>2, <1>3
<1>5. PICK m \in costs : \A k \in costs : m <= k
  BY <1>4, LeastNumber
<1>6. PICK cheapest : cheapest = {c \in F : \A b \in F : CostOf(kind, d, c) <= CostOf(kind, d, b)}
  OBVIOUS
<1>7. cheapest # {} /\ cheapest \subseteq Nat
  BY <1>2, <1>3, <1>5, <1>6
<1>8. Min(cheapest) \in cheapest
  BY <1>7, MinIsLeast
<1>9. Best(kind, d) = Min(cheapest)
  BY <1>1, <1>2, <1>6 DEF Best, Admitted
<1> QED
  BY <1>1, <1>6, <1>8, <1>9

-----------------------------------------------------------------------------
(* Sums over the periods *)

\* What the fold of Totals says of its function h on the sets of periods of at most n members.
Few(n) == {s \in SUBSET Periods : Cardinality(s) <= n}
IsTotal(h, side, dom) ==
  h = [s \in dom |->
         IF s = {} THEN 0
         ELSE rows[CHOOSE x \in s : TRUE][side] + h[s \ {CHOOSE x \in s : TRUE}]]

\* Taking one away makes fewer.
LEMMA OneFewer ==
  ASSUME IsFiniteSet(Periods), NEW s \in SUBSET Periods, s # {}, NEW x, x = CHOOSE y \in s : TRUE
  PROVE  /\ x \in s /\ s \ {x} \in SUBSET Periods
         /\ Cardinality(s \ {x}) = Cardinality(s) - 1
         /\ Cardinality(s) \in Nat \ {0}
<1>1. IsFiniteSet(s)
  BY FS_Subset
<1>2. x \in s
  OBVIOUS
<1>3. Cardinality(s \ {x}) = Cardinality(s) - 1
  BY <1>1, <1>2, FS_RemoveElement
<1>4. Cardinality(s) \in Nat /\ Cardinality(s) # 0
  BY <1>1, FS_CardinalityType, FS_EmptySet
<1> QED
  BY <1>2, <1>3, <1>4

\* There is such a function.
LEMMA TotalExists ==
  ASSUME IsFiniteSet(Periods), NEW side
  PROVE  \E h : IsTotal(h, side, SUBSET Periods)
<1> DEFINE Bad == {n \in Nat : ~\E h : IsTotal(h, side, Few(n))}
<1>1. Bad = {}
  <2> SUFFICES ASSUME Bad # {} PROVE FALSE
    OBVIOUS
  <2>1. PICK m \in Bad : \A k \in Bad : m <= k
    BY LeastNumber
  <2>2. m \in Nat /\ ~\E h : IsTotal(h, side, Few(m))
    OBVIOUS
  <2>3. CASE m = 0
    <3>1. \A s \in Few(0) : s = {}
      BY FS_Subset, FS_CardinalityType, FS_EmptySet DEF Few
    <3> DEFINE h == [s \in Few(0) |-> 0]
    <3>2. h = [s \in Few(0) |->
                IF s = {} THEN 0
                ELSE rows[CHOOSE x \in s : TRUE][side] + h[s \ {CHOOSE x \in s : TRUE}]]
      BY <3>1
    <3>3. IsTotal(h, side, Few(0))
      BY <3>2 DEF IsTotal
    <3> QED
      BY <2>2, <2>3, <3>3
  <2>4. CASE m # 0
    <3>1. m - 1 \in Nat /\ m - 1 \notin Bad
      BY <2>1, <2>2, <2>4
    <3>2. PICK g : IsTotal(g, side, Few(m - 1))
      BY <3>1
    <3> DEFINE Pick(s) == CHOOSE x \in s : TRUE
               Sum(s, f) == IF s = {} THEN 0 ELSE rows[Pick(s)][side] + f[s \ {Pick(s)}]
               h == [s \in Few(m) |-> Sum(s, g)]
    <3>3. \A s \in Few(m - 1) : g[s] = Sum(s, g)
      BY <3>2 DEF IsTotal
    <3>4. \A s \in Few(m - 1) : s \in Few(m) /\ h[s] = g[s]
      <4>1. ASSUME NEW s \in Few(m - 1) PROVE s \in Few(m)
        BY <3>1, <2>2, FS_Subset, FS_CardinalityType DEF Few
      <4> HIDE DEF Sum
      <4> QED
        BY <4>1, <3>3
    <3>5. ASSUME NEW s \in Few(m), s # {} PROVE s \ {Pick(s)} \in Few(m - 1)
      <4>0. PICK x : x = Pick(s)
        OBVIOUS
      <4>1. s \in SUBSET Periods /\ Cardinality(s) <= m
        BY DEF Few
      <4>2. /\ s \ {x} \in SUBSET Periods
            /\ Cardinality(s \ {x}) = Cardinality(s) - 1
            /\ Cardinality(s) \in Nat \ {0}
        BY <4>0, <4>1, <3>5, OneFewer
      <4>3. Cardinality(s \ {x}) <= m - 1
        BY <4>1, <4>2, <2>2
      <4>4. s \ {x} \in Few(m - 1)
        BY <4>2, <4>3 DEF Few
      <4> HIDE DEF Pick
      <4> QED
        BY <4>0, <4>4
    <3>6. ASSUME NEW s \in Few(m) PROVE h[s] = Sum(s, h)
      <4>1. h[s] = Sum(s, g)
        OBVIOUS
      <4>2. s # {} => h[s \ {Pick(s)}] = g[s \ {Pick(s)}]
        BY <3>4, <3>5
      <4> HIDE DEF h, Pick
      <4> QED
        BY <4>1, <4>2
    <3>7. IsTotal(h, side, Few(m))
      <4>1. h = [s \in Few(m) |-> h[s]]
        OBVIOUS
      <4>2. h = [s \in Few(m) |-> Sum(s, h)]
        <5> HIDE DEF h, Sum
        <5> QED
          BY <4>1, <3>6, Zenon
      <4> HIDE DEF h
      <4> QED
        BY <4>2 DEF IsTotal
    <3> QED
      BY <2>2, <3>7
  <2> QED
    BY <2>3, <2>4
<1>2. Cardinality(Periods) \in Nat
  BY FS_CardinalityType
<1>3. Few(Cardinality(Periods)) = SUBSET Periods
  BY <1>2, FS_Subset DEF Few
<1>4. \A n \in Nat : \E h : IsTotal(h, side, Few(n))
  BY <1>1
<1> HIDE DEF Bad
<1> QED
  BY <1>2, <1>3, <1>4

\* The total of a plan is a number when that of each period is.
LEMMA TotalIsANumber ==
  ASSUME IsFiniteSet(Periods), NEW side, \A k \in Periods : rows[k][side] \in Int
  PROVE  Totals(side).sum \in Int
<1>1. PICK h : IsTotal(h, side, SUBSET Periods) /\ Totals(side).sum = h[Periods]
  <2> DEFINE H == CHOOSE h : IsTotal(h, side, SUBSET Periods)
  <2>1. IsTotal(H, side, SUBSET Periods)
    BY TotalExists
  <2>2. Totals(side).sum = H[Periods]
    BY DEF Totals, MapThenSumSet, MapThenFoldSet, IsTotal
  <2> HIDE DEF H
  <2> QED
    BY <2>1, <2>2
<1> DEFINE Bad == {n \in Nat : \E s \in Few(n) : h[s] \notin Int}
<1>2. Bad = {}
  <2> SUFFICES ASSUME Bad # {} PROVE FALSE
    OBVIOUS
  <2>0. Bad \subseteq Nat
    OBVIOUS
  <2>1. PICK m \in Bad : \A k \in Bad : m <= k
    <3> HIDE DEF Bad
    <3> QED
      BY <2>0, LeastNumber
  <2>2. m \in Nat
    OBVIOUS
  <2>3. PICK s \in Few(m) : h[s] \notin Int
    OBVIOUS
  <2>4. PICK x : x = CHOOSE y \in s : TRUE
    OBVIOUS
  <2>5. h[s] = IF s = {} THEN 0 ELSE rows[x][side] + h[s \ {x}]
    BY <1>1, <2>3, <2>4 DEF IsTotal, Few
  <2>6. s # {}
    BY <2>3, <2>5
  <2>7. /\ x \in s /\ s \in SUBSET Periods /\ s \ {x} \in SUBSET Periods
        /\ Cardinality(s \ {x}) = Cardinality(s) - 1
        /\ Cardinality(s) \in Nat \ {0} /\ Cardinality(s) <= m
    BY <2>3, <2>4, <2>6, OneFewer DEF Few
  <2>8. m - 1 \in Nat /\ s \ {x} \in Few(m - 1)
    BY <2>2, <2>7 DEF Few
  <2>9. m - 1 \notin Bad
    BY <2>1, <2>2
  <2>10. h[s \ {x}] \in Int
    BY <2>8, <2>9
  <2> QED
    BY <2>3, <2>5, <2>6, <2>7, <2>10
<1>3. Periods \in Few(Cardinality(Periods)) /\ Cardinality(Periods) \in Nat
  BY FS_CardinalityType DEF Few
<1> QED
  BY <1>1, <1>2, <1>3
-----------------------------------------------------------------------------
(* The invariant *)

Stages == {"asked", "planned", "simulated", "varied", "decided", "refused"}

\* Only a shared plan is optimised.
StageOK == stage \in Stages /\ (stage = "asked" => plan.structure = "shared")

\* The rows, once there are any, are those of the optimiser; a plan that is checked has an optimum for every period.
RowsOK ==
  /\ rows # <<>> => plan.structure = "shared" /\ rows = [k \in Periods |-> Row(k)]
  /\ plan.structure = "shared" /\ stage \in {"planned", "simulated", "varied", "decided"} =>
       rows = [k \in Periods |-> Row(k)] /\ \A k \in Periods : rows[k].best # None

ByPeriods == [basis : {"periods"}, cited : [Periods -> {"error", "critical", "normal"}]]
ByDay == [basis : {"day"}, use : [Periods -> {"within", "above", "missing"}]]
ByLanes == [basis : {"lanes"}, conserved : [Periods -> BOOLEAN]]

\* A simulation is of the kind of the plan, and only today's lanes are tried without one; it fails where the model of a
\* period is not supported, and there only.
SimulatedOK ==
  \/ simulated = [basis |-> "none"] /\ (stage \in {"asked", "planned", "refused"} \/ plan.structure = "today")
  \/ /\ plan.structure = "shared" /\ simulated \in ByPeriods
     /\ \A k \in Periods : simulated.cited[k] = "error" <=> ~Supported(k)
  \/ plan.structure = "shared" /\ simulated \in ByDay
  \/ plan.structure = "separate" /\ simulated \in ByLanes

\* What the trials of a row may have found: the rate that is shown lies within half a step of the exact one.
IsTried(row) ==
  \/ row.supported = FALSE /\ row.adequate = FALSE
  \/ /\ row.supported = TRUE /\ row.adequate \in BOOLEAN
     /\ row.failures \in Nat /\ row.rate \in Int
     /\ row.rate <= Cap => 2 * row.failures * Unit <= (2 * Cap + 1) * Trials

VariedOK == stage \in {"varied", "decided"} => \A p \in Entities : IsTried(varied[p])

\* How the validation's own simulation of a period ended.
EndedOK ==
  stage \in {"varied", "decided"} /\ simulated.basis = "periods" =>
    \A p \in Entities :
      varied[p].ended \in {"error", "critical", "normal"} /\ (varied[p].ended = "error" <=> ~Supported(p[1]))

DecisionOK ==
  /\ stage # "decided" => decision = [status |-> "none", failed |-> {}]
  /\ DOMAIN decision = {"status", "failed"} /\ decision.failed \subseteq Entities

Evidence == plan \in Lines \cup Schedules /\ StageOK /\ RowsOK /\ SimulatedOK /\ VariedOK /\ EndedOK

\* The inductive invariant.
IInv == Evidence /\ DecisionOK /\ AdviceIsEarned /\ FailuresAreNamed /\ OptimumIsNoDearer

-----------------------------------------------------------------------------
(* Trials *)

\* A count that is low whole steps and r more is at most half a step above the cap when low is below the cap, or at
\* the cap and r no more than half a step.
LEMMA HalfAStep ==
  ASSUME NEW low \in Nat, NEW r \in Nat, NEW T \in Nat, NEW C \in Nat, r < T,
         low + 1 <= C \/ (low <= C /\ 2 * r <= T)
  PROVE  2 * (T * low + r) <= (2 * C + 1) * T
<1>1. PICK gap \in Nat : C = low + gap
  <2>1. C - low \in Nat /\ C = low + (C - low)
    OBVIOUS
  <2> QED
    BY <2>1
<1>2. PICK e, f, g : e = T * low /\ f = T * gap /\ g = T * C
  OBVIOUS
<1>3. e \in Nat /\ f \in Nat /\ g \in Nat
  BY <1>1, <1>2
<1>4. g = e + f
  BY <1>1, <1>2
<1>5. gap # 0 => T <= f
  <2>1. ASSUME gap # 0 PROVE f = T + T * (gap - 1) /\ T * (gap - 1) \in Nat
    BY <1>2, <2>1
  <2> QED
    BY <2>1
<1>6. 2 * (T * low + r) = 2 * e + 2 * r
  BY <1>2, <1>3
<1>7. (2 * C + 1) * T = 2 * g + T
  BY <1>2, <1>3
<1>8. gap # 0 \/ 2 * r <= T
  BY <1>1
<1> QED
  BY <1>3, <1>4, <1>5, <1>6, <1>7, <1>8

\* A rate within the cap, rounded half to even, was at most half a step above it.
LEMMA RoundedRate ==
  ASSUME NEW scaled \in Nat, NEW low, low = scaled \div Trials, NEW rest, rest = 2 * (scaled % Trials),
         NEW rate, rate = IF rest > Trials \/ (rest = Trials /\ low % 2 = 1) THEN low + 1 ELSE low
  PROVE  rate \in Int /\ (rate <= Cap => 2 * scaled <= (2 * Cap + 1) * Trials)
<1>1. Trials \in Nat \ {0} /\ Cap \in Nat
  BY PlanDecisionAssumption
<1>2. PICK r : r = scaled % Trials
  OBVIOUS
<1>3. low \in Nat /\ r \in 0 .. Trials - 1 /\ scaled = Trials * low + r
  BY <1>1, <1>2
<1>4. rate \in {low, low + 1} /\ (rate = low => 2 * r <= Trials)
  BY <1>2, <1>3, <1>1
<1>5. ASSUME rate <= Cap PROVE 2 * scaled <= (2 * Cap + 1) * Trials
  <2>1. low \in Nat /\ r \in Nat /\ r < Trials /\ Trials \in Nat
    BY <1>1, <1>3
  <2>2. CASE rate = low
    BY <1>1, <1>3, <1>4, <1>5, <2>1, <2>2, HalfAStep
  <2>3. CASE rate = low + 1
    <3>1. low + 1 <= Cap
      BY <1>5, <2>3
    <3> QED
      BY <1>1, <1>3, <2>1, <3>1, HalfAStep
  <2> QED
    BY <1>4, <2>2, <2>3
<1> QED
  BY <1>3, <1>4, <1>5

\* What the trials of a row come to is what a Decision may rely on.
LEMMA TriedIsTried ==
  ASSUME NEW p, NEW outcome, NEW ended, Supported(p[1]) => outcome \in Outcomes
  PROVE  IsTried(Tried(p, outcome, ended)) /\ Tried(p, outcome, ended).ended = ended
<1>1. CASE ~ Supported(p[1])
  BY <1>1 DEF Tried, IsTried
<1>2. CASE Supported(p[1])
  <2>1. outcome.failures \in Nat /\ outcome.adequate \in BOOLEAN /\ Unit \in Nat
    BY <1>2, PlanDecisionAssumption
  <2>2. PICK scaled : scaled = outcome.failures * Unit
    OBVIOUS
  <2>3. PICK low : low = scaled \div Trials
    OBVIOUS
  <2>4. PICK rest : rest = 2 * (scaled % Trials)
    OBVIOUS
  <2>5. PICK rate : rate = IF rest > Trials \/ (rest = Trials /\ low % 2 = 1) THEN low + 1 ELSE low
    OBVIOUS
  <2>6. scaled \in Nat
    BY <2>1, <2>2
  <2>7. rate \in Int /\ (rate <= Cap => 2 * scaled <= (2 * Cap + 1) * Trials)
    BY <2>3, <2>4, <2>5, <2>6, RoundedRate
  <2>8. Tried(p, outcome, ended) = [ended |-> ended, supported |-> TRUE, failures |-> outcome.failures,
                                    adequate |-> outcome.adequate, rate |-> rate]
    BY <1>2, <2>2, <2>3, <2>4, <2>5 DEF Tried
  <2>9. 2 * outcome.failures * Unit = 2 * scaled
    BY <2>1, <2>2
  <2> QED
    BY <2>1, <2>7, <2>8, <2>9 DEF IsTried
<1> QED
  BY <1>1, <1>2

-----------------------------------------------------------------------------
(* Costs of a plan *)

\* There is an optimum when a count keeps the limits.
LEMMA OptimumExists ==
  ASSUME NEW d \in Nat, NEW kind
  PROVE  Best(kind, d) # None <=> Admitted(kind, d) # {}
<1>1. Admitted(kind, d) = {} => Best(kind, d) = None
  BY DEF Best, Admitted
<1>2. Admitted(kind, d) # {} => Best(kind, d) \in Nat
  BY BestIsCheapest, CapacityAssumption DEF Admitted
<1>3. None \notin Nat
  BY DEF None
<1> QED
  BY <1>1, <1>2, <1>3

\* A period of a shared plan.
LEMMA PeriodOK ==
  ASSUME plan \in Lines, NEW k \in Periods
  PROVE  plan.demand[k] \in Nat /\ plan.staff[k] \in Nat
BY PlanDecisionAssumption DEF Lines

\* The optimum of a period is no dearer than what is done today, where that keeps the limits.
LEMMA PeriodIsNoDearer ==
  ASSUME plan \in Lines, NEW k \in Periods, NEW row, row = Row(k),
         plan.staff[k] \in MinServers .. Limit, Admits(plan.kind[k], plan.demand[k], plan.staff[k])
  PROVE  /\ row.best # None
         /\ CostOf(plan.kind[k], plan.demand[k], row.best) <= CostOf(plan.kind[k], plan.demand[k], plan.staff[k])
<1>1. row.best = Best(plan.kind[k], plan.demand[k])
  BY DEF Row
<1>2. plan.demand[k] \in Nat
  BY PeriodOK
<1>3. plan.staff[k] \in Admitted(plan.kind[k], plan.demand[k])
  BY DEF Admitted
<1> QED
  BY <1>1, <1>2, <1>3, BestIsCheapest, OptimumExists

\* The costs of a period are numbers, and today's is unknown exactly when the period is overloaded.
LEMMA PeriodCosts ==
  ASSUME plan \in Lines, NEW k \in Periods, NEW row, row = Row(k), row.best # None
  PROVE  /\ row.costNow \in Int /\ row.costBest \in Int
         /\ row.costNow = None <=> plan.demand[k] >= plan.staff[k] * ServiceRate
<1>1. PICK d, c, kind : d = plan.demand[k] /\ c = plan.staff[k] /\ kind = plan.kind[k]
  OBVIOUS
<1>2. d \in Nat /\ c \in Nat
  BY <1>1, PeriodOK
<1>3. c * ServiceRate \in Nat
  BY <1>2, CapacityAssumption
<1>4. Stable(d, c) <=> ~ (d >= c * ServiceRate)
  BY <1>2, <1>3 DEF Stable
<1>5. CostOf(kind, d, c) = None <=> ~ Stable(d, c)
  BY <1>2, CostIsANumber DEF CostOf, None
<1>6. CostOf(kind, d, c) \in Int
  BY <1>2, CostIsANumber DEF CostOf, None
<1>7. row.best = Best(kind, d) /\ row.costNow = CostOf(kind, d, c) /\ row.costBest = CostOf(kind, d, Best(kind, d))
  BY <1>1 DEF Row
<1>8. Best(kind, d) \in Nat /\ Stable(d, Best(kind, d))
  BY <1>2, <1>7, OptimumExists, BestIsCheapest, CapacityAssumption DEF Admitted, Admits
<1>9. row.costBest \in Int
  BY <1>2, <1>7, <1>8, CostIsANumber
<1> QED
  BY <1>1, <1>4, <1>5, <1>6, <1>7, <1>9

\* A shared plan that is checked is costed.
LEMMA PlanIsCosted ==
  ASSUME plan \in Lines \cup Schedules, RowsOK, plan.structure = "shared",
         stage \in {"planned", "simulated", "varied", "decided"}
  PROVE  /\ \A k \in Periods : rows[k].costNow = None <=> plan.demand[k] >= plan.staff[k] * ServiceRate
         /\ Totals("costNow").sum \in Int /\ Totals("costBest").sum \in Int
<1>1. plan \in Lines
  BY DEF Schedules
<1>2. \A k \in Periods : rows[k] = Row(k) /\ rows[k].best # None
  BY DEF RowsOK
<1>3. ASSUME NEW k \in Periods
      PROVE  /\ rows[k].costNow \in Int /\ rows[k].costBest \in Int
             /\ rows[k].costNow = None <=> plan.demand[k] >= plan.staff[k] * ServiceRate
  BY <1>1, <1>2, PeriodCosts
<1>4. \A k \in Periods : rows[k]["costNow"] \in Int /\ rows[k]["costBest"] \in Int
  BY <1>3
<1>5. IsFiniteSet(Periods)
  BY PlanDecisionAssumption
<1>6. Totals("costNow").sum \in Int /\ Totals("costBest").sum \in Int
  BY <1>4, <1>5, TotalIsANumber
<1> QED
  BY <1>3, <1>6

\* The row of a period can be compared when the period is not overloaded today.
LEMMA RowIsComparable ==
  ASSUME plan \in Lines \cup Schedules, RowsOK, plan.structure = "shared",
         stage \in {"planned", "simulated", "varied", "decided"}, NEW k \in Periods
  PROVE  /\ Comparable(k) <=> rows[k].stable
         /\ rows[k].stable <=> ~ (plan.demand[k] >= plan.staff[k] * ServiceRate)
<1>1. plan \in Lines
  BY DEF Schedules
<1>2. rows[k] = Row(k) /\ rows[k].best # None
  BY DEF RowsOK
<1>3. PICK d, c, kind : d = plan.demand[k] /\ c = plan.staff[k] /\ kind = plan.kind[k]
  OBVIOUS
<1>4. d \in Nat /\ c \in Nat
  BY <1>1, <1>3, PeriodOK
<1>5. c * ServiceRate \in Nat
  BY <1>4, CapacityAssumption
<1>6. Stable(d, c) <=> ~ (d >= c * ServiceRate)
  BY <1>4, <1>5 DEF Stable
<1>7. rows[k].stable = Stable(d, c) /\ rows[k].costNow = CostOf(kind, d, c) /\ rows[k].best = Best(kind, d)
      /\ rows[k].costBest = CostOf(kind, d, Best(kind, d))
  BY <1>2, <1>3 DEF Row
<1>8. Best(kind, d) \in Nat /\ Stable(d, Best(kind, d))
  BY <1>2, <1>4, <1>7, OptimumExists, BestIsCheapest, CapacityAssumption DEF Admitted, Admits
<1>9. rows[k].costBest >= 0
  BY <1>4, <1>7, <1>8, CostIsANumber
<1>10. Stable(d, c) => rows[k].costNow >= 0
  BY <1>4, <1>7, CostIsANumber
<1>11. Comparable(k) <=> rows[k].stable
  BY <1>2, <1>7, <1>9, <1>10 DEF Comparable
<1> QED
  BY <1>3, <1>6, <1>7, <1>11

\* The plan is adopted when it saves, and no period is overloaded today.
Saves ==
  LET overloaded == \E k \in Periods : plan.demand[k] >= plan.staff[k] * ServiceRate
      dearer == Totals("costNow").sum < Totals("costBest").sum
  IN ~overloaded /\ ~dearer

\* The summary shows a saving of exactly such a plan, and names a period where it shows none.
SummaryAgrees ==
  /\ Summary.complete /\ Summary.savings >= 0 <=> Saves
  /\ Summary.complete <=> WhyNoSaving = {}

\* The costs of a plan that is checked are known but for the periods that are overloaded today.
LEMMA SummaryIsTrue ==
  ASSUME plan \in Lines \cup Schedules, RowsOK, plan.structure = "shared",
         stage \in {"planned", "simulated", "varied", "decided"}
  PROVE  SummaryAgrees
<1>1. PICK a, b : a = Totals("costNow").sum /\ b = Totals("costBest").sum
  OBVIOUS
<1>2. a \in Int /\ b \in Int
  BY <1>1, PlanIsCosted
<1>3. \A k \in Periods : Comparable(k) <=> rows[k].stable
  BY RowIsComparable
<1>4. \A k \in Periods : rows[k].stable <=> ~ (plan.demand[k] >= plan.staff[k] * ServiceRate)
  BY RowIsComparable
<1>5. PICK complete \in BOOLEAN : complete <=> \A k \in Periods : rows[k].stable
  OBVIOUS
<1>6. Summary.complete <=> complete
  BY <1>3, <1>5 DEF Summary
<1>7. Summary.savings = IF complete THEN a - b ELSE None
  BY <1>1, <1>3, <1>5 DEF Summary
<1>8. complete <=> ~ \E k \in Periods : plan.demand[k] >= plan.staff[k] * ServiceRate
  BY <1>4, <1>5
<1>9. complete => (Summary.savings >= 0 <=> ~ (a < b))
  BY <1>2, <1>7
<1>10. Summary.complete /\ Summary.savings >= 0 <=> Saves
  BY <1>1, <1>6, <1>8, <1>9 DEF Saves
<1>11. Summary.complete <=> WhyNoSaving = {}
  BY <1>5, <1>6 DEF WhyNoSaving
<1> QED
  BY <1>10, <1>11 DEF SummaryAgrees

\* What passing checks come to is exactly that.
LEMMA CostDecides ==
  ASSUME plan \in Lines \cup Schedules, RowsOK, plan.structure = "shared",
         stage \in {"planned", "simulated", "varied", "decided"}
  PROVE  ByCost \in {"adopt", "conditional"} /\ (ByCost = "adopt" <=> Saves)
<1>1. PICK a, b : a = Totals("costNow").sum /\ b = Totals("costBest").sum
  OBVIOUS
<1>2. a \in Int /\ b \in Int
  BY <1>1, PlanIsCosted
<1>3. a >= b <=> ~ (a < b)
  BY <1>2
<1>4. Overloaded = {} <=> ~ \E k \in Periods : plan.demand[k] >= plan.staff[k] * ServiceRate
  BY PlanIsCosted DEF Overloaded
<1>5. ByCost = IF Overloaded # {} THEN "conditional" ELSE IF a >= b THEN "adopt" ELSE "conditional"
  BY <1>1 DEF ByCost
<1>6. Saves <=> Overloaded = {} /\ a >= b
  BY <1>1, <1>3, <1>4 DEF Saves
<1> QED
  BY <1>5, <1>6

\* The first half of OptimumIsNoDearer.
RowsAreNoDearer ==
  \A k \in DOMAIN rows :
    LET today == plan.staff[k]
    IN today \in MinServers .. Limit /\ Admits(plan.kind[k], plan.demand[k], today) =>
         /\ rows[k].best # None
         /\ CostOf(plan.kind[k], plan.demand[k], rows[k].best) <= CostOf(plan.kind[k], plan.demand[k], today)

\* It holds of the optimiser's rows.
LEMMA OptimisedRows ==
  ASSUME plan \in Lines \cup Schedules, RowsOK
  PROVE  RowsAreNoDearer
<1>1. CASE rows = <<>>
  BY <1>1 DEF RowsAreNoDearer
<1>2. CASE rows # <<>>
  <2>1. plan \in Lines
    BY <1>2 DEF RowsOK, Schedules
  <2>2. DOMAIN rows = Periods /\ \A k \in Periods : rows[k] = Row(k)
    BY <1>2 DEF RowsOK
  <2>3. ASSUME NEW k \in Periods, plan.staff[k] \in MinServers .. Limit,
               Admits(plan.kind[k], plan.demand[k], plan.staff[k])
        PROVE  /\ rows[k].best # None
               /\ CostOf(plan.kind[k], plan.demand[k], rows[k].best)
                    <= CostOf(plan.kind[k], plan.demand[k], plan.staff[k])
    BY <2>1, <2>2, <2>3, PeriodIsNoDearer
  <2> QED
    BY <2>2, <2>3 DEF RowsAreNoDearer
<1> QED
  BY <1>1, <1>2

-----------------------------------------------------------------------------
(* Decisions *)

\* What the properties ask of a Decision before it is written.
Earned(status) ==
  status \in {"adopt", "conditional"} =>
    \A p \in Entities :
      /\ varied[p].supported /\ varied[p].adequate
      /\ WithinCap(p, plan.structure = "separate")
      /\ simulated.basis # "none" =>
           CASE simulated.basis = "periods" -> varied[p].ended = "normal" /\ simulated.cited[p[1]] # "error"
             [] simulated.basis = "day" -> simulated.use[p[1]] = "within"
             [] simulated.basis = "lanes" -> simulated.conserved[p[1]]

Named(status, failed) ==
  /\ Hidden => status = "insufficient" /\ failed = {}
  /\ ~Hidden => failed = {p \in Entities : Failing(p)}
  /\ status = "revise" <=>
       failed # {} /\ (plan.structure = "separate" => \A k \in Periods : simulated.conserved[k])

Saving(status) == plan.structure = "shared" /\ status \in {"adopt", "conditional"} => (status = "adopt" <=> Saves)

\* A Decision of that kind keeps the invariant.
LEMMA DecidedKeepsInvariant ==
  ASSUME IInv, stage = "varied", NEW status, NEW failed, Decided(status, failed),
         failed \subseteq Entities, Earned(status), Named(status, failed), Saving(status)
  PROVE  IInv'
<1>1. /\ decision' = [status |-> status, failed |-> failed] /\ stage' = "decided"
      /\ UNCHANGED <<plan, rows, simulated, varied>>
  BY DEF Decided
<1>2. Evidence'
  <2>1. StageOK'
    BY <1>1 DEF StageOK, Stages
  <2>2. RowsOK'
    BY <1>1 DEF IInv, Evidence, RowsOK, Row
  <2>3. SimulatedOK'
    BY <1>1 DEF IInv, Evidence, SimulatedOK, Supported
  <2>4. VariedOK' /\ EndedOK'
    BY <1>1 DEF IInv, Evidence, VariedOK, EndedOK, IsTried, Entities, Supported
  <2> QED
    BY <1>1, <2>1, <2>2, <2>3, <2>4 DEF IInv, Evidence
<1>3. Entities' = Entities
  BY <1>1 DEF Entities
<1>4. DecisionOK'
  BY <1>1, <1>3 DEF DecisionOK
<1>5. AdviceIsEarned'
  BY <1>1, <1>3 DEF AdviceIsEarned, Earned, WithinCap
<1>6. FailuresAreNamed'
  <2>1. \A p : Failing(p)' <=> Failing(p)
    BY <1>1 DEF Failing, WithinCap
  <2>2. Hidden' <=> Hidden
    BY <1>1 DEF Hidden, Supported
  <2>3. Hidden => decision' = [status |-> "insufficient", failed |-> {}]
    BY <1>1 DEF Named
  <2> QED
    BY <1>1, <1>3, <2>1, <2>2, <2>3 DEF FailuresAreNamed, Named
<1>7. OptimumIsNoDearer'
  <2>1. RowsAreNoDearer'
    BY <1>1, OptimisedRows DEF IInv, Evidence, RowsAreNoDearer
  <2>2. Saves' <=> Saves
    <3>1. Totals("costNow")' = Totals("costNow") /\ Totals("costBest")' = Totals("costBest")
      BY <1>1 DEF Totals, MapThenSumSet, MapThenFoldSet
    <3> QED
      BY <1>1, <3>1 DEF Saves
  <2>3. plan.structure = "shared" => SummaryAgrees'
    <3> SUFFICES ASSUME plan.structure = "shared" PROVE SummaryAgrees'
      OBVIOUS
    <3>1. (plan \in Lines \cup Schedules /\ RowsOK /\ plan.structure = "shared")'
      BY <1>1, <1>2 DEF Evidence
    <3>2. (stage \in {"planned", "simulated", "varied", "decided"})'
      BY <1>1
    <3> QED
      BY <3>1, <3>2, SummaryIsTrue, PTL
  <2> QED
    BY <1>1, <2>1, <2>2, <2>3 DEF OptimumIsNoDearer, RowsAreNoDearer, Saving, Saves, SummaryAgrees
<1> QED
  BY <1>2, <1>4, <1>5, <1>6, <1>7 DEF IInv

\* What a Decision may be made of: Evidence, and the stage it is made at.
LEMMA WhenVaried ==
  ASSUME IInv, stage = "varied"
  PROVE  /\ \A p \in Entities : IsTried(varied[p])
         /\ plan.structure \in {"shared", "separate", "today"}
         /\ simulated.basis = "periods" =>
              /\ plan.structure = "shared"
              /\ \A k \in Periods : simulated.cited[k] = "error" <=> ~Supported(k)
              /\ \A p \in Entities :
                   varied[p].ended \in {"error", "critical", "normal"} /\ (varied[p].ended = "error" <=> ~Supported(p[1]))
         /\ simulated.basis = "day" =>
              plan.structure = "shared" /\ simulated.use \in [Periods -> {"within", "above", "missing"}]
         /\ simulated.basis = "none" => plan.structure = "today"
         /\ plan.structure = "separate" => simulated.basis = "lanes" /\ simulated.conserved \in [Periods -> BOOLEAN]
         /\ plan.structure = "today" => simulated.basis = "none"
         /\ plan.structure = "shared" => simulated.basis \in {"periods", "day"}
<1>1. SimulatedOK /\ VariedOK /\ EndedOK /\ plan.structure \in {"shared", "separate", "today"}
  BY DEF IInv, Evidence, Lines, Schedules
<1>2. \A p \in Entities : IsTried(varied[p])
  BY <1>1 DEF VariedOK
<1> QED
  BY <1>1, <1>2 DEF SimulatedOK, EndedOK, ByPeriods, ByDay, ByLanes

\* A Decision period by period.
LEMMA PeriodsKeepInvariant ==
  ASSUME IInv, DecideByPeriods
  PROVE  IInv'
<1>1. stage = "varied" /\ simulated.basis = "periods"
  BY DEF DecideByPeriods
<1>2. /\ plan.structure = "shared" /\ Entities = Periods \X {None}
      /\ \A p \in Entities : IsTried(varied[p])
      /\ \A k \in Periods : simulated.cited[k] = "error" <=> ~Supported(k)
      /\ \A p \in Entities :
           varied[p].ended \in {"error", "critical", "normal"} /\ (varied[p].ended = "error" <=> ~Supported(p[1]))
  BY <1>1, WhenVaried DEF Entities
<1> DEFINE failed == {k \in Periods : ~RowPasses(k)}
<1>3. CASE \E k \in Periods : simulated.cited[k] = "error"
  <2>1. Decided("insufficient", {})
    BY <1>1, <1>3 DEF DecideByPeriods
  <2>2. Hidden
    BY <1>1, <1>2, <1>3 DEF Hidden
  <2>3. Earned("insufficient") /\ Named("insufficient", {}) /\ Saving("insufficient")
    BY <1>1, <2>2 DEF Earned, Named, Saving
  <2> QED
    BY <1>1, <2>1, <2>3, DecidedKeepsInvariant
<1>4. CASE ~ \E k \in Periods : simulated.cited[k] = "error"
  <2>1. PICK status : status = IF failed # {} THEN "revise" ELSE ByCost
    OBVIOUS
  <2>2. Decided(status, failed \X {None})
    BY <1>1, <1>4, <2>1 DEF DecideByPeriods
  <2>3. ByCost \in {"adopt", "conditional"} /\ (ByCost = "adopt" <=> Saves)
    BY <1>1, <1>2, CostDecides DEF IInv, Evidence
  <2>4. Earned(status)
    <3> SUFFICES ASSUME status \in {"adopt", "conditional"}, NEW p \in Entities
                 PROVE  /\ varied[p].supported /\ varied[p].adequate
                        /\ WithinCap(p, FALSE)
                        /\ varied[p].ended = "normal" /\ simulated.cited[p[1]] # "error"
      BY <1>1, <1>2 DEF Earned
    <3>1. failed = {}
      BY <2>1
    <3>2. p[1] \in Periods /\ p = <<p[1], None>>
      BY <1>2
    <3>3. RowPasses(p[1])
      BY <3>1, <3>2
    <3>4. varied[p].supported /\ varied[p].adequate /\ varied[p].rate <= Cap /\ varied[p].ended = "normal"
      BY <3>2, <3>3 DEF RowPasses
    <3>5. IsTried(varied[p])
      BY <1>2
    <3> QED
      BY <1>4, <3>2, <3>4, <3>5 DEF IsTried, WithinCap
  <2>5. Named(status, failed \X {None})
    <3>1. ~ Hidden
      BY <1>2, <1>4 DEF Hidden
    <3>2. ASSUME NEW k \in Periods PROVE ~RowPasses(k) <=> Failing(<<k, None>>)
      <4>1. PICK row : row = varied[<<k, None>>]
        OBVIOUS
      <4>2. IsTried(row) /\ row.ended \in {"critical", "normal"}
        <5>1. <<k, None>> \in Entities /\ <<k, None>>[1] = k
          BY <1>2
        <5>2. Supported(k)
          BY <1>2, <1>4
        <5> QED
          BY <1>2, <4>1, <5>1, <5>2
      <4>3. RowPasses(k) <=> row.supported /\ row.adequate /\ row.rate <= Cap /\ row.ended = "normal"
        BY <4>1 DEF RowPasses
      <4>4. Failing(<<k, None>>) <=> (row.adequate /\ row.rate > Cap) \/ row.ended = "critical" \/ ~row.adequate
        BY <1>1, <1>2, <4>1 DEF Failing
      <4>5. Cap \in Int
        BY PlanDecisionAssumption
      <4>6. row.adequate => row.supported = TRUE /\ row.rate \in Int
        BY <4>2 DEF IsTried
      <4>7. row.adequate => (row.rate > Cap <=> ~(row.rate <= Cap))
        BY <4>5, <4>6
      <4> QED
        BY <4>2, <4>3, <4>4, <4>6, <4>7
    <3>3. failed \X {None} = {p \in Entities : Failing(p)}
      <4>1. \A k \in Periods : k \in failed <=> Failing(<<k, None>>)
        BY <3>2
      <4>2. failed \subseteq Periods
        OBVIOUS
      <4> HIDE DEF failed
      <4> QED
        BY <1>2, <4>1, <4>2
    <3>4. status = "revise" <=> failed # {}
      BY <2>1, <2>3
    <3>5. failed \X {None} # {} <=> failed # {}
      <4>1. \A k \in failed : <<k, None>> \in failed \X {None}
        OBVIOUS
      <4> QED
        BY <4>1
    <3> QED
      BY <1>2, <3>1, <3>3, <3>4, <3>5 DEF Named
  <2>6. Saving(status)
    BY <2>1, <2>3 DEF Saving
  <2>7. failed \X {None} \subseteq Entities
    BY <1>2
  <2> HIDE DEF failed
  <2> QED
    BY <1>1, <2>2, <2>4, <2>5, <2>6, <2>7, DecidedKeepsInvariant
<1> QED
  BY <1>3, <1>4

\* The verdict of a period, or of a set of verdicts.
LEMMA WorstOf ==
  ASSUME NEW verdicts, verdicts \subseteq {"pass", "fail", "insufficient"}
  PROVE  /\ Worst(verdicts) \in {"pass", "fail", "insufficient"}
         /\ Worst(verdicts) = "fail" <=> "fail" \in verdicts
         /\ Worst(verdicts) = "pass" <=> verdicts \subseteq {"pass"}
BY DEF Worst

\* A period fails or passes in a day run as the properties say.
LEMMA DayVerdictIsRight ==
  ASSUME IInv, stage = "varied", simulated.basis = "day", NEW k \in Periods
  PROVE  /\ DayVerdict(k) \in {"pass", "fail", "insufficient"}
         /\ DayVerdict(k) = "fail" <=> Failing(<<k, None>>)
         /\ DayVerdict(k) = "pass" =>
              /\ varied[<<k, None>>].supported /\ varied[<<k, None>>].adequate
              /\ WithinCap(<<k, None>>, FALSE) /\ simulated.use[k] = "within"
<1>1. plan.structure = "shared" /\ simulated.use[k] \in {"within", "above", "missing"}
  BY WhenVaried
<1>2. PICK row : row = varied[<<k, None>>]
  OBVIOUS
<1>3. IsTried(row)
  <2>1. <<k, None>> \in Entities
    BY <1>1 DEF Entities
  <2> QED
    BY <1>2, <2>1, WhenVaried
<1>4. PICK use : use = simulated.use[k]
  OBVIOUS
<1>5. PICK day : day = CASE use = "missing" -> "insufficient" [] use = "above" -> "fail" [] use = "within" -> "pass"
  OBVIOUS
<1>6. PICK trials : trials = IF ~row.supported \/ ~row.adequate THEN "insufficient"
                             ELSE IF row.rate > Cap THEN "fail" ELSE "pass"
  OBVIOUS
<1>7. DayVerdict(k) = Worst({day, trials})
  BY <1>2, <1>4, <1>5, <1>6 DEF DayVerdict
<1>8. day \in {"pass", "fail", "insufficient"} /\ (day = "fail" <=> use = "above") /\ (day = "pass" => use = "within")
  BY <1>1, <1>4, <1>5
<1>9. Cap \in Nat
  BY PlanDecisionAssumption
<1>10. /\ trials \in {"pass", "fail", "insufficient"}
       /\ trials = "fail" <=> row.adequate /\ row.rate > Cap
       /\ trials = "pass" => row.supported /\ row.adequate /\ row.rate <= Cap
  BY <1>3, <1>6, <1>9 DEF IsTried
<1>11. Failing(<<k, None>>) <=> (row.adequate /\ row.rate > Cap) \/ use = "above"
  BY <1>1, <1>2, <1>4 DEF Failing
<1>12. row.supported /\ row.rate <= Cap => WithinCap(<<k, None>>, FALSE)
  BY <1>2, <1>3 DEF IsTried, WithinCap
<1>13. PICK verdicts : verdicts = {day, trials}
  OBVIOUS
<1>14. /\ verdicts \subseteq {"pass", "fail", "insufficient"}
       /\ "fail" \in verdicts <=> day = "fail" \/ trials = "fail"
       /\ verdicts \subseteq {"pass"} <=> day = "pass" /\ trials = "pass"
  BY <1>8, <1>10, <1>13
<1> QED
  BY <1>2, <1>4, <1>7, <1>8, <1>10, <1>11, <1>12, <1>13, <1>14, WorstOf

\* A Decision from a day run.
LEMMA DayKeepsInvariant ==
  ASSUME IInv, DecideByDay
  PROVE  IInv'
<1>1. stage = "varied" /\ simulated.basis = "day"
  BY DEF DecideByDay
<1>2. plan.structure = "shared" /\ Entities = Periods \X {None}
  BY <1>1, WhenVaried DEF Entities
<1>3. PICK failed : failed = {k \in Periods : DayVerdict(k) = "fail"}
  OBVIOUS
<1>4. PICK status : status = CASE failed # {} -> "revise"
                  [] failed = {} /\ \E k \in Periods : DayVerdict(k) = "insufficient" -> "insufficient"
                  [] \A k \in Periods : DayVerdict(k) = "pass" -> ByCost
  OBVIOUS
<1>5. Decided(status, failed \X {None})
  BY <1>1, <1>3, <1>4 DEF DecideByDay
<1>6. \A k \in Periods : DayVerdict(k) \in {"pass", "fail", "insufficient"}
  BY <1>1, DayVerdictIsRight
<1>7. ByCost \in {"adopt", "conditional"} /\ (ByCost = "adopt" <=> Saves)
  BY <1>1, <1>2, CostDecides DEF IInv, Evidence
<1>8. /\ status = "revise" <=> failed # {}
      /\ status \in {"adopt", "conditional"} => (\A k \in Periods : DayVerdict(k) = "pass") /\ status = ByCost
  <2>1. CASE failed # {}
    BY <1>3, <1>4, <2>1
  <2>2. CASE failed = {} /\ \E k \in Periods : DayVerdict(k) = "insufficient"
    BY <1>4, <2>2
  <2>3. CASE failed = {} /\ \A k \in Periods : DayVerdict(k) = "pass"
    BY <1>4, <1>7, <2>3
  <2> QED
    BY <1>3, <1>6, <2>1, <2>2, <2>3
<1>9. Earned(status)
  <2> SUFFICES ASSUME status \in {"adopt", "conditional"}, NEW p \in Entities
               PROVE  /\ varied[p].supported /\ varied[p].adequate
                      /\ WithinCap(p, FALSE) /\ simulated.use[p[1]] = "within"
    BY <1>1, <1>2 DEF Earned
  <2>1. p[1] \in Periods /\ p = <<p[1], None>>
    BY <1>2
  <2>2. DayVerdict(p[1]) = "pass"
    BY <1>8, <2>1
  <2> QED
    BY <1>1, <2>1, <2>2, DayVerdictIsRight
<1>10. failed \X {None} = {p \in Entities : Failing(p)}
  <2>1. ASSUME NEW k \in Periods PROVE k \in failed <=> Failing(<<k, None>>)
    BY <1>1, <1>3, DayVerdictIsRight
  <2>2. failed \subseteq Periods
    BY <1>3
  <2> QED
    BY <1>2, <2>1, <2>2
<1>11. Named(status, failed \X {None})
  <2>1. \A k \in failed : <<k, None>> \in failed \X {None}
    OBVIOUS
  <2>2. failed \X {None} # {} <=> failed # {}
    BY <2>1
  <2> QED
    BY <1>1, <1>2, <1>8, <1>10, <2>2 DEF Named, Hidden
<1>12. Saving(status)
  BY <1>7, <1>8 DEF Saving
<1>13. failed \X {None} \subseteq Entities
  BY <1>10
<1> QED
  BY <1>1, <1>5, <1>9, <1>11, <1>12, <1>13, DecidedKeepsInvariant

\* A lane fails or passes as the properties say.
LEMMA LaneVerdictIsRight ==
  ASSUME IInv, stage = "varied", NEW p \in Entities, NEW exact \in BOOLEAN
  PROVE  /\ LaneVerdict(p, exact) \in {"pass", "fail", "insufficient"}
         /\ LaneVerdict(p, exact) = "fail" <=>
              varied[p].adequate /\ (IF exact THEN ~WithinCap(p, TRUE) ELSE varied[p].rate > Cap)
         /\ LaneVerdict(p, exact) = "pass" => varied[p].supported /\ varied[p].adequate /\ WithinCap(p, exact)
<1>1. PICK row : row = varied[p]
  OBVIOUS
<1>2. IsTried(row)
  BY <1>1, WhenVaried
<1>3. Cap \in Nat /\ Unit \in Nat /\ Trials \in Nat
  BY PlanDecisionAssumption
<1>4. row.supported => row.failures * Unit \in Nat /\ Cap * Trials \in Nat
  BY <1>2, <1>3 DEF IsTried
<1>5. row.adequate => row.supported
  BY <1>2 DEF IsTried
<1>6. CASE exact = TRUE
  <2>1. LaneVerdict(p, exact) = IF ~row.supported \/ ~row.adequate THEN "insufficient"
                                ELSE IF row.failures * Unit > Cap * Trials THEN "fail" ELSE "pass"
    BY <1>1, <1>6 DEF LaneVerdict
  <2>2. WithinCap(p, exact) <=> row.failures * Unit <= Cap * Trials
    BY <1>1, <1>6 DEF WithinCap
  <2>3. row.supported => (row.failures * Unit > Cap * Trials <=> ~(row.failures * Unit <= Cap * Trials))
    BY <1>4
  <2> QED
    BY <1>1, <1>5, <1>6, <2>1, <2>2, <2>3
<1>7. CASE exact = FALSE
  <2>1. LaneVerdict(p, exact) = IF ~row.supported \/ ~row.adequate THEN "insufficient"
                                ELSE IF row.rate > Cap THEN "fail" ELSE "pass"
    BY <1>1, <1>7 DEF LaneVerdict
  <2>2. WithinCap(p, exact) <=> 2 * row.failures * Unit <= (2 * Cap + 1) * Trials
    BY <1>1, <1>7 DEF WithinCap
  <2>3. row.supported => row.rate > Cap \/ 2 * row.failures * Unit <= (2 * Cap + 1) * Trials
    BY <1>2, <1>3 DEF IsTried
  <2> QED
    BY <1>1, <1>5, <1>7, <2>1, <2>2, <2>3
<1> QED
  BY <1>6, <1>7

\* What a set of lane verdicts comes to.
LEMMA StatusIsRight ==
  ASSUME NEW verdicts, verdicts \subseteq {"pass", "fail", "insufficient"},
         NEW status, status = StatusOf(Worst(verdicts))
  PROVE  /\ status = "revise" <=> "fail" \in verdicts
         /\ status # "adopt"
         /\ status = "conditional" => verdicts \subseteq {"pass"}
BY WorstOf DEF StatusOf

\* A Decision about the lanes of a selected plan.
LEMMA LanesKeepInvariant ==
  ASSUME IInv, DecideByLanes
  PROVE  IInv'
<1>1. stage = "varied" /\ plan.structure = "separate"
  BY DEF DecideByLanes
<1>2. simulated.basis = "lanes" /\ simulated.conserved \in [Periods -> BOOLEAN]
  BY <1>1, WhenVaried
<1>3. \A p \in Entities : p[1] \in Periods
  BY <1>1 DEF Entities
<1>4. PICK failed : failed = {p \in Entities : SelectedVerdict(p) = "fail"}
  OBVIOUS
<1>5. ASSUME NEW p \in Entities
      PROVE  /\ SelectedVerdict(p) \in {"pass", "fail", "insufficient"}
             /\ SelectedVerdict(p) = "fail" <=> Failing(p)
             /\ SelectedVerdict(p) = "pass" =>
                  /\ varied[p].supported /\ varied[p].adequate
                  /\ WithinCap(p, TRUE) /\ simulated.conserved[p[1]]
  <2>1. Failing(p) <=> varied[p].adequate /\ ~WithinCap(p, TRUE) /\ simulated.conserved[p[1]]
    BY <1>1 DEF Failing
  <2> QED
    BY <1>1, <2>1, LaneVerdictIsRight DEF SelectedVerdict
<1>6. failed = {p \in Entities : Failing(p)}
  BY <1>4, <1>5
<1>7. PICK verdicts : verdicts = {SelectedVerdict(p) : p \in Entities}
  OBVIOUS
<1>8. verdicts \subseteq {"pass", "fail", "insufficient"} /\ ("fail" \in verdicts <=> failed # {})
  BY <1>4, <1>5, <1>7
<1>9. PICK verdict : verdict = [p \in Entities |-> SelectedVerdict(p)]
  OBVIOUS
<1>10. /\ {p \in Entities : verdict[p] = "fail"} = failed
       /\ {verdict[p] : p \in Entities} = verdicts
  BY <1>4, <1>7, <1>9
<1>11. CASE \E k \in Periods : ~simulated.conserved[k]
  <2>1. Decided("insufficient", failed)
    BY <1>1, <1>4, <1>9, <1>11 DEF DecideByLanes
  <2>2. Earned("insufficient") /\ Saving("insufficient")
    BY DEF Earned, Saving
  <2>3. Named("insufficient", failed)
    BY <1>1, <1>6, <1>11 DEF Named, Hidden
  <2> QED
    BY <1>1, <1>6, <2>1, <2>2, <2>3, DecidedKeepsInvariant
<1>12. CASE \A k \in Periods : simulated.conserved[k]
  <2>1. PICK status : status = StatusOf(Worst(verdicts))
    OBVIOUS
  <2>2. Decided(status, failed)
    <3>1. LET verdictt == [p \in Entities |-> SelectedVerdict(p)]
              failedd == {p \in Entities : verdictt[p] = "fail"}
          IN Decided(StatusOf(Worst({verdictt[p] : p \in Entities})), failedd)
      BY <1>12 DEF DecideByLanes
    <3> QED
      BY <1>9, <1>10, <2>1, <3>1
  <2>3. /\ status = "revise" <=> "fail" \in verdicts
        /\ status # "adopt"
        /\ status = "conditional" => verdicts \subseteq {"pass"}
    BY <1>8, <2>1, StatusIsRight
  <2>4. Earned(status)
    <3> SUFFICES ASSUME status \in {"adopt", "conditional"}, NEW p \in Entities
                 PROVE  /\ varied[p].supported /\ varied[p].adequate
                        /\ WithinCap(p, TRUE) /\ simulated.conserved[p[1]]
      BY <1>1, <1>2 DEF Earned
    <3>1. SelectedVerdict(p) = "pass"
      BY <1>7, <2>3
    <3> QED
      BY <1>5, <3>1
  <2>5. Named(status, failed)
    BY <1>1, <1>6, <1>8, <1>12, <2>3 DEF Named, Hidden
  <2>6. Saving(status)
    BY <1>1 DEF Saving
  <2> QED
    BY <1>1, <1>6, <2>2, <2>4, <2>5, <2>6, DecidedKeepsInvariant
<1> QED
  BY <1>2, <1>11, <1>12

\* A verdict on today's lanes.
LEMMA TodayKeepsInvariant ==
  ASSUME IInv, JudgeToday
  PROVE  IInv'
<1>1. stage = "varied" /\ plan.structure = "today"
  BY DEF JudgeToday
<1>2. simulated.basis = "none"
  BY <1>1, WhenVaried
<1>3. PICK failed : failed = {p \in Entities : LaneVerdict(p, FALSE) = "fail"}
  OBVIOUS
<1>4. ASSUME NEW p \in Entities
      PROVE  /\ LaneVerdict(p, FALSE) \in {"pass", "fail", "insufficient"}
             /\ LaneVerdict(p, FALSE) = "fail" <=> Failing(p)
             /\ LaneVerdict(p, FALSE) = "pass" => varied[p].supported /\ varied[p].adequate /\ WithinCap(p, FALSE)
  <2>1. Failing(p) <=> varied[p].adequate /\ varied[p].rate > Cap
    BY <1>1 DEF Failing
  <2> QED
    BY <1>1, <2>1, LaneVerdictIsRight
<1>5. failed = {p \in Entities : Failing(p)}
  BY <1>3, <1>4
<1>6. PICK verdicts : verdicts = {LaneVerdict(p, FALSE) : p \in Entities}
  OBVIOUS
<1>7. verdicts \subseteq {"pass", "fail", "insufficient"} /\ ("fail" \in verdicts <=> failed # {})
  BY <1>3, <1>4, <1>6
<1>8. PICK verdict : verdict = [p \in Entities |-> LaneVerdict(p, FALSE)]
  OBVIOUS
<1>9. {p \in Entities : verdict[p] = "fail"} = failed /\ {verdict[p] : p \in Entities} = verdicts
  BY <1>3, <1>6, <1>8
<1>10. PICK status : status = StatusOf(Worst(verdicts))
  OBVIOUS
<1>11. Decided(status, failed)
  <2>1. LET v == [p \in Entities |-> LaneVerdict(p, FALSE)]
        IN Decided(StatusOf(Worst({v[p] : p \in Entities})), {p \in Entities : v[p] = "fail"})
    BY DEF JudgeToday
  <2> QED
    BY <1>8, <1>9, <1>10, <2>1
<1>12. /\ status = "revise" <=> "fail" \in verdicts
       /\ status # "adopt"
       /\ status = "conditional" => verdicts \subseteq {"pass"}
  BY <1>7, <1>10, StatusIsRight
<1>13. Earned(status)
  <2> SUFFICES ASSUME status \in {"adopt", "conditional"}, NEW p \in Entities
               PROVE  varied[p].supported /\ varied[p].adequate /\ WithinCap(p, FALSE)
    BY <1>1, <1>2 DEF Earned
  <2>1. LaneVerdict(p, FALSE) = "pass"
    BY <1>6, <1>12
  <2> QED
    BY <1>4, <2>1
<1>14. Named(status, failed)
  BY <1>1, <1>5, <1>7, <1>12 DEF Named, Hidden
<1>15. Saving(status)
  BY <1>1 DEF Saving
<1> QED
  BY <1>1, <1>5, <1>11, <1>13, <1>14, <1>15, DecidedKeepsInvariant

-----------------------------------------------------------------------------
(* Every step *)

\* Before a Decision there is nothing to say of it.
LEMMA NothingDecided ==
  ASSUME IInv, Evidence', UNCHANGED decision, stage # "decided", stage' # "decided"
  PROVE  IInv'
<1>1. decision = [status |-> "none", failed |-> {}] /\ decision' = decision
  BY DEF IInv, DecisionOK
<1>2. DecisionOK'
  BY <1>1 DEF DecisionOK
<1>3. AdviceIsEarned' /\ FailuresAreNamed'
  BY <1>1 DEF AdviceIsEarned, FailuresAreNamed
<1>4. RowsAreNoDearer'
  <2>1. (plan \in Lines \cup Schedules /\ RowsOK)'
    BY DEF Evidence
  <2> QED
    BY <2>1, OptimisedRows, PTL
<1>5. OptimumIsNoDearer'
  BY <1>1, <1>4 DEF OptimumIsNoDearer, RowsAreNoDearer
<1> QED
  BY <1>2, <1>3, <1>5 DEF IInv

\* Nothing is decided or evident when a plan is asked for.
LEMMA InitIInv == Init => IInv
<1> SUFFICES ASSUME Init PROVE IInv
  OBVIOUS
<1>1. plan \in Lines \cup Schedules /\ plan.structure \in {"shared", "separate", "today"}
  BY DEF Init, Lines, Schedules
<1>2. StageOK /\ RowsOK /\ SimulatedOK /\ VariedOK /\ EndedOK
  BY <1>1 DEF Init, StageOK, Stages, RowsOK, SimulatedOK, VariedOK, EndedOK
<1>3. DecisionOK /\ AdviceIsEarned /\ FailuresAreNamed
  BY <1>1 DEF Init, DecisionOK, AdviceIsEarned, FailuresAreNamed
<1>4. RowsAreNoDearer
  BY <1>1, <1>2, OptimisedRows
<1>5. OptimumIsNoDearer
  BY <1>4 DEF Init, OptimumIsNoDearer, RowsAreNoDearer
<1> QED
  BY <1>1, <1>2, <1>3, <1>5 DEF IInv, Evidence

\* The optimiser's rows.
LEMMA OptimiseKeepsEvidence ==
  ASSUME IInv, Optimise
  PROVE  Evidence' /\ UNCHANGED decision /\ stage # "decided" /\ stage' # "decided"
<1>1. /\ stage = "asked" /\ stage' \in {"planned", "refused"}
      /\ rows' = [k \in Periods |-> Row(k)]
      /\ stage' = "planned" => \A k \in Periods : rows'[k].best # None
      /\ UNCHANGED <<plan, simulated, varied, decision>>
  BY DEF Optimise
<1>2. plan \in Lines \cup Schedules /\ plan.structure = "shared"
  BY <1>1 DEF IInv, Evidence, StageOK
<1>3. StageOK'
  BY <1>1 DEF StageOK, Stages
<1>4. RowsOK'
  BY <1>1, <1>2 DEF RowsOK, Row
<1>5. SimulatedOK'
  BY <1>1, <1>2 DEF IInv, Evidence, SimulatedOK, Supported
<1>6. VariedOK' /\ EndedOK'
  BY <1>1 DEF VariedOK, EndedOK
<1> QED
  BY <1>1, <1>2, <1>3, <1>4, <1>5, <1>6 DEF Evidence

\* A plan is simulated, each kind in its way.
LEMMA SimulateKeepsEvidence ==
  ASSUME IInv, SimulatePeriods \/ SimulateDay \/ SimulateLanes
  PROVE  Evidence' /\ UNCHANGED decision /\ stage # "decided" /\ stage' # "decided"
<1>1. stage = "planned" /\ stage' = "simulated" /\ UNCHANGED <<plan, rows, varied, decision>>
  BY DEF SimulatePeriods, SimulateDay, SimulateLanes
<1>2. SimulatedOK'
  <2>1. CASE SimulatePeriods
    <3>1. PICK busy \in Busy : simulated' = [basis |-> "periods", cited |-> [k \in Periods |-> Ends(k, busy)]]
      BY <2>1 DEF SimulatePeriods
    <3>2. \A k \in Periods : Ends(k, busy) \in {"error", "critical", "normal"} /\ (Ends(k, busy) = "error" <=> ~Supported(k))
      BY DEF Ends
    <3>3. simulated' \in ByPeriods /\ \A k \in Periods : simulated'.cited[k] = "error" <=> ~Supported(k)
      BY <3>1, <3>2 DEF ByPeriods
    <3>4. \A k \in Periods : Supported(k)' <=> Supported(k)
      BY <1>1 DEF Supported
    <3> QED
      BY <1>1, <2>1, <3>3, <3>4 DEF SimulatePeriods, SimulatedOK
  <2>2. CASE SimulateDay
    <3>1. simulated' \in ByDay
      BY <2>2 DEF SimulateDay, ByDay
    <3> QED
      BY <1>1, <2>2, <3>1 DEF SimulateDay, SimulatedOK
  <2>3. CASE SimulateLanes
    <3>1. simulated' \in ByLanes
      BY <2>3 DEF SimulateLanes, ByLanes
    <3> QED
      BY <1>1, <2>3, <3>1 DEF SimulateLanes, SimulatedOK
  <2> QED
    BY <2>1, <2>2, <2>3
<1>3. StageOK' /\ VariedOK' /\ EndedOK'
  BY <1>1 DEF StageOK, Stages, VariedOK, EndedOK
<1>4. RowsOK'
  BY <1>1 DEF IInv, Evidence, RowsOK, Row
<1> QED
  BY <1>1, <1>2, <1>3, <1>4 DEF IInv, Evidence

\* A plan is refused for the trials it would take.
LEMMA RefuseKeepsEvidence ==
  ASSUME IInv, RefuseWorkload
  PROVE  Evidence' /\ UNCHANGED decision /\ stage # "decided" /\ stage' # "decided"
<1>1. stage \in {"planned", "simulated"} /\ stage' = "refused" /\ UNCHANGED <<plan, rows, simulated, varied, decision>>
  BY DEF RefuseWorkload
<1>2. StageOK' /\ VariedOK' /\ EndedOK'
  BY <1>1 DEF StageOK, Stages, VariedOK, EndedOK
<1>3. RowsOK'
  BY <1>1 DEF IInv, Evidence, RowsOK, Row
<1>4. SimulatedOK'
  BY <1>1 DEF IInv, Evidence, SimulatedOK, Supported
<1> QED
  BY <1>1, <1>2, <1>3, <1>4 DEF IInv, Evidence

\* The validation of a plan period by period, and the trials of any other.
LEMMA VaryKeepsEvidence ==
  ASSUME IInv, Validate \/ Vary
  PROVE  Evidence' /\ UNCHANGED decision /\ stage # "decided" /\ stage' # "decided"
<1>1. /\ stage \in {"planned", "simulated"} /\ (stage = "planned" => plan.structure = "today")
      /\ stage' = "varied" /\ UNCHANGED <<plan, rows, simulated, decision>>
  BY DEF Validate, Vary
<1>2. PICK outcome \in TrialsEnd, end \in [Entities -> {"error", "critical", "normal", "none"}] :
        /\ varied' = [p \in Entities |-> Tried(p, OutcomeOf(outcome, p), end[p])]
        /\ simulated.basis = "periods" => \A p \in Entities : end[p] # "none" /\ (end[p] = "error" <=> ~Supported(p[1]))
  <2>1. CASE Validate
    <3>1. PICK busy \in Busy, outcome \in TrialsEnd :
            varied' = [p \in Entities |-> Tried(p, OutcomeOf(outcome, p), Ends(p[1], busy))]
      BY <2>1 DEF Validate
    <3>2. PICK end : end = [p \in Entities |-> Ends(p[1], busy)]
      OBVIOUS
    <3>3. /\ end \in [Entities -> {"error", "critical", "normal", "none"}]
          /\ \A p \in Entities : end[p] # "none" /\ (end[p] = "error" <=> ~Supported(p[1]))
      BY <3>2 DEF Ends
    <3>4. varied' = [p \in Entities |-> Tried(p, OutcomeOf(outcome, p), end[p])]
      BY <3>1, <3>2
    <3> QED
      BY <3>3, <3>4
  <2>2. CASE Vary
    <3>1. PICK outcome \in TrialsEnd : varied' = [p \in Entities |-> Tried(p, OutcomeOf(outcome, p), "none")]
      BY <2>2 DEF Vary
    <3>2. PICK end : end = [p \in Entities |-> "none"]
      OBVIOUS
    <3>3. end \in [Entities -> {"error", "critical", "normal", "none"}] /\ simulated.basis # "periods"
      BY <2>2, <3>2 DEF Vary
    <3>4. varied' = [p \in Entities |-> Tried(p, OutcomeOf(outcome, p), end[p])]
      BY <3>1, <3>2
    <3> QED
      BY <3>3, <3>4
  <2> QED
    BY <2>1, <2>2
<1>3. ASSUME NEW p \in Entities PROVE IsTried(varied'[p]) /\ varied'[p].ended = end[p]
  <2>1. PICK o : o = OutcomeOf(outcome, p)
    OBVIOUS
  <2>2. Supported(p[1]) => o \in Outcomes
    BY <2>1 DEF OutcomeOf, TrialsEnd
  <2>3. varied'[p] = Tried(p, o, end[p])
    BY <1>2, <2>1
  <2> QED
    BY <2>2, <2>3, TriedIsTried
<1>4. Entities' = Entities /\ \A k : Supported(k)' <=> Supported(k)
  BY <1>1 DEF Entities, Supported
<1>5. VariedOK'
  BY <1>1, <1>3, <1>4 DEF VariedOK, IsTried
<1>6. EndedOK'
  <2>1. \A p \in Entities : end[p] \in {"error", "critical", "normal", "none"}
    BY <1>2
  <2> QED
    BY <1>1, <1>2, <1>3, <1>4, <2>1 DEF EndedOK
<1>7. StageOK'
  BY <1>1 DEF StageOK, Stages
<1>8. RowsOK'
  BY <1>1 DEF IInv, Evidence, RowsOK, Row
<1>9. SimulatedOK'
  BY <1>1 DEF IInv, Evidence, SimulatedOK, Supported
<1> QED
  BY <1>1, <1>5, <1>6, <1>7, <1>8, <1>9 DEF IInv, Evidence

\* Nothing happens.
LEMMA StutterKeepsInvariant ==
  ASSUME IInv, UNCHANGED vars
  PROVE  IInv'
<1>1. Evidence'
  BY DEF vars, IInv, Evidence, StageOK, RowsOK, Row, SimulatedOK, VariedOK, EndedOK, IsTried, Entities, Supported
<1>2. DecisionOK' /\ AdviceIsEarned'
  BY DEF vars, IInv, DecisionOK, AdviceIsEarned, WithinCap, Entities
<1>3. FailuresAreNamed'
  BY DEF vars, IInv, FailuresAreNamed, Failing, Hidden, Supported, WithinCap, Entities
<1>4. OptimumIsNoDearer'
  <2>1. Totals("costNow")' = Totals("costNow") /\ Totals("costBest")' = Totals("costBest")
    BY DEF vars, Totals, MapThenSumSet, MapThenFoldSet
  <2>2. Summary' = Summary
    BY <2>1 DEF vars, Summary, Comparable
  <2>3. WhyNoSaving' = WhyNoSaving
    BY <2>2 DEF vars, WhyNoSaving
  <2> QED
    BY <2>1, <2>2, <2>3 DEF vars, IInv, OptimumIsNoDearer
<1> QED
  BY <1>1, <1>2, <1>3, <1>4 DEF IInv

\* Every step keeps the invariant.
LEMMA NextIInv == IInv /\ [Next]_vars => IInv'
<1> SUFFICES ASSUME IInv, [Next]_vars PROVE IInv'
  OBVIOUS
<1>1. CASE Optimise
  BY <1>1, OptimiseKeepsEvidence, NothingDecided
<1>2. CASE SimulatePeriods \/ SimulateDay \/ SimulateLanes
  BY <1>2, SimulateKeepsEvidence, NothingDecided
<1>3. CASE Validate \/ Vary
  BY <1>3, VaryKeepsEvidence, NothingDecided
<1>4. CASE RefuseWorkload
  BY <1>4, RefuseKeepsEvidence, NothingDecided
<1>5. CASE DecideByPeriods
  BY <1>5, PeriodsKeepInvariant
<1>6. CASE DecideByDay
  BY <1>6, DayKeepsInvariant
<1>7. CASE DecideByLanes
  BY <1>7, LanesKeepInvariant
<1>8. CASE JudgeToday
  BY <1>8, TodayKeepsInvariant
<1>9. CASE UNCHANGED vars
  BY <1>9, StutterKeepsInvariant
<1> QED
  BY <1>1, <1>2, <1>3, <1>4, <1>5, <1>6, <1>7, <1>8, <1>9 DEF Next

\* The invariant holds throughout.
LEMMA Invariant == Spec => []IInv
<1>1. Init => IInv
  BY InitIInv
<1>2. IInv /\ [Next]_vars => IInv'
  BY NextIInv
<1> QED
  BY <1>1, <1>2, PTL DEF Spec

\* Every plan, its rows and its verdict are of their kinds throughout (workflow.py, decision.py).
THEOREM TypesHold == Spec => []TypeOK
<1>1. IInv => TypeOK
  BY DEF IInv, Evidence, StageOK, Stages, DecisionOK, TypeOK
<1> QED
  BY <1>1, Invariant, PTL

\* No Decision advises a plan that was not simulated and tried in every period and lane, for any number of periods,
\* lanes and trials, any cap and however the run that is cited and the validation's own simulation end
\* (_derive_decision, _derive_full_day_decision, _derive_selected_decision).
THEOREM AdviceIsAlwaysEarned == Spec => []AdviceIsEarned
<1>1. IInv => AdviceIsEarned
  BY DEF IInv
<1> QED
  BY <1>1, Invariant, PTL

\* A verdict, also one that is made period by period, names exactly the periods or lanes that failed, unless a period
\* cannot be simulated: then it names none and is never an advice
\* (_derive_decision, _full_day_periods, _separate_validation_verdict).
THEOREM FailuresAreAlwaysNamed == Spec => []FailuresAreNamed
<1>1. IInv => FailuresAreNamed
  BY DEF IInv
<1> QED
  BY <1>1, Invariant, PTL

\* The optimum of a period is never dearer than what is done today where that keeps the limits, for any number of
\* counters and any loads, and a plan is adopted exactly when it does not cost more (optimize_segment, _cost_totals).
THEOREM OptimumIsNeverDearer == Spec => []OptimumIsNoDearer
<1>1. IInv => OptimumIsNoDearer
  BY DEF IInv
<1> QED
  BY <1>1, Invariant, PTL
=============================================================================
