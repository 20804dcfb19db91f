----------------------------- MODULE EvidenceProofs -----------------------------
(***************************************************************************)
(* Proofs about the evidence chain, and about what the pages and the       *)
(* reports put together from it, for every value of the constants.         *)
(***************************************************************************)
EXTENDS EvidenceReports, TLAPS, WellFoundedInduction

\* The greatest member of a non-empty set of positive ids is one of them (max over Job.id or
\* Dataset.id, as ORDER BY id DESC LIMIT 1 returns it).
LEMMA MaxIsMember ==
    ASSUME NEW n \in Nat, NEW S, S \subseteq 1..n, S # {}
    PROVE  Max(S) \in S /\ \A y \in S : Max(S) >= y
<1> DEFINE Above == {k \in Nat : \A y \in S : y <= k}
<1>1. n \in Above
  OBVIOUS
<1> DEFINE Less == {ss \in Nat \X Nat : ss[1] < ss[2]}
<1>2. IsWellFoundedOn(Less, Nat)
  BY NatLessThanWellFounded DEF OpToRel
<1> HIDE DEF Less
<1>3. PICK m \in Above : \A k \in Above : ~ (<<k, m>> \in Less)
  BY <1>1, <1>2, WFMin
<1>4. \A k \in Above : ~ (k < m)
  BY <1>3 DEF Less
<1>5. m \in S
  <2>1. PICK x \in S : TRUE
    OBVIOUS
  <2>2. m \in Nat \ {0}
    BY <2>1
  <2>3. SUFFICES ASSUME m \notin S PROVE FALSE
    OBVIOUS
  <2>4. \A y \in S : y <= m - 1
    BY <2>2, <2>3
  <2>5. m - 1 \in Above
    BY <2>2, <2>4
  <2> QED
    BY <1>4, <2>2, <2>5
<1>6. \A y \in S : m >= y
  OBVIOUS
<1> QED
  BY <1>5, <1>6 DEF Max


---------------------------------------------------------------------------
(* Latest ids *)

(* An id that is a maximum over rows 1..n is None or one of them. *)
LEMMA CurrentDatasetExists ==
    ASSUME TypeOK, CurrentDataset # None
    PROVE  CurrentDataset \in DOMAIN dataset /\ CurrentDataset \in Nat \ {0}
<1> DEFINE planning == {d \in DOMAIN dataset : dataset[d].planning}
<1>1. planning # {} /\ CurrentDataset = Max(planning)
  BY DEF CurrentDataset
<1>2. planning \subseteq 1..uploads /\ uploads \in Nat
  BY DEF TypeOK
<1>3. Max(planning) \in planning
  BY <1>1, <1>2, MaxIsMember
<1> QED
  BY <1>1, <1>2, <1>3

\* The latest job of a kind about a plan, if there is one, is stored and is of that kind and plan (_latest_job).
LEMMA LatestJobExists ==
    ASSUME TypeOK, NEW kind, NEW plan
    PROVE  /\ LatestJob(kind, plan) \in 0..Len(jobs)
           /\ LatestJob(kind, plan) # None =>
                 /\ LatestJob(kind, plan) \in DOMAIN jobs
                 /\ jobs[LatestJob(kind, plan)].kind = kind
                 /\ jobs[LatestJob(kind, plan)].scenario = plan
<1> DEFINE matching == {i \in DOMAIN jobs : jobs[i].kind = kind /\ jobs[i].scenario = plan}
<1>1. jobs \in Seq(Job)
  BY DEF TypeOK
<1>2. DOMAIN jobs = 1..Len(jobs) /\ Len(jobs) \in Nat
  BY <1>1
<1>3. CASE matching = {}
  BY <1>2, <1>3 DEF LatestJob, None
<1>4. CASE matching # {}
  <2>1. Max(matching) \in matching
    BY <1>2, <1>4, MaxIsMember
  <2>2. LatestJob(kind, plan) = Max(matching)
    BY <1>4 DEF LatestJob
  <2> QED
    BY <1>2, <2>1, <2>2
<1> QED
  BY <1>3, <1>4

\* The latest selection, if there is one, is a stored selection.
LEMMA LatestSelectionExists ==
    ASSUME TypeOK
    PROVE  /\ LatestSelection \in 0..Len(jobs)
           /\ LatestSelection # None =>
                 LatestSelection \in DOMAIN jobs /\ jobs[LatestSelection].kind = "selection"
<1> DEFINE matching == {i \in DOMAIN jobs : jobs[i].kind = "selection"}
<1>1. jobs \in Seq(Job)
  BY DEF TypeOK
<1>2. DOMAIN jobs = 1..Len(jobs) /\ Len(jobs) \in Nat
  BY <1>1
<1>3. CASE matching = {}
  BY <1>2, <1>3 DEF LatestSelection, None
<1>4. CASE matching # {}
  <2>1. Max(matching) \in matching
    BY <1>2, <1>4, MaxIsMember
  <2>2. LatestSelection = Max(matching)
    BY <1>4 DEF LatestSelection
  <2> QED
    BY <1>2, <2>1, <2>2
<1> QED
  BY <1>3, <1>4

\* The full-day run that is shown, if there is one, is an eligible one of the plan selected.
LEMMA FullDayRunExists ==
    ASSUME TypeOK, NEW s
    PROVE  /\ FullDayRun(s) \in 0..Len(jobs)
           /\ FullDayRun(s) # None => SelectedPlan(s) # None /\ FullDayRun(s) \in EligibleRuns(s)
<1>1. jobs \in Seq(Job)
  BY DEF TypeOK
<1>2. DOMAIN jobs = 1..Len(jobs) /\ Len(jobs) \in Nat
  BY <1>1
<1>3. EligibleRuns(s) \subseteq 1..Len(jobs)
  BY <1>2 DEF EligibleRuns
<1>4. CASE EligibleRuns(s) = {}
  <2>1. FullDayRun(s) = None
    BY <1>4 DEF FullDayRun
  <2> QED
    BY <1>2, <2>1 DEF None
<1>5. CASE EligibleRuns(s) # {}
  <2>1. Max(EligibleRuns(s)) \in EligibleRuns(s)
    BY <1>2, <1>3, <1>5, MaxIsMember
  <2>2. FullDayRun(s) = Max(EligibleRuns(s))
    BY <1>5 DEF FullDayRun
  <2>3. SelectedPlan(s) # None
    BY <2>1 DEF EligibleRuns
  <2> QED
    BY <1>2, <1>3, <2>1, <2>2, <2>3
<1> QED
  BY <1>4, <1>5

(* A plan that is selected is a live row on the live current dataset. *)
LEMMA SelectedPlanExists ==
    ASSUME TypeOK, NEW s, SelectedPlan(s) # None
    PROVE  /\ PlanEligible(SelectedPlan(s), s)
           /\ SelectedPlan(s) = jobs[LatestSelection].scenario
           /\ LatestSelection # None
           /\ Enforced => jobs[LatestSelection].scenarioGen = scenario[SelectedPlan(s)].gen
BY DEF SelectedPlan

\* A job shown in a slot of the selected plan is the latest of its kind about that plan, and current.
LEMMA PlanSlotExists ==
    ASSUME TypeOK, NEW kind, NEW s, PlanSlot(kind, s) # None
    PROVE  /\ PlanSlot(kind, s) \in DOMAIN jobs
           /\ jobs[PlanSlot(kind, s)].kind = kind
           /\ PlanSlot(kind, s) = LatestJob(kind, SelectedPlan(s))
           /\ SelectedPlan(s) # None /\ jobs[PlanSlot(kind, s)].scenario = SelectedPlan(s)
           /\ EvidenceCurrent(PlanSlot(kind, s), s)
BY LatestJobExists DEF PlanSlot, Slot

\* A slot holds a stored job or none.
LEMMA PlanSlotBounded ==
    ASSUME TypeOK, NEW kind, NEW s
    PROVE  PlanSlot(kind, s) \in 0..Len(jobs)
<1>1. LatestJob(kind, SelectedPlan(s)) \in 0..Len(jobs)
  BY LatestJobExists
<1>2. Len(jobs) \in Nat
  BY DEF TypeOK
<1> QED
  BY <1>1, <1>2 DEF PlanSlot, Slot, None

---------------------------------------------------------------------------
(* What a request computes records the identity of the rows it read *)

\* References to stored jobs only.
Cites(refs) ==
    /\ refs \in Refs
    /\ {refs.selection, refs.des, refs.mc, refs.validation, refs.continuous} \subseteq 0..Len(jobs)

\* Citing nothing is citing only what exists.
LEMMA NoRefsCites == ASSUME TypeOK PROVE Cites(NoRefs)
<1>1. Len(jobs) \in Nat
  BY DEF TypeOK
<1> QED
  BY <1>1 DEF Cites, NoRefs, Citing, Refs, None

\* A run of an eligible plan is a job that records its generations as they are.
LEMMA PlanJobRecords ==
    ASSUME TypeOK, IdentityIsRecorded,
           NEW s \in Setups, NEW p, PlanEligible(p, s), NEW kind \in AllKinds,
           NEW refs, Cites(refs), kind = "full_day" => refs = NoRefs
    PROVE  PlanJob(kind, p, s, refs) \in Job /\ RecordsIdentity(PlanJob(kind, p, s, refs))
<1> DEFINE d == scenario[p].dataset
<1>1. p \in DOMAIN scenario /\ p \in Nat /\ scenario[p] \in ScenarioRow
  BY DEF PlanEligible, TypeOK
<1>2. d \in DOMAIN dataset /\ d \in Nat /\ dataset[d] \in DatasetRow
  BY DEF PlanEligible, TypeOK
<1>3. scenario[p].gen \in Nat /\ dataset[d].gen \in Nat
  BY <1>1, <1>2 DEF ScenarioRow, DatasetRow
<1>4. clock \in Stamps
  BY DEF TypeOK
<1>5. Postgres => scenario[p].gen = p /\ dataset[d].gen = d
  BY <1>1, <1>2 DEF IdentityIsRecorded
<1> QED
  BY <1>1, <1>2, <1>3, <1>4, <1>5 DEF PlanJob, Job, RecordsIdentity, Cites

\* So is a job about the current dataset and no plan.
LEMMA CurrentJobRecords ==
    ASSUME TypeOK, IdentityIsRecorded,
           NEW s \in Setups, NEW kind \in AllKinds \ {"full_day"}, NEW m \in 0..Len(jobs),
           CurrentDataset # None
    PROVE  CurrentJob(kind, s, m) \in Job /\ RecordsIdentity(CurrentJob(kind, s, m))
<1> DEFINE d == CurrentDataset
<1>1. d \in DOMAIN dataset /\ d \in Nat
  BY CurrentDatasetExists
<1>2. dataset[d] \in DatasetRow
  BY <1>1 DEF TypeOK
<1>3. dataset[d].gen \in Nat
  BY <1>2 DEF DatasetRow
<1>4. clock \in Stamps /\ Len(jobs) \in Nat
  BY DEF TypeOK
<1>5. Postgres => dataset[d].gen = d
  BY <1>1 DEF IdentityIsRecorded
<1>6. Cites(Citing(None, None, m, None, None))
  BY <1>4 DEF Citing, Cites, Refs, None
<1> QED
  BY <1>1, <1>3, <1>4, <1>5, <1>6 DEF CurrentJob, Job, RecordsIdentity, Cites, None

\* So is whatever a request computes from today's rows.
LEMMA ComputedRecords ==
    ASSUME TypeOK, IdentityIsRecorded, NEW kind \in AllKinds, NEW s \in Setups,
           NEW j \in Computed(kind, s)
    PROVE  j \in Job /\ RecordsIdentity(j)
<1>1. Len(jobs) \in Nat /\ clock \in Stamps /\ Cites(NoRefs)
  BY NoRefsCites DEF TypeOK
<1>2. ASSUME NEW k \in AllKinds, j \in PlanRun(k, s)
      PROVE  j \in Job /\ RecordsIdentity(j)
  <2>1. PlanEligible(SelectedPlan(s), s) /\ j = PlanJob(k, SelectedPlan(s), s, NoRefs)
    BY <1>2, SelectedPlanExists DEF PlanRun
  <2> QED
    BY <1>1, <2>1, PlanJobRecords
<1>3. ASSUME NEW k \in AllKinds \ {"full_day"}, NEW q, PlanEligible(q, s),
             NEW d \in 0..Len(jobs), NEW m \in 0..Len(jobs), NEW v \in 0..Len(jobs),
             j = PlanJob(k, q, s, Citing(None, d, m, v, None))
      PROVE  j \in Job /\ RecordsIdentity(j)
  <2>1. Cites(Citing(None, d, m, v, None))
    BY <1>1, <1>3 DEF Cites, Citing, Refs, None
  <2> QED
    BY <1>3, <2>1, PlanJobRecords
<1>4. CASE kind \in {"des_current", "mc_current"}
  <2>1. CurrentDataset # None /\ j = CurrentJob(kind, s, None)
    BY <1>4 DEF Computed, CurrentRun
  <2> QED
    BY <1>1, <1>4, <2>1, CurrentJobRecords DEF None
<1>5. CASE kind = "validation_current"
  <2> DEFINE m == LatestJob("mc_current", None)
  <2>1. m \in 0..Len(jobs)
    BY LatestJobExists
  <2>2. CurrentDataset # None /\ j = CurrentJob(kind, s, m)
    BY <1>5 DEF Computed, CurrentValidation
  <2> QED
    BY <1>5, <2>1, <2>2, CurrentJobRecords DEF AllKinds
<1>6. CASE kind = "selection"
  <2>1. PICK q : PlanEligible(q, s) /\ j = PlanJob("selection", q, s, NoRefs)
    BY <1>6 DEF Computed, Selection
  <2> QED
    BY <1>1, <2>1, PlanJobRecords DEF AllKinds
<1>7. CASE \/ kind \in {"des", "full_day"}
           \/ kind \in {"mc", "validation"} /\ s \notin SeparateSetups
  <2>1. j \in PlanRun(kind, s)
    BY <1>7 DEF Computed
  <2> QED
    BY <1>2, <2>1
<1> DEFINE p == SelectedPlan(s)
           d == LatestJob("des", p)
           m == LatestJob("mc", p)
           v == LatestJob("validation", p)
<1>8. d \in 0..Len(jobs) /\ m \in 0..Len(jobs) /\ v \in 0..Len(jobs) /\ 0 \in 0..Len(jobs)
  BY <1>1, LatestJobExists
<1>9. CASE kind = "mc" /\ s \in SeparateSetups
  <2>1. p # None /\ j = PlanJob("mc", p, s, Citing(None, d, None, None, None))
    BY <1>9 DEF Computed, SelectedMonteCarlo
  <2>2. PlanEligible(p, s)
    BY <2>1, SelectedPlanExists
  <2> HIDE DEF p, d, m, v
  <2> QED
    BY <1>3, <1>8, <2>1, <2>2 DEF AllKinds, None
<1>10. CASE kind = "validation" /\ s \in SeparateSetups
  <2>1. p # None /\ j = PlanJob("validation", p, s, Citing(None, d, m, None, None))
    BY <1>10 DEF Computed, SelectedValidation
  <2>2. PlanEligible(p, s)
    BY <2>1, SelectedPlanExists
  <2> HIDE DEF p, d, m, v
  <2> QED
    BY <1>3, <1>8, <2>1, <2>2 DEF AllKinds, None
<1>11. CASE kind = "decision" /\ s \in SeparateSetups
  <2>1. p # None /\ j = PlanJob("decision", p, s, Citing(None, d, m, v, None))
    BY <1>11 DEF Computed, SelectedDecision
  <2>2. PlanEligible(p, s)
    BY <2>1, SelectedPlanExists
  <2> HIDE DEF p, d, m, v
  <2> QED
    BY <1>3, <1>8, <2>1, <2>2 DEF AllKinds
<1>12. CASE kind = "decision" /\ s \notin SeparateSetups
  <2> DEFINE refs == Citing(LatestSelection, PlanSlot("des", s), PlanSlot("mc", s),
                         PlanSlot("validation", s), None)
  <2>1. j = [kind |-> "decision", scenario |-> None, scenarioGen |-> None, dataset |-> None,
             datasetGen |-> None, setup |-> s, created |-> clock, refs |-> refs]
    BY <1>12 DEF Computed, SharedDecision
  <2>2. /\ LatestSelection \in 0..Len(jobs) /\ PlanSlot("des", s) \in 0..Len(jobs)
        /\ PlanSlot("mc", s) \in 0..Len(jobs) /\ PlanSlot("validation", s) \in 0..Len(jobs)
    BY LatestSelectionExists, PlanSlotBounded
  <2>3. Cites(refs)
    BY <1>1, <2>2 DEF Cites, Citing, Refs, None
  <2> HIDE DEF refs
  <2>4. j \in Job
    BY <1>1, <2>1, <2>3 DEF Job, AllKinds, None, Cites
  <2>5. j.kind = "decision" /\ j.refs = refs /\ j.datasetGen = j.dataset /\ j.scenarioGen = j.scenario
    BY <2>1
  <2> QED
    BY <2>3, <2>4, <2>5 DEF RecordsIdentity, Cites
<1> QED
  BY <1>4, <1>5, <1>6, <1>7, <1>9, <1>10, <1>11, <1>12 DEF AllKinds

\* A Decision's verdict adds nothing to the identity that its draft recorded.
LEMMA DecidedRecords ==
    ASSUME TypeOK, IdentityIsRecorded, NEW draft \in Job, RecordsIdentity(draft),
           draft.kind = "decision", NEW j \in Decided(draft, draft.setup)
    PROVE  j \in Job /\ RecordsIdentity(j)
<1> DEFINE s == draft.setup
           run == FullDayRun(s)
           cited == IF run = None
                    THEN draft.refs
                    ELSE Citing(draft.refs.selection, None, draft.refs.mc, None, run)
<1>1. Len(jobs) \in Nat /\ s \in Setups /\ draft.refs \in Refs /\ draft.created \in Stamps
  BY DEF TypeOK, Job
<1>2. LatestSelection \in 0..Len(jobs) /\ run \in 0..Len(jobs)
  BY LatestSelectionExists, FullDayRunExists
<1>3. CASE s \in SeparateSetups
  <2>1. j = [draft EXCEPT !.refs.selection = LatestSelection]
    BY <1>3 DEF Decided
  <2>2. j = [draft EXCEPT !.refs = [draft.refs EXCEPT !.selection = LatestSelection]]
    BY <2>1 DEF Job
  <2>3. /\ [draft.refs EXCEPT !.selection = LatestSelection] \in Refs
        /\ Cites([draft.refs EXCEPT !.selection = LatestSelection])
    BY <1>1, <1>2 DEF Refs, Cites, RecordsIdentity
  <2> QED
    BY <1>1, <2>2, <2>3 DEF Job, RecordsIdentity, Cites
<1>4. CASE s \notin SeparateSetups
  <2>1. SelectedPlan(s) # None
        /\ j = [PlanJob("decision", SelectedPlan(s), s, cited) EXCEPT !.created = draft.created]
    BY <1>4 DEF Decided
  <2>2. PlanEligible(SelectedPlan(s), s)
    BY <2>1, SelectedPlanExists
  <2>3. Cites(cited)
    <3>1. Cites(draft.refs)
      BY <1>1 DEF Cites, RecordsIdentity
    <3>2. 0 \in 0..Len(jobs)
      BY <1>1
    <3> HIDE DEF run
    <3>3. Cites(Citing(draft.refs.selection, None, draft.refs.mc, None, run))
      BY <1>1, <1>2, <3>1, <3>2 DEF Cites, Citing, Refs, None
    <3> QED
      BY <3>1, <3>3
  <2> DEFINE base == PlanJob("decision", SelectedPlan(s), s, cited)
  <2>4. base \in Job /\ RecordsIdentity(base)
    BY <1>1, <2>2, <2>3, PlanJobRecords DEF AllKinds
  <2> HIDE DEF base
  <2> QED
    BY <1>1, <2>1, <2>4 DEF Job, RecordsIdentity, base
<1> QED
  BY <1>3, <1>4

---------------------------------------------------------------------------
(* The inductive invariant *)

IInv == TypeOK /\ IdentityIsRecorded

\* The empty database satisfies the invariant.
LEMMA InitEstablishes == Init => IInv
<1> SUFFICES ASSUME Init PROVE IInv
  OBVIOUS
<1>1. dataset = <<>> /\ scenario = <<>> /\ jobs = <<>> /\ uploads = 0 /\ saves = 0
  BY DEF Init
<1>2. DOMAIN dataset = {} /\ DOMAIN scenario = {} /\ DOMAIN jobs = {} /\ jobs \in Seq(Job)
  BY <1>1
<1>3. setup \in Setups /\ clock \in Stamps
  BY SetupAssumption, BoundAssumption DEF Init, Stamps
<1>4. request \in [Requests -> RequestState] /\ \A r \in Requests : request[r] = Idle
  BY DEF Init, RequestState
<1>5. TypeOK
  BY <1>1, <1>2, <1>3, <1>4 DEF TypeOK
<1>6. \A r \in Requests : HoldsIdentity(request[r])
  BY <1>4 DEF HoldsIdentity, Idle
<1>7. IdentityIsRecorded
  BY <1>2, <1>6 DEF IdentityIsRecorded
<1> QED
  BY <1>5, <1>7 DEF IInv

(* What is in memory stays well recorded while jobs are only appended. *)
LEMMA RecordsStable ==
    ASSUME TypeOK, TypeOK', Len(jobs') >= Len(jobs)
    PROVE  /\ \A j : RecordsIdentity(j) => RecordsIdentity(j)'
           /\ \A q : HoldsIdentity(q) => HoldsIdentity(q)'
<1>1. Len(jobs) \in Nat /\ Len(jobs') \in Nat
  BY DEF TypeOK
<1>2. 0..Len(jobs) \subseteq 0..Len(jobs')
  BY <1>1
<1> QED
  BY <1>2 DEF RecordsIdentity, HoldsIdentity

(* A step of one request that stores nothing. *)
LEMMA MemoryStep ==
    ASSUME IInv, NEW r \in Requests, NEW STATE v,
           request' = [request EXCEPT ![r] = v], v \in RequestState, HoldsIdentity(v),
           UNCHANGED <<setup, dataset, scenario, jobs, uploads, saves, clock>>
    PROVE  IInv'
<1>1. request' \in [Requests -> RequestState]
  BY DEF IInv, TypeOK
<1>2. TypeOK'
  BY <1>1 DEF IInv, TypeOK
<1>3. \A q \in Requests : HoldsIdentity(request'[q])
  BY DEF IInv, IdentityIsRecorded, TypeOK
<1>4. IdentityIsRecorded'
  BY <1>3 DEF IInv, IdentityIsRecorded, RecordsIdentity, HoldsIdentity
<1> QED
  BY <1>2, <1>4 DEF IInv

(* What the phases of a request mean. *)
LEMMA PhaseHolds ==
    ASSUME TypeOK, NEW r \in Requests
    PROVE  /\ request[r].phase = "begun" =>
                 /\ request[r].kind \in AllKinds
                 /\ request[r].setup \in Setups
                 /\ request[r].created \in Stamps
           /\ request[r].phase \in {"computed", "rechecked"} => request[r].job \in Job
           /\ request[r].phase = "saving" => request[r].row \in ScenarioRow
BY DEF TypeOK, RequestState, Idle

\* A request that is not under way remembers nothing.
LEMMA IdleHolds == Idle \in RequestState /\ HoldsIdentity(Idle)
BY DEF Idle, RequestState, HoldsIdentity

(* A table row inserted under the next id keeps ids within the number of inserts. *)
LEMMA NewIdInRange ==
    ASSUME NEW rows, NEW n \in Nat, DOMAIN rows \subseteq 1..n
    PROVE  NewId(rows, n) \in 1..(n + 1) /\ (Postgres => NewId(rows, n) = n + 1)
<1>1. CASE Postgres
  BY <1>1 DEF NewId
<1>2. CASE ~ Postgres /\ DOMAIN rows = {}
  BY <1>2 DEF NewId
<1>3. CASE ~ Postgres /\ DOMAIN rows # {}
  <2>1. Max(DOMAIN rows) \in 1..n
    BY <1>3, MaxIsMember
  <2> QED
    BY <1>3, <2>1 DEF NewId
<1> QED
  BY <1>1, <1>2, <1>3

\* A request that begins remembers only the Setup it read.
LEMMA BeginKeeps ==
    ASSUME IInv, NEW r \in Requests, NEW kind \in Kinds, Begin(r, kind)
    PROVE  IInv'
<1> DEFINE v == [phase |-> "begun", kind |-> kind, setup |-> setup, created |-> clock]
<1>1. kind \in AllKinds /\ setup \in Setups /\ clock \in Stamps
  BY KindAssumption DEF IInv, TypeOK
<1>2. v \in RequestState
  BY <1>1 DEF RequestState
<1>3. HoldsIdentity(v)
  BY DEF HoldsIdentity
<1> QED
  BY <1>2, <1>3, MemoryStep DEF Begin

\* A computation remembers a job that records its identity.
LEMMA ComputeKeeps ==
    ASSUME IInv, NEW r \in Requests, Compute(r)
    PROVE  IInv'
<1>1. PICK j \in Computed(request[r].kind, request[r].setup) :
        request' = [request EXCEPT ![r] =
            [phase |-> "computed", job |-> [j EXCEPT !.created = request[r].created]]]
  BY DEF Compute
<1> DEFINE stored == [j EXCEPT !.created = request[r].created]
           v == [phase |-> "computed", job |-> stored]
<1>2. /\ request[r].kind \in AllKinds /\ request[r].setup \in Setups
      /\ request[r].created \in Stamps
  BY PhaseHolds DEF IInv, Compute
<1>3. j \in Job /\ RecordsIdentity(j)
  BY <1>1, <1>2, ComputedRecords DEF IInv
<1>4. stored \in Job /\ RecordsIdentity(stored)
  BY <1>2, <1>3 DEF Job, RecordsIdentity
<1> HIDE DEF stored
<1>5. v \in RequestState /\ HoldsIdentity(v)
  BY <1>4 DEF RequestState, HoldsIdentity
<1> QED
  BY <1>1, <1>5, MemoryStep DEF Compute, stored

\* The check before a commit goes on with the job as it is, or ends the request.
LEMMA RecheckKeeps ==
    ASSUME IInv, NEW r \in Requests, Recheck(r)
    PROVE  IInv'
<1>1. PICK j \in Decided(request[r].job, request[r].job.setup) :
        request' = [request EXCEPT ![r] = [phase |-> "rechecked", job |-> j]]
  BY DEF Recheck
<1>2. request[r].job \in Job /\ RecordsIdentity(request[r].job) /\ request[r].job.kind = "decision"
  BY PhaseHolds DEF IInv, IdentityIsRecorded, HoldsIdentity, Recheck
<1>3. j \in Job /\ RecordsIdentity(j)
  BY <1>1, <1>2, DecidedRecords DEF IInv
<1>4. [phase |-> "rechecked", job |-> j] \in RequestState
      /\ HoldsIdentity([phase |-> "rechecked", job |-> j])
  BY <1>3 DEF RequestState, HoldsIdentity
<1> QED
  BY <1>1, <1>4, MemoryStep DEF Recheck

\* A request that ends stores nothing and forgets.
LEMMA EndKeeps ==
    ASSUME IInv, NEW r \in Requests, Ends(r),
           UNCHANGED <<setup, dataset, scenario, jobs, uploads, saves, clock>>
    PROVE  IInv'
BY IdleHolds, MemoryStep DEF Ends

\* A commit stores the job in memory, which recorded its identity, under the next id.
LEMMA CommitKeeps ==
    ASSUME IInv, NEW r \in Requests, Commit(r)
    PROVE  IInv'
<1> DEFINE stored == Stamped(request[r].job)
<1>1. request[r].job \in Job /\ RecordsIdentity(request[r].job) /\ clock \in Stamps
  BY PhaseHolds DEF IInv, TypeOK, IdentityIsRecorded, HoldsIdentity, Commit
<1>2. stored \in Job /\ RecordsIdentity(stored)
  BY <1>1 DEF Job, RecordsIdentity, Stamped
<1>3. jobs' = Append(jobs, stored) /\ jobs \in Seq(Job)
  BY DEF Commit, IInv, TypeOK
<1> HIDE DEF stored
<1>4. /\ jobs' \in Seq(Job) /\ Len(jobs') = Len(jobs) + 1
      /\ \A i \in DOMAIN jobs' : (i \in DOMAIN jobs /\ jobs'[i] = jobs[i]) \/ jobs'[i] = stored
  BY <1>2, <1>3
<1>5. TypeOK'
  <2>1. request' \in [Requests -> RequestState]
    BY IdleHolds DEF Commit, Ends, IInv, TypeOK
  <2> QED
    BY <1>4, <2>1 DEF Commit, IInv, TypeOK
<1>6. /\ \A j : RecordsIdentity(j) => RecordsIdentity(j)'
      /\ \A q : HoldsIdentity(q) => HoldsIdentity(q)'
  <2>1. Len(jobs) \in Nat
    BY <1>3
  <2> QED
    BY <1>4, <1>5, <2>1, RecordsStable DEF IInv
<1>7. (\A i \in DOMAIN jobs : RecordsIdentity(jobs[i]))'
  <2>1. \A i \in DOMAIN jobs' : RecordsIdentity(jobs'[i])
    BY <1>2, <1>4 DEF IInv, IdentityIsRecorded
  <2> QED
    BY <1>6, <2>1
<1>8. (\A q \in Requests : HoldsIdentity(request[q]))'
  <2>1. \A q \in Requests : HoldsIdentity(request'[q])
    BY IdleHolds DEF Commit, Ends, IInv, IdentityIsRecorded, TypeOK
  <2> QED
    BY <1>6, <2>1
<1>9. IdentityIsRecorded'
  BY <1>7, <1>8 DEF Commit, IInv, IdentityIsRecorded
<1> QED
  BY <1>5, <1>9 DEF IInv

\* A save that begins remembers a dataset as it is.
LEMMA BeginSaveKeeps ==
    ASSUME IInv, NEW r \in Requests, NEW d \in DOMAIN dataset, BeginSave(r, d)
    PROVE  IInv'
<1> DEFINE row == [gen |-> None, created |-> clock, dataset |-> d,
                   datasetGen |-> dataset[d].gen, setup |-> setup]
           v == [phase |-> "saving", row |-> row]
<1>1. d \in Nat /\ dataset[d] \in DatasetRow /\ clock \in Stamps /\ setup \in Setups
  BY DEF IInv, TypeOK
<1>2. row \in ScenarioRow
  BY <1>1 DEF ScenarioRow, DatasetRow, None
<1>3. Postgres => row.datasetGen = row.dataset
  BY DEF IInv, IdentityIsRecorded
<1>4. request' = [request EXCEPT ![r] = v]
  BY DEF BeginSave
<1> HIDE DEF row
<1>5. v \in RequestState /\ HoldsIdentity(v)
  BY <1>2, <1>3 DEF RequestState, HoldsIdentity
<1> QED
  BY <1>4, <1>5, MemoryStep DEF BeginSave

\* A saved plan gets an id no plan has and a generation of its own, on the upload it was verified on.
LEMMA CommitSaveKeeps ==
    ASSUME IInv, NEW r \in Requests, CommitSave(r)
    PROVE  IInv'
<1> DEFINE kept == request[r].row
           stamped == Stamped(kept)
           row == [stamped EXCEPT !.gen = saves + 1]
           id == NewId(scenario, saves)
<1>1. kept \in ScenarioRow /\ (Postgres => kept.datasetGen = kept.dataset)
  BY PhaseHolds DEF IInv, IdentityIsRecorded, HoldsIdentity, CommitSave
<1>2. saves \in Nat /\ clock \in Stamps /\ DOMAIN scenario \subseteq 1..saves
  BY DEF IInv, TypeOK
<1>3. stamped \in ScenarioRow /\ stamped.dataset = kept.dataset
      /\ stamped.datasetGen = kept.datasetGen
  BY <1>1, <1>2 DEF ScenarioRow, Stamped
<1> HIDE DEF stamped
<1>4. row \in ScenarioRow
  BY <1>2, <1>3 DEF ScenarioRow
<1>5. row.gen = saves + 1 /\ row.datasetGen = kept.datasetGen /\ row.dataset = kept.dataset
  BY <1>3 DEF ScenarioRow
<1>6. id \in 1..(saves + 1) /\ (Postgres => id = saves + 1)
  BY <1>2, NewIdInRange
<1>7. scenario' = With(scenario, id, row) /\ saves' = saves + 1
  BY DEF CommitSave, stamped
<1> HIDE DEF row, id
<1>8. /\ DOMAIN scenario' = DOMAIN scenario \cup {id}
      /\ scenario'[id] = row
      /\ \A p \in DOMAIN scenario' : p # id => p \in DOMAIN scenario /\ scenario'[p] = scenario[p]
  BY <1>7 DEF With
<1>9. DOMAIN scenario' \subseteq 1..saves' /\ saves' \in Nat
  BY <1>2, <1>6, <1>7, <1>8
<1>10. \A p \in DOMAIN scenario' : scenario'[p] \in ScenarioRow
  BY <1>4, <1>8 DEF IInv, TypeOK
<1>11. request' \in [Requests -> RequestState] /\ \A q \in Requests : HoldsIdentity(request'[q])
  BY IdleHolds DEF CommitSave, Ends, IInv, IdentityIsRecorded, TypeOK
<1>12. TypeOK'
  BY <1>9, <1>10, <1>11 DEF CommitSave, IInv, TypeOK
<1>13. Postgres => \A p \in DOMAIN scenario' :
          scenario'[p].gen = p /\ scenario'[p].datasetGen = scenario'[p].dataset
  BY <1>1, <1>5, <1>6, <1>8 DEF IInv, IdentityIsRecorded
<1>14. IdentityIsRecorded'
  BY <1>11, <1>13 DEF CommitSave, IInv, IdentityIsRecorded, RecordsIdentity, HoldsIdentity
<1> QED
  BY <1>12, <1>14 DEF IInv

\* An upload gets an id no dataset has and a generation of its own.
LEMMA UploadKeeps ==
    ASSUME IInv, NEW planning \in BOOLEAN, NEW s \in Setups, Upload(planning, s)
    PROVE  IInv'
<1>1. PICK t \in InsertStamps :
        dataset' = With(dataset, NewId(dataset, uploads),
                        [gen |-> uploads + 1, created |-> t, planning |-> planning])
  BY DEF Upload
<1> DEFINE id == NewId(dataset, uploads)
           row == [gen |-> uploads + 1, created |-> t, planning |-> planning]
<1>2. uploads \in Nat /\ clock \in Stamps /\ DOMAIN dataset \subseteq 1..uploads
  BY DEF IInv, TypeOK
<1>3. t \in Stamps
  BY <1>2, BoundAssumption DEF InsertStamps, Stamps
<1>4. row \in DatasetRow /\ row.gen = uploads + 1
  BY <1>2, <1>3 DEF DatasetRow
<1>5. id \in 1..(uploads + 1) /\ (Postgres => id = uploads + 1)
  BY <1>2, NewIdInRange
<1> HIDE DEF row, id
<1>6. /\ DOMAIN dataset' = DOMAIN dataset \cup {id}
      /\ dataset'[id] = row
      /\ \A d \in DOMAIN dataset' : d # id => d \in DOMAIN dataset /\ dataset'[d] = dataset[d]
  BY <1>1 DEF With, id, row
<1>7. DOMAIN dataset' \subseteq 1..uploads' /\ uploads' \in Nat
  BY <1>2, <1>5, <1>6 DEF Upload
<1>8. \A d \in DOMAIN dataset' : dataset'[d] \in DatasetRow
  BY <1>4, <1>6 DEF IInv, TypeOK
<1>9. TypeOK'
  BY <1>7, <1>8 DEF Upload, IInv, TypeOK
<1>10. Postgres => \A d \in DOMAIN dataset' : dataset'[d].gen = d
  BY <1>4, <1>5, <1>6 DEF IInv, IdentityIsRecorded
<1>11. IdentityIsRecorded'
  BY <1>10 DEF Upload, IInv, IdentityIsRecorded, RecordsIdentity, HoldsIdentity
<1> QED
  BY <1>9, <1>11 DEF IInv

\* Deleting a dataset and its plans only removes rows.
LEMMA DeleteDatasetKeeps ==
    ASSUME IInv, NEW d \in DOMAIN dataset, DeleteDataset(d)
    PROVE  IInv'
<1>1. /\ DOMAIN dataset' \subseteq DOMAIN dataset
      /\ \A e \in DOMAIN dataset' : dataset'[e] = dataset[e]
  BY DEF DeleteDataset, Restrict
<1>2. /\ DOMAIN scenario' \subseteq DOMAIN scenario
      /\ \A p \in DOMAIN scenario' : scenario'[p] = scenario[p]
  BY DEF DeleteDataset, Restrict
<1>3. TypeOK'
  BY <1>1, <1>2 DEF DeleteDataset, IInv, TypeOK
<1>4. Postgres => \A e \in DOMAIN dataset' : dataset'[e].gen = e
  BY <1>1 DEF IInv, IdentityIsRecorded
<1>5. Postgres => \A p \in DOMAIN scenario' :
         scenario'[p].gen = p /\ scenario'[p].datasetGen = scenario'[p].dataset
  BY <1>2 DEF IInv, IdentityIsRecorded
<1>6. UNCHANGED <<jobs, request>>
  BY DEF DeleteDataset
<1>7. IdentityIsRecorded'
  BY <1>4, <1>5, <1>6 DEF IInv, IdentityIsRecorded, RecordsIdentity, HoldsIdentity
<1> QED
  BY <1>3, <1>7 DEF IInv

\* Deleting a plan only removes a row.
LEMMA DeleteScenarioKeeps ==
    ASSUME IInv, NEW p \in DOMAIN scenario, DeleteScenario(p)
    PROVE  IInv'
<1>1. /\ DOMAIN scenario' \subseteq DOMAIN scenario
      /\ \A q \in DOMAIN scenario' : scenario'[q] = scenario[q]
  BY DEF DeleteScenario, Restrict
<1>2. TypeOK'
  BY <1>1 DEF DeleteScenario, IInv, TypeOK
<1>3. Postgres => \A q \in DOMAIN scenario' :
         scenario'[q].gen = q /\ scenario'[q].datasetGen = scenario'[q].dataset
  BY <1>1 DEF IInv, IdentityIsRecorded
<1>4. UNCHANGED <<dataset, jobs, request>>
  BY DEF DeleteScenario
<1>5. IdentityIsRecorded'
  BY <1>3, <1>4 DEF IInv, IdentityIsRecorded, RecordsIdentity, HoldsIdentity
<1> QED
  BY <1>2, <1>5 DEF IInv

\* Every step keeps the invariant.
LEMMA StepKeeps == IInv /\ [Next]_vars => IInv'
<1> SUFFICES ASSUME IInv, [Next]_vars PROVE IInv'
  OBVIOUS
<1>1. ASSUME NEW r \in Requests, RequestStep(r) PROVE IInv'
  <2>1. ASSUME NEW kind \in Kinds, Begin(r, kind) PROVE IInv'
    BY <2>1, BeginKeeps
  <2>2. CASE Compute(r)
    BY <2>2, ComputeKeeps
  <2>3. CASE Refuse(r)
    BY <2>3, EndKeeps DEF Refuse
  <2>4. CASE Recheck(r)
    BY <2>4, RecheckKeeps
  <2>5. CASE Commit(r)
    BY <2>5, CommitKeeps
  <2>6. CASE Abort(r)
    BY <2>6, EndKeeps DEF Abort
  <2>7. ASSUME NEW d \in DOMAIN dataset, BeginSave(r, d) PROVE IInv'
    BY <2>7, BeginSaveKeeps
  <2>8. CASE CommitSave(r)
    BY <2>8, CommitSaveKeeps
  <2> QED
    BY <1>1, <2>1, <2>2, <2>3, <2>4, <2>5, <2>6, <2>7, <2>8 DEF RequestStep
<1>2. CASE OwnerStep
  <2>1. ASSUME NEW s \in Setups, WriteSetup(s) PROVE IInv'
    BY <2>1 DEF WriteSetup, IInv, TypeOK, IdentityIsRecorded, RecordsIdentity, HoldsIdentity
  <2>2. CASE Upload(FALSE, setup)
    <3>1. setup \in Setups
      BY DEF IInv, TypeOK
    <3> QED
      BY <2>2, <3>1, UploadKeeps
  <2>3. ASSUME NEW s \in Setups, Upload(TRUE, s) PROVE IInv'
    BY <2>3, UploadKeeps
  <2>4. ASSUME NEW d \in DOMAIN dataset, DeleteDataset(d) PROVE IInv'
    BY <2>4, DeleteDatasetKeeps
  <2>5. ASSUME NEW p \in DOMAIN scenario, DeleteScenario(p) PROVE IInv'
    BY <2>5, DeleteScenarioKeeps
  <2> QED
    BY <1>2, <2>1, <2>2, <2>3, <2>4, <2>5 DEF OwnerStep
<1>3. CASE Tick
  <2>1. clock' \in Stamps
    BY <1>3, BoundAssumption DEF Tick, IInv, TypeOK, Stamps
  <2> QED
    BY <1>3, <2>1 DEF Tick, IInv, TypeOK, IdentityIsRecorded, RecordsIdentity, HoldsIdentity
<1>4. CASE UNCHANGED vars
  BY <1>4 DEF vars, IInv, TypeOK, IdentityIsRecorded, RecordsIdentity, HoldsIdentity
<1> QED
  BY <1>1, <1>2, <1>3, <1>4 DEF Next

\* The invariant holds throughout.
LEMMA Invariant == Spec => []IInv
<1>1. Init => IInv
  BY InitEstablishes
<1>2. IInv /\ [Next]_vars => IInv'
  BY StepKeeps
<1> QED
  BY <1>1, <1>2, PTL DEF Spec

\* Every variable keeps its type; in particular no id in use is beyond the number of inserts.
THEOREM TypesHold == Spec => []TypeOK
<1>1. IInv => TypeOK
  BY DEF IInv
<1> QED
  BY <1>1, Invariant, PTL

\* On Postgres an id names one row for ever, in the tables and in everything that recorded it.
THEOREM IdentityHolds == Spec => []IdentityIsRecorded
<1>1. IInv => IdentityIsRecorded
  BY DEF IInv
<1> QED
  BY <1>1, Invariant, PTL

---------------------------------------------------------------------------
(* Evidence identity *)

\* A job the server accepts as current evidence names the live rows it was computed from.
LEMMA CurrentJobIsLive ==
    ASSUME IInv, Postgres \/ Enforced, NEW s, NEW k \in DOMAIN jobs, JobCurrent(k, s)
    PROVE  /\ jobs[k].setup = s
           /\ jobs[k].dataset \in DOMAIN dataset
           /\ dataset[jobs[k].dataset].gen = jobs[k].datasetGen
           /\ jobs[k].scenario # None =>
                 /\ jobs[k].scenario \in DOMAIN scenario
                 /\ scenario[jobs[k].scenario].gen = jobs[k].scenarioGen
<1>1. jobs[k].setup = s /\ DatasetCited(jobs[k])
  BY DEF JobCurrent
<1>2. jobs[k].scenario # None => PlanCited(jobs[k], s)
  BY DEF JobCurrent
<1>3. Postgres => jobs[k].datasetGen = jobs[k].dataset /\ jobs[k].scenarioGen = jobs[k].scenario
  BY DEF IInv, IdentityIsRecorded, RecordsIdentity
<1>4. dataset[jobs[k].dataset].gen = jobs[k].datasetGen
  BY <1>1, <1>3 DEF DatasetCited, IInv, IdentityIsRecorded
<1>5. ASSUME jobs[k].scenario # None
      PROVE  /\ jobs[k].scenario \in DOMAIN scenario
             /\ scenario[jobs[k].scenario].gen = jobs[k].scenarioGen
  BY <1>2, <1>3, <1>5 DEF PlanCited, IInv, IdentityIsRecorded
<1> QED
  BY <1>1, <1>4, <1>5 DEF DatasetCited

\* The jobs a stored job rests on are stored jobs.
LEMMA ChainIsStored ==
    ASSUME IInv, NEW i \in DOMAIN jobs
    PROVE  Chain(i) \subseteq DOMAIN jobs
<1>1. jobs \in Seq(Job)
  BY DEF IInv, TypeOK
<1>2. \A k \in DOMAIN jobs : Links(k) \subseteq DOMAIN jobs
  <2> SUFFICES ASSUME NEW k \in DOMAIN jobs PROVE Links(k) \subseteq DOMAIN jobs
    OBVIOUS
  <2> DEFINE refs == jobs[k].refs
             cited == {refs.selection, refs.des, refs.mc, refs.validation}
  <2>1. RecordsIdentity(jobs[k])
    BY DEF IInv, IdentityIsRecorded
  <2>2. cited \subseteq 0..Len(jobs)
    BY <2>1 DEF RecordsIdentity
  <2>3. DOMAIN jobs = 1..Len(jobs) /\ Len(jobs) \in Nat
    BY <1>1
  <2>4. \A n \in 0..Len(jobs) : n # 0 => n \in DOMAIN jobs
    BY <2>3
  <2>5. Links(k) = cited \ {0}
    BY DEF Links, None
  <2> HIDE DEF cited
  <2> QED
    BY <2>2, <2>4, <2>5
<1> DEFINE first == Links(i)
           second == UNION {Links(k) : k \in first}
           third == UNION {Links(k) : k \in second}
<1>3. first \subseteq DOMAIN jobs
  BY <1>2
<1>4. second \subseteq DOMAIN jobs
  BY <1>2, <1>3
<1>5. third \subseteq DOMAIN jobs
  BY <1>2, <1>4
<1>6. Chain(i) = {i} \cup first \cup second \cup third
  BY DEF Chain
<1> QED
  BY <1>3, <1>4, <1>5, <1>6

\* A full-day run rests on no other job.
LEMMA FullDayRunStandsAlone ==
    ASSUME IInv, NEW i \in DOMAIN jobs, jobs[i].kind = "full_day"
    PROVE  Chain(i) = {i}
<1>1. jobs[i].refs = NoRefs
  BY DEF IInv, IdentityIsRecorded, RecordsIdentity
<1>2. Links(i) = {}
  BY <1>1 DEF Links, NoRefs, Citing, None
<1> QED
  BY <1>2 DEF Chain

\* Whatever a current job rests on, at any depth, is of this Setup and of rows that are still there.
LEMMA SlotIsLive ==
    ASSUME IInv, Postgres \/ Enforced, NEW i \in DOMAIN jobs, EvidenceCurrent(i, setup),
           NEW k \in Chain(i)
    PROVE  /\ jobs[k].setup = setup
           /\ jobs[k].dataset \in DOMAIN dataset
           /\ dataset[jobs[k].dataset].gen = jobs[k].datasetGen
           /\ jobs[k].scenario # None =>
                 /\ jobs[k].scenario \in DOMAIN scenario
                 /\ scenario[jobs[k].scenario].gen = jobs[k].scenarioGen
<1>1. k \in DOMAIN jobs /\ JobCurrent(k, setup)
  BY ChainIsStored DEF EvidenceCurrent
<1> QED
  BY <1>1, CurrentJobIsLive

\* Where ids are not reused or foreign keys are enforced, what is shown as current rests on live rows.
LEMMA LiveWhenIdentified ==
    ASSUME IInv, Postgres \/ Enforced
    PROVE  ServedEvidenceIsLive
<1> SUFFICES ASSUME NEW i \in Served(setup), NEW k \in Chain(i)
             PROVE  /\ jobs[k].setup = setup
                    /\ jobs[k].dataset \in DOMAIN dataset
                    /\ dataset[jobs[k].dataset].gen = jobs[k].datasetGen
                    /\ jobs[k].scenario # None =>
                          /\ jobs[k].scenario \in DOMAIN scenario
                          /\ scenario[jobs[k].scenario].gen = jobs[k].scenarioGen
  BY DEF ServedEvidenceIsLive
<1>1. TypeOK
  BY DEF IInv
<1>2. ASSUME NEW kind, i = PlanSlot(kind, setup), i # None
      PROVE  i \in DOMAIN jobs /\ EvidenceCurrent(i, setup)
  BY <1>1, <1>2, PlanSlotExists
<1>3. ASSUME NEW kind, i = CurrentSlot(kind, setup), i # None
      PROVE  i \in DOMAIN jobs /\ EvidenceCurrent(i, setup)
  BY <1>1, <1>3, LatestJobExists DEF CurrentSlot, Slot
<1>4. CASE i = FullDayRun(setup) /\ i # None
  <2> DEFINE p == SelectedPlan(setup)
  <2>1. p # None /\ i \in EligibleRuns(setup)
    BY <1>1, <1>4, FullDayRunExists
  <2>2. PlanEligible(p, setup)
    BY <1>1, <2>1, SelectedPlanExists
  <2>3. k = i /\ i \in DOMAIN jobs
    BY <2>1, FullDayRunStandsAlone DEF EligibleRuns
  <2> QED
    BY <2>1, <2>2, <2>3 DEF EligibleRuns, PlanEligible
<1>5. CASE \/ \E kind \in PlanKinds \cup {"decision"} : i = PlanSlot(kind, setup) /\ i # None
           \/ \E kind \in CurrentKinds : i = CurrentSlot(kind, setup) /\ i # None
  <2>1. i \in DOMAIN jobs /\ EvidenceCurrent(i, setup)
    BY <1>2, <1>3, <1>5
  <2> QED
    BY <2>1, SlotIsLive
<1>6. i # None
  BY DEF Served
<1>7. i = ServedDecision(setup) => i = PlanSlot("decision", setup)
  BY <1>6 DEF ServedDecision
<1>8. PICK kind \in AllKinds \ {"selection"} : i = ShownAs(kind, setup)
  BY DEF Served
<1>9. kind \in PlanKinds \cup CurrentKinds \cup {"full_day", "decision"}
  BY DEF AllKinds, PlanKinds, CurrentKinds
<1>10. i \in {PlanSlot(kind, setup), CurrentSlot(kind, setup), FullDayRun(setup), ServedDecision(setup)}
       /\ (kind \in PlanKinds => i = PlanSlot(kind, setup))
       /\ (kind \in CurrentKinds => i = CurrentSlot(kind, setup))
       /\ (kind = "full_day" => i = FullDayRun(setup))
       /\ (kind = "decision" => i = ServedDecision(setup))
  BY <1>8, <1>9 DEF ShownAs, PlanKinds, CurrentKinds
<1> QED
  BY <1>4, <1>5, <1>6, <1>7, <1>9, <1>10

\* Where ids are never handed out twice, or generations are enforced, nothing is ever shown as
\* current evidence that was computed from another Setup, another upload or another save than the
\* live ones, however requests, edits and deletions interleave.
THEOREM EvidenceIsLive ==
    ASSUME Postgres \/ Enforced
    PROVE  Spec => []ServedEvidenceIsLive
<1>1. IInv => ServedEvidenceIsLive
  BY LiveWhenIdentified
<1> QED
  BY <1>1, Invariant, PTL

\* Under the same condition the plan a selection yields is the very save that was picked, calculated
\* on the live upload of the current dataset and, for a separate plan, under this Setup.
THEOREM SelectionIsThePick ==
    ASSUME Postgres \/ Enforced
    PROVE  Spec => []SelectedPlanIsThePick
<1>1. ASSUME IInv PROVE SelectedPlanIsThePick
  <2> DEFINE p == SelectedPlan(setup)
  <2> SUFFICES ASSUME p # None
               PROVE  /\ jobs[LatestSelection].scenarioGen = scenario[p].gen
                      /\ scenario[p].dataset = CurrentDataset
                      /\ scenario[p].datasetGen = dataset[CurrentDataset].gen
                      /\ setup \in SeparateSetups => scenario[p].setup = setup
    BY DEF SelectedPlanIsThePick
  <2>1. TypeOK
    BY <1>1 DEF IInv
  <2>2. /\ PlanEligible(p, setup) /\ p = jobs[LatestSelection].scenario /\ LatestSelection # None
        /\ Enforced => jobs[LatestSelection].scenarioGen = scenario[p].gen
    BY <2>1, SelectedPlanExists
  <2>3. LatestSelection \in DOMAIN jobs
    <3>1. LatestSelection \in 1..Len(jobs)
      BY <2>1, <2>2, LatestSelectionExists DEF TypeOK, None
    <3> QED
      BY <2>1, <3>1 DEF TypeOK
  <2>4. /\ p \in DOMAIN scenario /\ scenario[p].dataset \in DOMAIN dataset
        /\ scenario[p].dataset = CurrentDataset
        /\ setup \in SeparateSetups => scenario[p].setup = setup
        /\ Enforced => scenario[p].datasetGen = dataset[CurrentDataset].gen
    BY <2>2 DEF PlanEligible, PlanMatchesSetup
  <2>5. Postgres => /\ jobs[LatestSelection].scenarioGen = scenario[p].gen
                    /\ scenario[p].datasetGen = dataset[CurrentDataset].gen
    BY <1>1, <2>2, <2>3, <2>4 DEF IInv, IdentityIsRecorded, RecordsIdentity
  <2> QED
    BY <2>2, <2>4, <2>5
<1> QED
  BY <1>1, Invariant, PTL


---------------------------------------------------------------------------
(* Where a job comes from *)

\* Every stored job, and every job in memory, records both its identity and its lineage.
LInv == IInv /\ LineageIsRecorded

(* The ids a job records, as stored jobs. *)
LEMMA CitedIsStored ==
    ASSUME TypeOK, NEW j \in Job, RecordsIdentity(j),
           NEW k \in {j.refs.selection, j.refs.des, j.refs.mc, j.refs.validation}, k # None
    PROVE  k \in DOMAIN jobs
<1>1. DOMAIN jobs = 1..Len(jobs) /\ Len(jobs) \in Nat
  BY DEF TypeOK
<1>2. k \in 0..Len(jobs)
  BY DEF RecordsIdentity
<1> QED
  BY <1>1, <1>2 DEF None

(* A lineage once recorded stays recorded: stored jobs are never changed or removed. *)
LEMMA LineageStable ==
    ASSUME TypeOK,
           \A i \in DOMAIN jobs : jobs'[i] = jobs[i],
           NEW j \in Job, RecordsIdentity(j), RecordsLineage(j)
    PROVE  RecordsLineage(j)'
<1> DEFINE runs == {j.refs.des, j.refs.mc, j.refs.validation} \ {None}
           plan == IF j.setup \in SeparateSetups \/ j.kind # "decision" THEN j.scenario
                   ELSE jobs[j.refs.selection].scenario
<1>1. \A k \in {j.refs.selection, j.refs.des, j.refs.mc, j.refs.validation} :
         k # None => jobs'[k] = jobs[k]
  BY CitedIsStored
<1>2. runs # {} => plan' = plan
  BY <1>1 DEF RecordsLineage
<1>3. \A k \in runs : jobs'[k].scenario = plan' /\ jobs'[k].kind \notin {"decision", "selection"}
  <2>1. \A k \in runs : jobs[k].scenario = plan /\ jobs[k].kind \notin {"decision", "selection"}
    BY DEF RecordsLineage
  <2> QED
    BY <1>1, <1>2, <2>1
<1>4. runs # {} => j.kind \in {"mc", "validation", "decision", "validation_current"}
  BY DEF RecordsLineage
<1>5. /\ j.refs.selection # None => j.kind = "decision" /\ jobs'[j.refs.selection].kind = "selection"
      /\ j.refs.selection = None /\ j.setup \notin SeparateSetups /\ j.kind = "decision" => runs = {}
      /\ j.kind = "full_day" \/ j.refs.continuous # None => j.setup \notin SeparateSetups
  BY <1>1 DEF RecordsLineage
<1>6. ASSUME j.kind = "decision", j.setup \in SeparateSetups
      PROVE  /\ None \notin {j.refs.des, j.refs.mc, j.refs.validation}
             /\ jobs'[j.refs.validation].refs.des = j.refs.des
             /\ jobs'[j.refs.validation].refs.mc = j.refs.mc
             /\ jobs'[j.refs.mc].refs.des = j.refs.des
  BY <1>1, <1>6 DEF RecordsLineage
<1> QED
  BY <1>3, <1>4, <1>5, <1>6 DEF RecordsLineage

(* A job that is computed from no other job. *)
LEMMA UncitedLineage ==
    ASSUME NEW j, j.refs = NoRefs, j.kind # "decision",
           j.kind = "full_day" => j.setup \notin SeparateSetups
    PROVE  RecordsLineage(j)
<1>1. {j.refs.des, j.refs.mc, j.refs.validation} \ {None} = {} /\ j.refs.selection = None
      /\ j.refs.continuous = None
  BY DEF NoRefs, Citing
<1> QED
  BY <1>1 DEF RecordsLineage

(* What a request computes rests on evidence about one plan. *)
LEMMA ComputedLineage ==
    ASSUME LInv, NEW kind \in AllKinds, NEW s \in Setups, NEW j \in Computed(kind, s)
    PROVE  RecordsLineage(j)
<1>1. TypeOK
  BY DEF LInv, IInv
<1>2. ASSUME j \in PlanRun(kind, s), kind # "decision", kind = "full_day" => s \notin SeparateSetups
      PROVE  RecordsLineage(j)
  BY <1>2, UncitedLineage DEF PlanRun, PlanJob
<1>3. CASE kind \in {"des_current", "mc_current"}
  <2>1. j = CurrentJob(kind, s, None)
    BY <1>3 DEF Computed, CurrentRun
  <2>2. j.refs = NoRefs /\ j.kind = kind
    BY <2>1 DEF CurrentJob, NoRefs
  <2> QED
    BY <1>3, <2>2, UncitedLineage
<1>4. CASE kind = "validation_current"
  <2> DEFINE m == LatestJob("mc_current", None)
  <2>1. m # None /\ j = CurrentJob("validation_current", s, m)
    BY <1>4 DEF Computed, CurrentValidation
  <2>2. jobs[m].kind = "mc_current" /\ jobs[m].scenario = None
    BY <1>1, <2>1, LatestJobExists
  <2> HIDE DEF m
  <2>3. /\ j.kind = "validation_current" /\ j.scenario = None
        /\ j.refs.selection = None /\ j.refs.des = None /\ j.refs.mc = m
        /\ j.refs.validation = None /\ j.refs.continuous = None
    BY <2>1 DEF CurrentJob, Citing
  <2> QED
    BY <2>1, <2>2, <2>3 DEF RecordsLineage
<1>5. CASE kind = "selection"
  <2>1. j.refs = NoRefs /\ j.kind = kind
    BY <1>5 DEF Computed, Selection, PlanJob
  <2> QED
    BY <1>5, <2>1, UncitedLineage
<1>6. CASE \/ kind = "des"
           \/ kind \in {"mc", "validation", "full_day"} /\ s \notin SeparateSetups
  BY <1>2, <1>6 DEF Computed
<1>7. kind = "full_day" => s \notin SeparateSetups
  BY DEF Computed
<1> DEFINE p == SelectedPlan(s)
           d == LatestJob("des", p)
           m == LatestJob("mc", p)
           v == LatestJob("validation", p)
<1>8. /\ d # None => jobs[d].kind = "des" /\ jobs[d].scenario = p
      /\ m # None => jobs[m].kind = "mc" /\ jobs[m].scenario = p
      /\ v # None => jobs[v].kind = "validation" /\ jobs[v].scenario = p
  BY <1>1, LatestJobExists
<1>9. CASE kind = "mc" /\ s \in SeparateSetups
  <2>1. j = PlanJob("mc", p, s, Citing(None, d, None, None, None))
    BY <1>9 DEF Computed, SelectedMonteCarlo
  <2> HIDE DEF p, d
  <2>2. /\ j.kind = "mc" /\ j.scenario = p
        /\ j.refs.selection = None /\ j.refs.des = d /\ j.refs.mc = None
        /\ j.refs.validation = None /\ j.refs.continuous = None
    BY <2>1 DEF PlanJob, Citing
  <2> QED
    BY <1>8, <2>2 DEF RecordsLineage
<1>10. CASE kind = "validation" /\ s \in SeparateSetups
  <2>1. j = PlanJob("validation", p, s, Citing(None, d, m, None, None))
    BY <1>10 DEF Computed, SelectedValidation
  <2> HIDE DEF p, d, m
  <2>2. /\ j.kind = "validation" /\ j.scenario = p
        /\ j.refs.selection = None /\ j.refs.des = d /\ j.refs.mc = m
        /\ j.refs.validation = None /\ j.refs.continuous = None
    BY <2>1 DEF PlanJob, Citing
  <2> QED
    BY <1>8, <2>2 DEF RecordsLineage
<1>11. CASE kind = "decision" /\ s \in SeparateSetups
  <2>1. /\ j = PlanJob("decision", p, s, Citing(None, d, m, v, None))
        /\ d # None /\ m # None /\ v # None
        /\ jobs[m].refs.des = d /\ jobs[v].refs.des = d /\ jobs[v].refs.mc = m
    BY <1>11 DEF Computed, SelectedDecision, SelectedPair
  <2> HIDE DEF p, d, m, v
  <2>2. /\ j.kind = "decision" /\ j.scenario = p /\ j.setup = s
        /\ j.refs.selection = None /\ j.refs.des = d /\ j.refs.mc = m
        /\ j.refs.validation = v /\ j.refs.continuous = None
    BY <2>1 DEF PlanJob, Citing
  <2> QED
    BY <1>8, <1>11, <2>1, <2>2 DEF RecordsLineage
<1>12. CASE kind = "decision" /\ s \notin SeparateSetups
  <2> DEFINE des == PlanSlot("des", s)
             mc == PlanSlot("mc", s)
             val == PlanSlot("validation", s)
             sel == LatestSelection
  <2>1. /\ j.kind = "decision" /\ j.setup = s
        /\ j.refs.selection = sel /\ j.refs.des = des /\ j.refs.mc = mc
        /\ j.refs.validation = val /\ j.refs.continuous = None
    BY <1>12 DEF Computed, SharedDecision, Citing
  <2>2. /\ des # None => jobs[des].kind = "des" /\ jobs[des].scenario = p /\ p # None
        /\ mc # None => jobs[mc].kind = "mc" /\ jobs[mc].scenario = p /\ p # None
        /\ val # None => jobs[val].kind = "validation" /\ jobs[val].scenario = p /\ p # None
    BY <1>1, PlanSlotExists
  <2>3. p # None => sel # None /\ p = jobs[sel].scenario
    BY <1>1, SelectedPlanExists
  <2>4. sel # None => jobs[sel].kind = "selection"
    BY <1>1, LatestSelectionExists
  <2> HIDE DEF des, mc, val, sel, p
  <2> QED
    BY <1>12, <2>1, <2>2, <2>3, <2>4 DEF RecordsLineage
<1> QED
  BY <1>3, <1>4, <1>5, <1>6, <1>7, <1>9, <1>10, <1>11, <1>12 DEF AllKinds

(* The second read of a Decision keeps its evidence, drops it for a full-day run, or names the selection. *)
LEMMA DecidedLineage ==
    ASSUME LInv, NEW draft \in Job, RecordsIdentity(draft), RecordsLineage(draft),
           draft.kind = "decision", NEW j \in Decided(draft, draft.setup)
    PROVE  RecordsLineage(j)
<1> DEFINE s == draft.setup
           run == FullDayRun(s)
           sel == LatestSelection
<1>1. TypeOK
  BY DEF LInv, IInv
<1>2. sel # None => jobs[sel].kind = "selection"
  BY <1>1, LatestSelectionExists
<1>3. CASE s \in SeparateSetups
  <2>1. j = [draft EXCEPT !.refs = [draft.refs EXCEPT !.selection = sel]]
    BY <1>3 DEF Decided, Job
  <2> HIDE DEF sel
  <2>2. /\ j.kind = "decision" /\ j.setup = s /\ j.scenario = draft.scenario
        /\ j.refs.selection = sel /\ j.refs.des = draft.refs.des /\ j.refs.mc = draft.refs.mc
        /\ j.refs.validation = draft.refs.validation /\ j.refs.continuous = draft.refs.continuous
    BY <2>1 DEF Job, Refs
  <2> QED
    BY <1>2, <1>3, <2>2 DEF RecordsLineage
<1>4. CASE s \notin SeparateSetups
  <2> DEFINE cited == IF run = None THEN draft.refs
                      ELSE Citing(draft.refs.selection, None, draft.refs.mc, None, run)
  <2>1. j.kind = "decision" /\ j.setup = s /\ j.refs = cited
    BY <1>4 DEF Decided, PlanJob
  <2>2. /\ j.refs.selection = draft.refs.selection /\ j.refs.mc = draft.refs.mc
        /\ j.refs.des \in {draft.refs.des, None}
        /\ j.refs.validation \in {draft.refs.validation, None}
    BY <2>1 DEF Citing
  <2> HIDE DEF cited
  <2> QED
    BY <1>4, <2>1, <2>2 DEF RecordsLineage
<1> QED
  BY <1>3, <1>4

(* A step that stores no job: one request's memory changes, or none does. *)
LEMMA LineageMemoryStep ==
    ASSUME LInv, IInv', UNCHANGED jobs,
           \A r \in Requests :
               \/ request'[r] = request[r]
               \/ request'[r].phase \in {"computed", "rechecked"} => RecordsLineage(request'[r].job)
    PROVE  LInv'
<1>1. \A j : RecordsLineage(j) => RecordsLineage(j)'
  BY DEF RecordsLineage
<1>2. \A i \in DOMAIN jobs' : RecordsLineage(jobs'[i])
  BY DEF LInv, LineageIsRecorded
<1>3. \A r \in Requests :
         request'[r].phase \in {"computed", "rechecked"} => RecordsLineage(request'[r].job)
  BY DEF LInv, LineageIsRecorded
<1> QED
  BY <1>1, <1>2, <1>3 DEF LInv, LineageIsRecorded

\* A commit keeps the lineage: the job stored cites jobs of its own plan, and stored jobs stay.
LEMMA LineageCommit ==
    ASSUME LInv, IInv', NEW r \in Requests, Commit(r)
    PROVE  LInv'
<1> DEFINE stored == Stamped(request[r].job)
<1>1. jobs \in Seq(Job) /\ \A q \in Requests : request[q] \in RequestState
  BY DEF LInv, IInv, TypeOK
<1>2. request[r].job \in Job /\ RecordsIdentity(request[r].job) /\ RecordsLineage(request[r].job)
      /\ clock \in Stamps
  BY PhaseHolds DEF LInv, IInv, TypeOK, IdentityIsRecorded, HoldsIdentity, LineageIsRecorded, Commit
<1>3. /\ stored \in Job /\ stored.kind = request[r].job.kind /\ stored.refs = request[r].job.refs
      /\ stored.setup = request[r].job.setup /\ stored.scenario = request[r].job.scenario
  BY <1>2 DEF Job, Stamped
<1>4. jobs' = Append(jobs, stored)
  BY DEF Commit
<1> HIDE DEF stored
<1>5. /\ \A i \in DOMAIN jobs : jobs'[i] = jobs[i]
      /\ \A i \in DOMAIN jobs' : i \in DOMAIN jobs \/ jobs'[i] = stored
  BY <1>1, <1>3, <1>4
<1>6. ASSUME NEW j \in Job, RecordsIdentity(j), RecordsLineage(j)
      PROVE  RecordsLineage(j)'
  BY <1>5, <1>6, LineageStable DEF LInv, IInv
<1>7. RecordsLineage(stored) /\ RecordsIdentity(stored)
  BY <1>2, <1>3 DEF RecordsLineage, RecordsIdentity, Stamped, stored
<1>8. (\A i \in DOMAIN jobs : RecordsLineage(jobs[i]))'
  <2>1. \A j \in Job : RecordsIdentity(j) /\ RecordsLineage(j) => RecordsLineage(j)'
    BY <1>6
  <2>2. \A i \in DOMAIN jobs : jobs[i] \in Job /\ RecordsIdentity(jobs[i]) /\ RecordsLineage(jobs[i])
    BY <1>1 DEF LInv, IInv, IdentityIsRecorded, LineageIsRecorded
  <2>3. \A i \in DOMAIN jobs' :
           jobs'[i] \in Job /\ RecordsIdentity(jobs'[i]) /\ RecordsLineage(jobs'[i])
    BY <1>3, <1>5, <1>7, <2>2
  <2> QED
    BY <2>1, <2>3
<1>9. (\A q \in Requests : request[q].phase \in {"computed", "rechecked"} =>
          RecordsLineage(request[q].job))'
  <2>1. \A j \in Job : RecordsIdentity(j) /\ RecordsLineage(j) => RecordsLineage(j)'
    BY <1>6
  <2>2. \A q \in Requests : request'[q] = Idle \/ request'[q] = request[q]
    BY DEF Commit, Ends, LInv, IInv, TypeOK
  <2>3. ASSUME NEW q \in Requests, request'[q].phase \in {"computed", "rechecked"}
        PROVE  /\ request'[q].job \in Job
               /\ RecordsIdentity(request'[q].job) /\ RecordsLineage(request'[q].job)
    <3>1. request'[q] = request[q]
      BY <2>2, <2>3 DEF Idle
    <3> QED
      BY <2>3, <3>1, PhaseHolds
         DEF LInv, IInv, IdentityIsRecorded, HoldsIdentity, LineageIsRecorded
  <2> QED
    BY <2>1, <2>3
<1> QED
  BY <1>8, <1>9 DEF LInv, LineageIsRecorded

\* Every step keeps the lineage.
LEMMA LineageStep == LInv /\ [Next]_vars => LInv'
<1> SUFFICES ASSUME LInv, [Next]_vars PROVE LInv'
  OBVIOUS
<1>1. IInv'
  BY StepKeeps DEF LInv
<1>2. request \in [Requests -> RequestState]
  BY DEF LInv, IInv, TypeOK
<1>3. ASSUME NEW r \in Requests, RequestStep(r) PROVE LInv'
  <2>1. ASSUME NEW v, request' = [request EXCEPT ![r] = v], UNCHANGED jobs,
               v.phase \in {"computed", "rechecked"} => RecordsLineage(v.job)
        PROVE  LInv'
    BY <1>1, <1>2, <2>1, LineageMemoryStep
  <2>2. ASSUME Ends(r), UNCHANGED jobs PROVE LInv'
    BY <2>1, <2>2 DEF Ends, Idle
  <2>3. ASSUME NEW kind \in Kinds, Begin(r, kind) PROVE LInv'
    BY <2>1, <2>3 DEF Begin
  <2>4. CASE Compute(r)
    <3>1. PICK j \in Computed(request[r].kind, request[r].setup) :
            request' = [request EXCEPT ![r] =
                [phase |-> "computed", job |-> [j EXCEPT !.created = request[r].created]]]
      BY <2>4 DEF Compute
    <3>2. request[r].kind \in AllKinds /\ request[r].setup \in Setups
      BY <2>4, PhaseHolds DEF Compute, LInv, IInv
    <3>3. RecordsLineage(j) /\ j \in Job
      BY <3>1, <3>2, ComputedLineage, ComputedRecords DEF LInv, IInv
    <3>4. RecordsLineage([j EXCEPT !.created = request[r].created])
      BY <3>3 DEF RecordsLineage, Job
    <3> QED
      BY <2>1, <2>4, <3>1, <3>4 DEF Compute
  <2>5. CASE Recheck(r)
    <3>1. PICK j \in Decided(request[r].job, request[r].job.setup) :
            request' = [request EXCEPT ![r] = [phase |-> "rechecked", job |-> j]]
      BY <2>5 DEF Recheck
    <3>2. /\ request[r].job \in Job /\ RecordsIdentity(request[r].job)
          /\ request[r].job.kind = "decision" /\ RecordsLineage(request[r].job)
      BY <2>5, PhaseHolds
         DEF Recheck, LInv, IInv, IdentityIsRecorded, HoldsIdentity, LineageIsRecorded
    <3>3. RecordsLineage(j)
      BY <3>1, <3>2, DecidedLineage
    <3> QED
      BY <2>1, <2>5, <3>1, <3>3 DEF Recheck
  <2>6. CASE Refuse(r) \/ Abort(r) \/ CommitSave(r)
    BY <2>2, <2>6 DEF Refuse, Abort, CommitSave
  <2>7. CASE Commit(r)
    BY <1>1, <2>7, LineageCommit
  <2>8. ASSUME NEW d \in DOMAIN dataset, BeginSave(r, d) PROVE LInv'
    BY <2>1, <2>8 DEF BeginSave
  <2> QED
    BY <1>3, <2>3, <2>4, <2>5, <2>6, <2>7, <2>8 DEF RequestStep
<1>4. CASE OwnerStep \/ Tick \/ UNCHANGED vars
  <2>1. UNCHANGED <<jobs, request>>
    BY <1>4 DEF OwnerStep, WriteSetup, Upload, DeleteDataset, DeleteScenario, Tick, vars
  <2> QED
    BY <1>1, <2>1, LineageMemoryStep
<1> QED
  BY <1>3, <1>4 DEF Next

\* With no jobs there is no lineage to be wrong.
LEMMA InitLineage == Init => LInv
<1> SUFFICES ASSUME Init PROVE LInv
  OBVIOUS
<1>1. jobs = <<>> /\ \A r \in Requests : request[r] = Idle
  BY DEF Init
<1>2. LineageIsRecorded
  BY <1>1 DEF LineageIsRecorded, Idle
<1> QED
  BY <1>2, InitEstablishes DEF LInv

\* The lineage holds throughout.
LEMMA LineageInvariant == Spec => []LInv
BY InitLineage, LineageStep, PTL DEF Spec

---------------------------------------------------------------------------
(* One plan in every Decision shown and in every report *)

(* A Decision that is shown belongs to the plan that is selected and cites its selection. *)
LEMMA ServedDecisionExists ==
    ASSUME TypeOK, NEW s, NEW d, d = ServedDecision(s), d # None
    PROVE  /\ d \in DOMAIN jobs /\ jobs[d].kind = "decision" /\ d = PlanSlot("decision", s)
           /\ SelectedPlan(s) # None /\ jobs[d].scenario = SelectedPlan(s)
           /\ EvidenceCurrent(d, s) /\ JobCurrent(d, s)
           /\ DecisionMatchesSlots(d, s)
<1>1. d = PlanSlot("decision", s) /\ DecisionMatchesSlots(d, s)
  BY DEF ServedDecision
<1>2. d \in Chain(d)
  BY DEF Chain
<1> QED
  BY <1>1, <1>2, PlanSlotExists DEF EvidenceCurrent

(* A run that is not a Decision is derived from runs about its own plan only. *)
LEMMA RunCitesItsPlan ==
    ASSUME LInv, NEW i \in DOMAIN jobs, jobs[i].kind # "decision", NEW k \in Links(i)
    PROVE  k \in DOMAIN jobs /\ jobs[k].kind # "decision" /\ jobs[k].scenario = jobs[i].scenario
<1>1. RecordsLineage(jobs[i]) /\ RecordsIdentity(jobs[i]) /\ jobs[i] \in Job /\ TypeOK
  BY DEF LInv, IInv, TypeOK, IdentityIsRecorded, LineageIsRecorded
<1>2. k # None /\ k \in {jobs[i].refs.des, jobs[i].refs.mc, jobs[i].refs.validation}
  BY <1>1 DEF Links, RecordsLineage
<1>3. k \in DOMAIN jobs
  BY <1>1, <1>2, CitedIsStored
<1> QED
  BY <1>1, <1>2, <1>3 DEF RecordsLineage

(* Everything a shown Decision was derived from is about the plan that is selected. *)
LEMMA ChainIsOfOnePlan ==
    ASSUME LInv, NEW s, NEW d, d = ServedDecision(s), d # None, NEW k \in Chain(d)
    PROVE  k \in DOMAIN jobs /\ jobs[k].scenario = SelectedPlan(s)
<1> DEFINE P == SelectedPlan(s)
           About(i) == i \in DOMAIN jobs /\ jobs[i].scenario = P /\ jobs[i].kind # "decision"
           second == UNION {Links(i) : i \in Links(d)}
           third == UNION {Links(i) : i \in second}
<1>1. TypeOK
  BY DEF LInv, IInv
<1>2. /\ d \in DOMAIN jobs /\ jobs[d].kind = "decision" /\ P # None /\ jobs[d].scenario = P
      /\ jobs[d].refs.selection = LatestSelection
  BY <1>1, ServedDecisionExists DEF DecisionMatchesSlots
<1>3. RecordsLineage(jobs[d]) /\ RecordsIdentity(jobs[d]) /\ jobs[d] \in Job
  BY <1>2 DEF LInv, IInv, TypeOK, IdentityIsRecorded, LineageIsRecorded
<1>4. P = jobs[LatestSelection].scenario /\ LatestSelection # None
      /\ jobs[LatestSelection].kind = "selection"
  BY <1>1, <1>2, SelectedPlanExists, LatestSelectionExists
<1>5. \A i \in Links(d) : About(i)
  <2> SUFFICES ASSUME NEW i \in Links(d) PROVE About(i)
    OBVIOUS
  <2>1. i \in {jobs[d].refs.selection, jobs[d].refs.des, jobs[d].refs.mc, jobs[d].refs.validation}
        /\ i # None
    BY DEF Links
  <2>2. i \in DOMAIN jobs
    BY <1>1, <1>3, <2>1, CitedIsStored
  <2>3. CASE i = jobs[d].refs.selection
    BY <1>2, <1>4, <2>2, <2>3
  <2>4. CASE i # jobs[d].refs.selection
    BY <1>2, <1>3, <1>4, <2>1, <2>2, <2>4 DEF RecordsLineage
  <2> QED
    BY <2>3, <2>4
<1> HIDE DEF P
<1>6. \A i \in DOMAIN jobs : About(i) => \A l \in Links(i) : About(l)
  BY RunCitesItsPlan
<1> HIDE DEF About
<1>7. \A i : About(i) => i \in DOMAIN jobs
  BY DEF About
<1>8. \A i \in second : About(i)
  BY <1>5, <1>6, <1>7
<1>9. \A i \in third : About(i)
  BY <1>6, <1>7, <1>8
<1>10. k = d \/ k \in Links(d) \/ k \in second \/ k \in third
  BY DEF Chain
<1> HIDE DEF second, third
<1>11. k = d \/ About(k)
  BY <1>5, <1>8, <1>9, <1>10
<1> QED
  BY <1>2, <1>11 DEF About, P

(* ... and was computed from the live rows: one save of the plan, one upload, one Setup. *)
LEMMA ChainIsOfOneSave ==
    ASSUME LInv, Postgres \/ Enforced, NEW s, NEW d, d = ServedDecision(s), d # None,
           NEW k \in Chain(d)
    PROVE  /\ jobs[k].scenario = SelectedPlan(s)
           /\ jobs[k].scenarioGen = scenario[SelectedPlan(s)].gen
           /\ jobs[k].dataset = CurrentDataset
           /\ jobs[k].datasetGen = dataset[CurrentDataset].gen
           /\ jobs[k].setup = s
<1>1. TypeOK /\ IInv
  BY DEF LInv, IInv
<1>2. k \in DOMAIN jobs /\ jobs[k].scenario = SelectedPlan(s)
  BY ChainIsOfOnePlan
<1>3. SelectedPlan(s) # None /\ JobCurrent(k, s)
  BY <1>1, ServedDecisionExists DEF EvidenceCurrent
<1>4. jobs[k].dataset = CurrentDataset
  BY <1>3 DEF JobCurrent, DatasetCited
<1> QED
  BY <1>1, <1>2, <1>3, <1>4, CurrentJobIsLive

(* The full-day run of the selected plan is evidence about the live rows by its own definition. *)
LEMMA FullDayRunIsOfOneSave ==
    ASSUME TypeOK, NEW s, NEW k, k = FullDayRun(s), k # None
    PROVE  /\ k \in DOMAIN jobs /\ jobs[k].kind = "full_day"
           /\ jobs[k].scenario = SelectedPlan(s)
           /\ jobs[k].scenarioGen = scenario[SelectedPlan(s)].gen
           /\ jobs[k].datasetGen = dataset[CurrentDataset].gen
           /\ jobs[k].setup = s
<1>1. k \in EligibleRuns(s) /\ SelectedPlan(s) # None
  BY FullDayRunExists
<1>2. scenario[SelectedPlan(s)].dataset = CurrentDataset
  BY <1>1, SelectedPlanExists DEF PlanEligible
<1> QED
  BY <1>1, <1>2 DEF EligibleRuns

\* A shown Decision and the runs it rests on are about one save of one plan.
LEMMA OnePlanInEveryDecision ==
    ASSUME LInv, Postgres \/ Enforced
    PROVE  ServedDecisionRestsOnOnePlan
<1> DEFINE d == ServedDecision(setup)
           P == SelectedPlan(setup)
           cited == Chain(d) \cup ({jobs[d].refs.continuous} \ {None})
<1> SUFFICES ASSUME d # None, NEW k \in cited
             PROVE  /\ jobs[k].scenario = P
                    /\ jobs[k].scenarioGen = jobs[d].scenarioGen
                    /\ jobs[k].datasetGen = jobs[d].datasetGen
                    /\ jobs[k].setup = jobs[d].setup
                    /\ \A p \in DOMAIN scenario : \A r \in ScenarioReport(p, setup) :
                          r.decision # None => r.decision = d /\ scenario[p].gen = jobs[d].scenarioGen
  BY DEF ServedDecisionRestsOnOnePlan
<1>1. TypeOK
  BY DEF LInv, IInv
<1>2. d \in Chain(d)
  BY DEF Chain
<1>3. /\ jobs[d].scenario = P /\ jobs[d].scenarioGen = scenario[P].gen
      /\ jobs[d].datasetGen = dataset[CurrentDataset].gen /\ jobs[d].setup = setup
  BY <1>2, ChainIsOfOneSave
<1>4. /\ jobs[k].scenario = P /\ jobs[k].scenarioGen = scenario[P].gen
      /\ jobs[k].datasetGen = dataset[CurrentDataset].gen /\ jobs[k].setup = setup
  <2>1. CASE k \in Chain(d)
    BY <2>1, ChainIsOfOneSave
  <2>2. CASE k = jobs[d].refs.continuous /\ k # None
    <3>1. k = FullDayRun(setup)
      BY <1>1, <2>2, ServedDecisionExists DEF DecisionMatchesSlots
    <3> QED
      BY <1>1, <2>2, <3>1, FullDayRunIsOfOneSave
  <2> QED
    BY <2>1, <2>2
<1>5. ASSUME NEW p \in DOMAIN scenario, NEW r \in ScenarioReport(p, setup), r.decision # None
      PROVE  r.decision = d /\ p = P
  BY <1>5 DEF ScenarioReport, DecisionForReport
<1> QED
  BY <1>3, <1>4, <1>5

\* So is a full report, read in two steps.
LEMMA OnePlanInEveryReport ==
    ASSUME LInv, Postgres \/ Enforced
    PROVE  FullReportIsOfOnePlan
<1> SUFFICES ASSUME NEW s \in Setups, NEW first \in DOMAIN jobs, jobs[first].kind = "decision",
                    NEW r \in FullReport(s, first, ServedDecision(s)), NEW plan \in PlanReport(s)
             PROVE  /\ jobs[first].scenario = plan.plan /\ jobs[first].scenarioGen = plan.planGen
                    /\ jobs[first].datasetGen = plan.datasetGen
                    /\ IF r.run # None
                       THEN r.mc = jobs[first].refs.mc /\ r.run = jobs[first].refs.continuous
                       ELSE r.des = jobs[first].refs.des /\ r.validation = jobs[first].refs.validation
  BY DEF FullReportIsOfOnePlan
<1> DEFINE d == ServedDecision(s)
           P == SelectedPlan(s)
<1>1. TypeOK
  BY DEF LInv, IInv
<1>2. d # None /\ SameResult(first, d) /\ r \in FullSections(d, s)
  BY DEF FullReport
<1>3. d \in DOMAIN jobs /\ DecisionMatchesSlots(d, s) /\ P # None
  BY <1>1, <1>2, ServedDecisionExists
<1>4. jobs[first] \in Job /\ jobs[d] \in Job
  BY <1>1, <1>3 DEF TypeOK
<1> HIDE DEF d
<1>5. /\ jobs[first].scenario = jobs[d].scenario /\ jobs[first].scenarioGen = jobs[d].scenarioGen
      /\ jobs[first].datasetGen = jobs[d].datasetGen /\ jobs[first].refs = jobs[d].refs
  BY <1>2, <1>4 DEF SameResult, Job
<1>6. /\ jobs[d].scenario = P /\ jobs[d].scenarioGen = scenario[P].gen
      /\ jobs[d].datasetGen = dataset[CurrentDataset].gen
  BY <1>2, ChainIsOfOneSave DEF Chain, d
<1>7. /\ plan.plan = P /\ plan.planGen = scenario[P].gen
      /\ plan.datasetGen = dataset[scenario[P].dataset].gen
  BY DEF PlanReport
<1>8. scenario[P].dataset = CurrentDataset
  BY <1>1, <1>3, SelectedPlanExists DEF PlanEligible
<1>9. /\ r.run = jobs[d].refs.continuous /\ r.mc = PlanSlot("mc", s) /\ r.des = PlanSlot("des", s)
      /\ r.validation = PlanSlot("validation", s)
  BY <1>2 DEF FullSections
<1> QED
  BY <1>3, <1>5, <1>6, <1>7, <1>8, <1>9 DEF DecisionMatchesSlots

\* Where ids are never handed out twice, or generations are enforced: every Decision shown, with all it
\* was derived from, is about one save of one plan, and so is every full report, however other requests
\* commit between a request's reads.
THEOREM DecisionsAreOfOnePlan ==
    ASSUME Postgres \/ Enforced
    PROVE  Spec => []ServedDecisionIsOfOnePlan
<1>1. LInv => ServedDecisionIsOfOnePlan
  BY OnePlanInEveryDecision, OnePlanInEveryReport DEF ServedDecisionIsOfOnePlan
<1> QED
  BY <1>1, LineageInvariant, PTL

---------------------------------------------------------------------------
(* The chain of a separate plan *)

\* The runs a shown separate Decision cites cite one another.
LEMMA SeparateChainHolds ==
    ASSUME LInv, NEW d, d = ServedDecision(setup), d # None, setup \in SeparateSetups
    PROVE  /\ {jobs[d].refs.des, jobs[d].refs.mc, jobs[d].refs.validation} \subseteq DOMAIN jobs
           /\ jobs[jobs[d].refs.validation].refs.des = jobs[d].refs.des
           /\ jobs[jobs[d].refs.validation].refs.mc = jobs[d].refs.mc
           /\ jobs[jobs[d].refs.mc].refs.des = jobs[d].refs.des
<1>1. TypeOK
  BY DEF LInv, IInv
<1>2. d \in DOMAIN jobs /\ jobs[d].kind = "decision" /\ jobs[d].setup = setup
  BY <1>1, ServedDecisionExists DEF JobCurrent
<1>3. RecordsLineage(jobs[d]) /\ RecordsIdentity(jobs[d]) /\ jobs[d] \in Job
  BY <1>2 DEF LInv, IInv, TypeOK, IdentityIsRecorded, LineageIsRecorded
<1>4. None \notin {jobs[d].refs.des, jobs[d].refs.mc, jobs[d].refs.validation}
  BY <1>2, <1>3 DEF RecordsLineage
<1>5. {jobs[d].refs.des, jobs[d].refs.mc, jobs[d].refs.validation} \subseteq DOMAIN jobs
  BY <1>1, <1>3, <1>4, CitedIsStored
<1> QED
  BY <1>2, <1>3, <1>5 DEF RecordsLineage

\* The report of the selected plan shows the runs in its slots, and the Decision that is shown if its selection is the latest.
LEMMA SelectedReportHolds ==
    ASSUME LInv, Postgres \/ Enforced, NEW r \in SelectedReport(setup)
    PROVE  /\ r.plan \in r.siblings /\ Comparison(setup).selected = r.plan
           /\ \A kind \in PlanKinds : r.runs[kind] = PlanSlot(kind, setup)
           /\ \A kind \in ChainKinds : jobs[r.runs[kind]].scenarioGen = scenario[r.plan].gen
           /\ jobs[r.runs.decision].refs.selection = LatestSelection =>
                 ServedDecision(setup) = r.runs.decision
<1> DEFINE P == SelectedPlan(setup)
           c == [kind \in ChainKinds |-> LatestJob(kind, P)]
           cited == jobs[c.decision].refs
<1>1. TypeOK /\ IInv
  BY DEF LInv, IInv
<1>2. /\ setup \in SeparateSetups /\ P # None
      /\ \A kind \in ChainKinds : c[kind] # None /\ EvidenceCurrent(c[kind], setup)
      /\ cited.des = c.des /\ cited.mc = c.mc /\ cited.validation = c.validation
      /\ r.runs = c
  BY DEF SelectedReport, ReportChain
<1>3. r.plan = P /\ r.siblings = {p \in DOMAIN scenario : scenario[p].setup \in SeparateSetups}
  BY DEF SelectedReport
<1>4. PlanEligible(P, setup) /\ P = jobs[LatestSelection].scenario /\ LatestSelection # None
  BY <1>1, <1>2, SelectedPlanExists
<1>5. r.plan \in r.siblings
  BY <1>2, <1>3, <1>4 DEF PlanEligible, PlanMatchesSetup, SameStructure
<1>6. Comparison(setup).selected = r.plan
  BY <1>3, <1>4 DEF Comparison
<1>7. \A kind \in ChainKinds : c[kind] = PlanSlot(kind, setup)
  BY <1>2 DEF PlanSlot, Slot
<1>8. ASSUME NEW kind \in ChainKinds
      PROVE  /\ c[kind] \in DOMAIN jobs /\ jobs[c[kind]].kind = kind
             /\ jobs[c[kind]].setup = setup
             /\ jobs[c[kind]].scenarioGen = scenario[P].gen
  <2> DEFINE i == LatestJob(kind, P)
  <2>1. c[kind] = i
    OBVIOUS
  <2>2. i # None /\ EvidenceCurrent(i, setup)
    BY <1>2, <2>1
  <2>3. i \in DOMAIN jobs /\ jobs[i].kind = kind /\ jobs[i].scenario = P
    BY <1>1, <2>2, LatestJobExists
  <2>4. JobCurrent(i, setup)
    BY <2>2 DEF EvidenceCurrent, Chain
  <2> HIDE DEF i
  <2> QED
    BY <1>1, <1>2, <2>1, <2>3, <2>4, CurrentJobIsLive
<1>9. \A kind \in PlanKinds : kind \in ChainKinds
  BY DEF PlanKinds, ChainKinds
<1> DEFINE d == c.decision
<1>10. "decision" \in ChainKinds /\ "des" \in ChainKinds /\ "validation" \in ChainKinds
  BY DEF ChainKinds
<1>11. d \in DOMAIN jobs /\ jobs[d].kind = "decision" /\ jobs[d].setup = setup
       /\ d = PlanSlot("decision", setup) /\ d # None
       /\ cited.des = PlanSlot("des", setup) /\ cited.validation = PlanSlot("validation", setup)
  BY <1>2, <1>7, <1>8, <1>10
<1>12. RecordsLineage(jobs[d])
  BY <1>11 DEF LInv, LineageIsRecorded
<1>13. cited.continuous = None
  BY <1>2, <1>11, <1>12 DEF RecordsLineage
<1>14. FullDayRun(setup) = None
  <2> SUFFICES ASSUME FullDayRun(setup) # None PROVE FALSE
    OBVIOUS
  <2> DEFINE k == FullDayRun(setup)
  <2>1. k \in DOMAIN jobs /\ jobs[k].kind = "full_day" /\ jobs[k].setup = setup
    BY <1>1, FullDayRunIsOfOneSave
  <2> HIDE DEF k
  <2>2. RecordsLineage(jobs[k])
    BY <2>1 DEF LInv, LineageIsRecorded
  <2> QED
    BY <1>2, <2>1, <2>2 DEF RecordsLineage
<1>15. cited.selection = LatestSelection => ServedDecision(setup) = d
  <2> HIDE DEF c
  <2> QED
    BY <1>11, <1>13, <1>14 DEF ServedDecision, DecisionMatchesSlots
<1> QED
  BY <1>2, <1>3, <1>5, <1>6, <1>7, <1>8, <1>9, <1>15

\* On the comparison page a plan is valid and selected exactly if the selection yields it.
LEMMA ComparisonHolds ==
    ASSUME TypeOK, ComparisonShown(setup), ~ Enforced, NEW p \in DOMAIN scenario
    PROVE  (Comparison(setup).plans[p] = "valid" /\ Comparison(setup).selected = p)
              <=> (SelectedPlan(setup) = p)
<1>1. p # None /\ CurrentDataset # None /\ setup \in SeparateSetups
  BY DEF TypeOK, ComparisonShown, None
<1>2. CurrentDataset \in DOMAIN dataset
  BY <1>1, CurrentDatasetExists
<1>3. Comparison(setup).plans[p] = "valid" <=>
         /\ scenario[p].setup \in SeparateSetups
         /\ scenario[p].dataset = CurrentDataset
         /\ PlanMatchesSetup(p, setup)
  BY DEF Comparison
<1>4. PlanEligible(p, setup) <=> scenario[p].dataset = CurrentDataset /\ PlanMatchesSetup(p, setup)
  BY <1>2 DEF PlanEligible
<1>5. PlanMatchesSetup(p, setup) => scenario[p].setup \in SeparateSetups
  BY <1>1 DEF PlanMatchesSetup, SameStructure
<1>6. Comparison(setup).selected = p <=> LatestSelection # None /\ jobs[LatestSelection].scenario = p
  BY <1>1 DEF Comparison
<1>7. SelectedPlan(setup) = p <=>
         LatestSelection # None /\ jobs[LatestSelection].scenario = p /\ PlanEligible(p, setup)
  BY <1>1 DEF SelectedPlan
<1> QED
  BY <1>3, <1>4, <1>5, <1>6, <1>7

\* Under the same condition the chain of a separate plan is one line in the Decision shown, and the
\* final report is built on the very runs and the Decision the pages show.  What the comparison page
\* calls valid and selected is the plan all of them are about when generations are not enforced.
THEOREM SeparateChainIsOneLine ==
    ASSUME Postgres \/ Enforced
    PROVE  Spec => []SeparateDecisionChainIsOneLine
<1>1. ASSUME LInv PROVE SeparateDecisionChainIsOneLine
  <2>1. TypeOK
    BY <1>1 DEF LInv, IInv
  <2>2. \A d : d = ServedDecision(setup) /\ d # None /\ setup \in SeparateSetups =>
           /\ {jobs[d].refs.des, jobs[d].refs.mc, jobs[d].refs.validation} \subseteq DOMAIN jobs
           /\ jobs[jobs[d].refs.validation].refs.des = jobs[d].refs.des
           /\ jobs[jobs[d].refs.validation].refs.mc = jobs[d].refs.mc
           /\ jobs[jobs[d].refs.mc].refs.des = jobs[d].refs.des
    BY <1>1, SeparateChainHolds
  <2>3. \A r \in SelectedReport(setup) :
           /\ r.plan \in r.siblings /\ Comparison(setup).selected = r.plan
           /\ \A kind \in PlanKinds : r.runs[kind] = PlanSlot(kind, setup)
           /\ \A kind \in ChainKinds : jobs[r.runs[kind]].scenarioGen = scenario[r.plan].gen
           /\ jobs[r.runs.decision].refs.selection = LatestSelection =>
                 ServedDecision(setup) = r.runs.decision
    BY <1>1, SelectedReportHolds
  <2>4. ComparisonShown(setup) /\ ~ Enforced => \A p \in DOMAIN scenario :
           (Comparison(setup).plans[p] = "valid" /\ Comparison(setup).selected = p)
              <=> (SelectedPlan(setup) = p)
    BY <2>1, ComparisonHolds
  <2> QED
    BY <2>2, <2>3, <2>4 DEF SeparateDecisionChainIsOneLine
<1> QED
  BY <1>1, LineageInvariant, PTL

---------------------------------------------------------------------------
(* What storing one job changes *)

(* _save_job: one row is added and nothing else is written. *)
Stores(j) == j \in Job /\ jobs' = Append(jobs, j) /\ UNCHANGED <<dataset, scenario>>

\* Storing a job adds it after all the others.
LEMMA StoredJobs ==
    ASSUME TypeOK, NEW j, Stores(j)
    PROVE  /\ Len(jobs) \in Nat /\ DOMAIN jobs = 1..Len(jobs)
           /\ DOMAIN jobs' = DOMAIN jobs \cup {Len(jobs) + 1} /\ Len(jobs') = Len(jobs) + 1
           /\ \A i \in DOMAIN jobs : jobs'[i] = jobs[i] /\ i # Len(jobs) + 1
           /\ jobs'[Len(jobs) + 1] = j
BY DEF TypeOK, Stores

(* The verdict on an older job, and everything it was derived from, stay what they were. *)
LEMMA VerdictStable ==
    ASSUME IInv, NEW j, Stores(j), NEW s, NEW i \in DOMAIN jobs
    PROVE  Chain(i)' = Chain(i) /\ (EvidenceCurrent(i, s)' <=> EvidenceCurrent(i, s))
<1>1. \A k \in DOMAIN jobs : jobs'[k] = jobs[k]
  BY StoredJobs DEF IInv
<1>2. \A k \in DOMAIN jobs : Links(k)' = Links(k)
  BY <1>1 DEF Links
<1>3. \A k \in DOMAIN jobs : Chain(k) \subseteq DOMAIN jobs
  BY ChainIsStored
<1> DEFINE second == UNION {Links(k) : k \in Links(i)}
<1>4. Links(i) \subseteq DOMAIN jobs /\ second \subseteq DOMAIN jobs
  BY <1>3 DEF Chain
<1>5. (second)' = second
  BY <1>2, <1>4
<1>6. (UNION {Links(k) : k \in second})' = UNION {Links(k) : k \in second}
  BY <1>2, <1>4, <1>5
<1>7. Chain(i)' = Chain(i)
  BY <1>2, <1>5, <1>6 DEF Chain
<1>8. CurrentDataset' = CurrentDataset
  BY DEF Stores, CurrentDataset
<1>9. \A l \in DOMAIN jobs : Links(l) \subseteq DOMAIN jobs
  BY <1>3 DEF Chain
<1>10. ASSUME NEW k \in DOMAIN jobs
       PROVE  JobCurrent(k, s)' <=> JobCurrent(k, s)
  <2>1. jobs'[k] = jobs[k] /\ Links(k)' = Links(k) /\ \A l \in Links(k) : jobs'[l] = jobs[l]
    BY <1>1, <1>2, <1>9
  <2>2. DatasetCited(jobs[k])' <=> DatasetCited(jobs[k])
    BY <1>8, <2>1 DEF DatasetCited, Stores
  <2>3. PlanCited(jobs[k], s)' <=> PlanCited(jobs[k], s)
    BY <1>8, <2>1 DEF PlanCited, PlanMatchesSetup, SameStructure, Stores
  <2> QED
    BY <2>1, <2>2, <2>3 DEF JobCurrent
<1> QED
  BY <1>3, <1>7, <1>10 DEF EvidenceCurrent

(* The greatest of a set of positive ids, once it is named. *)
LEMMA MaxIs ==
    ASSUME NEW n \in Nat, NEW S, S \subseteq 1..n, NEW x \in S, \A y \in S : y <= x
    PROVE  Max(S) = x
<1> DEFINE m == Max(S)
<1>1. m \in S /\ m >= x
  BY MaxIsMember
<1> HIDE DEF m
<1>2. m <= x /\ m \in Nat /\ x \in Nat
  BY <1>1
<1>3. m = x
  BY <1>1, <1>2
<1> QED
  BY <1>3 DEF m

(* The stored job is the latest of its kind about its plan; every other latest job stays. *)
LEMMA LatestStable ==
    ASSUME TypeOK, NEW j, Stores(j), NEW kind, NEW plan
    PROVE  LatestJob(kind, plan)' =
               IF j.kind = kind /\ j.scenario = plan THEN Len(jobs) + 1 ELSE LatestJob(kind, plan)
<1> DEFINE matching == {i \in DOMAIN jobs : jobs[i].kind = kind /\ jobs[i].scenario = plan}
           n == Len(jobs) + 1
<1>1. /\ Len(jobs) \in Nat /\ DOMAIN jobs = 1..Len(jobs)
      /\ DOMAIN jobs' = DOMAIN jobs \cup {n}
      /\ \A i \in DOMAIN jobs : jobs'[i] = jobs[i] /\ i # n
      /\ jobs'[n] = j
  BY StoredJobs
<1>2. CASE j.kind = kind /\ j.scenario = plan
  <2>1. (matching)' = matching \cup {n}
    BY <1>1, <1>2
  <2> HIDE DEF matching
  <2>2. matching \cup {n} \subseteq 1..n /\ \A y \in matching \cup {n} : y <= n
    BY <1>1 DEF matching
  <2>3. Max(matching \cup {n}) = n
    BY <1>1, <2>2, MaxIs
  <2> QED
    BY <1>2, <2>1, <2>3 DEF LatestJob, matching
<1>3. CASE ~ (j.kind = kind /\ j.scenario = plan)
  <2>1. (matching)' = matching
    BY <1>1, <1>3
  <2> QED
    BY <1>3, <2>1 DEF LatestJob
<1> QED
  BY <1>2, <1>3

\* A job that is no selection leaves the selected plan as it was.
LEMMA SelectionStable ==
    ASSUME TypeOK, NEW j, Stores(j), j.kind # "selection", NEW s
    PROVE  LatestSelection' = LatestSelection /\ SelectedPlan(s)' = SelectedPlan(s)
<1> DEFINE matching == {i \in DOMAIN jobs : jobs[i].kind = "selection"}
<1>1. (matching)' = matching
  BY StoredJobs
<1>2. LatestSelection' = LatestSelection
  BY <1>1 DEF LatestSelection
<1>3. LatestSelection # None => jobs'[LatestSelection] = jobs[LatestSelection]
  BY LatestSelectionExists, StoredJobs
<1>4. CurrentDataset' = CurrentDataset
  BY DEF Stores, CurrentDataset
<1>5. \A p : PlanEligible(p, s)' <=> PlanEligible(p, s)
  BY <1>4 DEF PlanEligible, PlanMatchesSetup, SameStructure, Stores
<1>6. SelectedPlan(s)' = SelectedPlan(s)
  BY <1>2, <1>3, <1>5 DEF SelectedPlan, Stores
<1> QED
  BY <1>2, <1>6

\* A job leaves the slots of the other kinds as they were.
LEMMA SlotStable ==
    ASSUME IInv, NEW j, Stores(j), j.kind # "selection", NEW kind, kind # j.kind, NEW s
    PROVE  PlanSlot(kind, s)' = PlanSlot(kind, s)
<1>1. TypeOK
  BY DEF IInv
<1>2. SelectedPlan(s)' = SelectedPlan(s)
  BY <1>1, SelectionStable
<1> DEFINE p == SelectedPlan(s)
           i == LatestJob(kind, p)
<1>3. \A plan : LatestJob(kind, plan)' = LatestJob(kind, plan)
  BY <1>1, LatestStable
<1>4. i # None => i \in DOMAIN jobs
  BY <1>1, LatestJobExists
<1>5. \A k \in DOMAIN jobs : EvidenceCurrent(k, s)' <=> EvidenceCurrent(k, s)
  BY VerdictStable
<1>6. i' = i
  BY <1>2, <1>3
<1> HIDE DEF i
<1>7. Slot(kind, p, s)' = Slot(kind, p, s)
  BY <1>2, <1>4, <1>5, <1>6 DEF Slot, i
<1> QED
  BY <1>2, <1>7 DEF PlanSlot

\* A job that is neither a selection nor a full-day run leaves the full-day run that is shown.
LEMMA RunsStable ==
    ASSUME TypeOK, NEW j, Stores(j), j.kind \notin {"selection", "full_day"}, NEW s
    PROVE  FullDayRun(s)' = FullDayRun(s)
<1>1. SelectedPlan(s)' = SelectedPlan(s)
  BY SelectionStable
<1>2. UNCHANGED <<dataset, scenario>>
  BY DEF Stores
<1>3. EligibleRuns(s)' = EligibleRuns(s)
  BY <1>1, <1>2, StoredJobs DEF EligibleRuns
<1> QED
  BY <1>3 DEF FullDayRun

---------------------------------------------------------------------------
(* Time stamps *)

(* A row stays in order while datasets are only removed or inserted under new generations. *)
LEMMA RowStaysInOrder ==
    ASSUME NEW row, StampedAfterItsUpload(row),
           \A d \in DOMAIN dataset' :
               \/ d \in DOMAIN dataset /\ dataset'[d] = dataset[d]
               \/ dataset'[d].gen = uploads + 1,
           uploads \in Nat, row.datasetGen \in Nat, uploads' \in {uploads, uploads + 1}
    PROVE  StampedAfterItsUpload(row)'
BY DEF StampedAfterItsUpload

(* The same when the row is stamped anew with the time of its insert. *)
LEMMA StampedNow ==
    ASSUME TypeOK, \A d \in DOMAIN dataset : dataset[d].created <= clock,
           NEW row \in ScenarioRow, StampedAfterItsUpload(row)
    PROVE  StampedAfterItsUpload([Stamped(row) EXCEPT !.gen = saves + 1])
BY DEF StampedAfterItsUpload, Stamped, ScenarioRow

\* A step of a request keeps stamps in order: a plan is not stamped before its upload.
LEMMA StampsOfRequest ==
    ASSUME IInv, IInv', StampsInOrder, NEW r \in Requests, RequestStep(r)
    PROVE  StampsInOrder'
<1>1. /\ request \in [Requests -> RequestState] /\ clock \in Nat /\ setup \in Setups
      /\ \A d \in DOMAIN dataset : dataset[d] \in DatasetRow
  BY DEF IInv, TypeOK, Stamps
<1>2. UNCHANGED <<dataset, uploads, clock>>
  BY DEF RequestStep, Begin, Compute, Refuse, Recheck, Commit, Abort, BeginSave, CommitSave
<1>3. \A row : StampedAfterItsUpload(row)' <=> StampedAfterItsUpload(row)
  BY <1>2 DEF StampedAfterItsUpload
<1>4. ASSUME NEW v, request' = [request EXCEPT ![r] = v], UNCHANGED scenario,
             v.phase = "begun" => v.created <= clock,
             v.phase \in {"computed", "rechecked"} => v.job.created <= clock,
             v.phase = "saving" => StampedAfterItsUpload(v.row)
      PROVE  StampsInOrder'
  <2>1. \A q \in Requests : request'[q] = IF q = r THEN v ELSE request[q]
    BY <1>1, <1>4
  <2>2. \A q \in Requests :
           /\ request'[q].phase = "begun" => request'[q].created <= clock
           /\ request'[q].phase \in {"computed", "rechecked"} => request'[q].job.created <= clock
           /\ request'[q].phase = "saving" => StampedAfterItsUpload(request'[q].row)
    BY <1>4, <2>1 DEF StampsInOrder
  <2> QED
    BY <1>2, <1>3, <1>4, <2>2 DEF StampsInOrder
<1>5. ASSUME Ends(r), UNCHANGED scenario PROVE StampsInOrder'
  BY <1>4, <1>5 DEF Ends, Idle
<1>6. ASSUME NEW kind \in Kinds, Begin(r, kind) PROVE StampsInOrder'
  <2> DEFINE v == [phase |-> "begun", kind |-> kind, setup |-> setup, created |-> clock]
  <2>1. v.phase = "begun" /\ v.created <= clock
    BY <1>1
  <2>2. request' = [request EXCEPT ![r] = v] /\ UNCHANGED scenario
    BY <1>6 DEF Begin
  <2> HIDE DEF v
  <2> QED
    BY <1>4, <2>1, <2>2
<1>7. CASE Compute(r)
  <2>1. PICK j \in Computed(request[r].kind, request[r].setup) :
          request' = [request EXCEPT ![r] =
              [phase |-> "computed", job |-> [j EXCEPT !.created = request[r].created]]]
    BY <1>7 DEF Compute
  <2>2. request[r].kind \in AllKinds /\ request[r].setup \in Setups /\ request[r].created <= clock
    BY <1>7, PhaseHolds DEF Compute, StampsInOrder, IInv
  <2>3. j \in Job
    BY <2>1, <2>2, ComputedRecords DEF IInv
  <2>4. [j EXCEPT !.created = request[r].created].created = request[r].created
    BY <2>3 DEF Job
  <2> QED
    BY <1>4, <1>7, <2>1, <2>2, <2>4 DEF Compute
<1>8. CASE Recheck(r)
  <2>1. PICK j \in Decided(request[r].job, request[r].job.setup) :
          request' = [request EXCEPT ![r] = [phase |-> "rechecked", job |-> j]]
    BY <1>8 DEF Recheck
  <2>2. request[r].job \in Job /\ request[r].job.created <= clock
    BY <1>8, PhaseHolds DEF Recheck, StampsInOrder, IInv
  <2>3. j.created = request[r].job.created
    BY <2>1, <2>2 DEF Decided, Job, PlanJob
  <2> QED
    BY <1>4, <1>8, <2>1, <2>2, <2>3 DEF Recheck
<1>9. CASE Refuse(r) \/ Abort(r) \/ Commit(r)
  BY <1>5, <1>9 DEF Refuse, Abort, Commit
<1>10. ASSUME NEW d \in DOMAIN dataset, BeginSave(r, d) PROVE StampsInOrder'
  <2> DEFINE row == [gen |-> None, created |-> clock, dataset |-> d,
                     datasetGen |-> dataset[d].gen, setup |-> setup]
  <2>1. StampedAfterItsUpload(row)
    BY DEF StampedAfterItsUpload, StampsInOrder
  <2> HIDE DEF row
  <2> QED
    BY <1>4, <1>10, <2>1 DEF BeginSave, row
<1>11. CASE CommitSave(r)
  <2> DEFINE kept == request[r].row
             row == [Stamped(kept) EXCEPT !.gen = saves + 1]
             id == NewId(scenario, saves)
  <2>1. kept \in ScenarioRow /\ StampedAfterItsUpload(kept) /\ TypeOK
    BY <1>11, PhaseHolds DEF IInv, CommitSave, StampsInOrder
  <2>2. StampedAfterItsUpload(row)
    BY <2>1, StampedNow DEF StampsInOrder
  <2>3. scenario' = With(scenario, id, row)
    BY <1>11 DEF CommitSave
  <2> HIDE DEF row, id, kept
  <2>4. \A p \in DOMAIN scenario' : StampedAfterItsUpload(scenario'[p])
    BY <2>2, <2>3 DEF With, StampsInOrder
  <2>5. \A q \in Requests : request'[q] = Idle \/ request'[q] = request[q]
    BY <1>1, <1>11 DEF CommitSave, Ends
  <2>6. \A q \in Requests :
           /\ request'[q].phase = "begun" => request'[q].created <= clock
           /\ request'[q].phase \in {"computed", "rechecked"} => request'[q].job.created <= clock
           /\ request'[q].phase = "saving" => StampedAfterItsUpload(request'[q].row)
    BY <2>5 DEF StampsInOrder, Idle
  <2> QED
    BY <1>2, <1>3, <2>4, <2>6 DEF StampsInOrder
<1> QED
  BY <1>6, <1>7, <1>8, <1>9, <1>10, <1>11 DEF RequestStep

\* Every step keeps stamps in order.
LEMMA StampsStep == IInv /\ IInv' /\ StampsInOrder /\ [Next]_vars => StampsInOrder'
<1> SUFFICES ASSUME IInv, IInv', StampsInOrder, [Next]_vars PROVE StampsInOrder'
  OBVIOUS
<1>1. /\ uploads \in Nat /\ clock \in Nat /\ DOMAIN dataset \subseteq 1..uploads
      /\ \A d \in DOMAIN dataset : dataset[d] \in DatasetRow
      /\ \A p \in DOMAIN scenario : scenario[p] \in ScenarioRow
      /\ \A r \in Requests : request[r] \in RequestState
  BY DEF IInv, TypeOK, Stamps
<1>2. ASSUME UNCHANGED <<request, clock>>, uploads' \in {uploads, uploads + 1},
             \A d \in DOMAIN dataset' :
                 \/ d \in DOMAIN dataset /\ dataset'[d] = dataset[d]
                 \/ /\ dataset'[d].gen = uploads + 1 /\ uploads' = uploads + 1
                    /\ dataset'[d].created <= clock,
             \A p \in DOMAIN scenario' : p \in DOMAIN scenario /\ scenario'[p] = scenario[p]
      PROVE  StampsInOrder'
  <2>1. \A row \in ScenarioRow : StampedAfterItsUpload(row) => StampedAfterItsUpload(row)'
    BY <1>1, <1>2, RowStaysInOrder DEF ScenarioRow
  <2>2. \A p \in DOMAIN scenario' : scenario'[p] \in ScenarioRow /\ StampedAfterItsUpload(scenario'[p])
    BY <1>1, <1>2 DEF StampsInOrder
  <2>3. \A r \in Requests : request[r].phase = "saving" => request[r].row \in ScenarioRow
    BY PhaseHolds DEF IInv
  <2>4. \A d \in DOMAIN dataset' : dataset'[d].gen <= uploads' /\ dataset'[d].created <= clock
    BY <1>1, <1>2 DEF StampsInOrder, DatasetRow
  <2> QED
    BY <1>2, <2>1, <2>2, <2>3, <2>4 DEF StampsInOrder
<1>3. ASSUME NEW r \in Requests, RequestStep(r) PROVE StampsInOrder'
  BY <1>3, StampsOfRequest
<1>4. ASSUME NEW planning \in BOOLEAN, NEW s \in Setups, Upload(planning, s) PROVE StampsInOrder'
  <2>1. PICK t \in InsertStamps :
          dataset' = With(dataset, NewId(dataset, uploads),
                          [gen |-> uploads + 1, created |-> t, planning |-> planning])
    BY <1>4 DEF Upload
  <2>2. t <= clock
    BY <1>1 DEF InsertStamps
  <2>3. \A d \in DOMAIN dataset' :
           \/ d \in DOMAIN dataset /\ dataset'[d] = dataset[d]
           \/ dataset'[d].gen = uploads + 1 /\ dataset'[d].created <= clock
    BY <2>1, <2>2 DEF With
  <2> QED
    BY <1>2, <1>4, <2>3 DEF Upload
<1>5. ASSUME NEW d \in DOMAIN dataset, DeleteDataset(d) PROVE StampsInOrder'
  BY <1>2, <1>5 DEF DeleteDataset, Restrict
<1>6. ASSUME NEW p \in DOMAIN scenario, DeleteScenario(p) PROVE StampsInOrder'
  BY <1>2, <1>6 DEF DeleteScenario, Restrict
<1>7. CASE (\E s \in Setups : WriteSetup(s)) \/ UNCHANGED vars
  BY <1>2, <1>7 DEF WriteSetup, vars
<1>8. CASE Tick
  <2>1. UNCHANGED <<dataset, scenario, request, uploads>> /\ clock' = clock + 1
    BY <1>8 DEF Tick
  <2>2. \A row : StampedAfterItsUpload(row)' <=> StampedAfterItsUpload(row)
    BY <2>1 DEF StampedAfterItsUpload
  <2>3. \A d \in DOMAIN dataset : dataset[d].created \in Nat
    BY <1>1 DEF DatasetRow, Stamps
  <2>4. \A r \in Requests :
           /\ request[r].phase = "begun" => request[r].created \in Nat
           /\ request[r].phase \in {"computed", "rechecked"} => request[r].job.created \in Nat
    BY PhaseHolds DEF IInv, Job, Stamps
  <2> QED
    BY <1>1, <2>1, <2>2, <2>3, <2>4 DEF StampsInOrder
<1>9. setup \in Setups
  BY DEF IInv, TypeOK
<1> QED
  BY <1>3, <1>4, <1>5, <1>6, <1>7, <1>8, <1>9 DEF Next, OwnerStep

\* The inductive invariant of every theorem below about time.
HInv == LInv /\ StampsInOrder

\* The three layers of the invariant hold throughout.
LEMMA HistoryInvariant == Spec => []HInv
<1>1. Init => HInv
  <2> SUFFICES ASSUME Init PROVE HInv
    OBVIOUS
  <2>1. LInv
    BY InitLineage
  <2>2. dataset = <<>> /\ scenario = <<>> /\ \A r \in Requests : request[r] = Idle
    BY DEF Init
  <2>3. StampsInOrder
    BY <2>2 DEF StampsInOrder, Idle
  <2> QED
    BY <2>1, <2>3 DEF HInv
<1>2. HInv /\ [Next]_vars => HInv'
  BY LineageStep, StampsStep DEF HInv, LInv
<1> QED
  BY <1>1, <1>2, PTL DEF Spec

\* Whatever requests, edits and deletions interleave, every job recorded the rows and the jobs it was
\* computed from, every one of those jobs was about its own plan, and no plan is older than its upload.
THEOREM HistoryHolds == Spec => []HistoryIsRecorded
<1>1. HInv => HistoryIsRecorded
  BY DEF HInv, LInv, IInv, HistoryIsRecorded
<1> QED
  BY <1>1, HistoryInvariant, PTL

---------------------------------------------------------------------------
(* A fresh run is shown *)

(* What a request would save now belongs to the selected plan, or to none for a Current run. *)
LEMMA ComputedNowIs ==
    ASSUME IInv, NEW kind \in AllKinds \ {"selection"}, NEW now \in ComputedNow(kind)
    PROVE  /\ now \in Job /\ now.kind = kind /\ now.setup = setup
           /\ kind \in CurrentKinds =>
                 /\ now.scenario = None /\ CurrentDataset # None
                 /\ now.dataset = CurrentDataset /\ now.datasetGen = dataset[CurrentDataset].gen
           /\ kind \notin CurrentKinds =>
                 \E p : /\ p = SelectedPlan(setup) /\ p # None /\ now.scenario = p
                        /\ now.scenarioGen = scenario[p].gen /\ now.dataset = scenario[p].dataset
                        /\ now.datasetGen = dataset[scenario[p].dataset].gen
<1> DEFINE s == setup
           p == SelectedPlan(s)
           OfPlan(j) == /\ p # None /\ j.scenario = p
                        /\ j.scenarioGen = scenario[p].gen /\ j.dataset = scenario[p].dataset
                        /\ j.datasetGen = dataset[scenario[p].dataset].gen
<1>1. TypeOK /\ IdentityIsRecorded /\ s \in Setups
  BY DEF IInv, TypeOK
<1>2. ASSUME NEW j, NEW refs, p # None, j = PlanJob(kind, p, s, refs)
      PROVE  j.kind = kind /\ j.setup = s /\ OfPlan(j)
  BY <1>2 DEF PlanJob
<1>3. CASE kind \in CurrentKinds
  <2>1. now \in Computed(kind, s)
    BY <1>3 DEF ComputedNow, CurrentKinds
  <2>2. now \in Job
    BY <1>1, <2>1, ComputedRecords
  <2>3. CurrentDataset # None /\ \E m : now = CurrentJob(kind, s, m)
    BY <1>3, <2>1 DEF Computed, CurrentKinds, CurrentRun, CurrentValidation
  <2> QED
    BY <1>3, <2>2, <2>3 DEF CurrentJob
<1>4. CASE kind \in {"des", "mc", "validation", "full_day"}
  <2>1. now \in Computed(kind, s)
    BY <1>4 DEF ComputedNow
  <2>2. now \in Job
    BY <1>1, <2>1, ComputedRecords
  <2>3. p # None /\ \E refs : now = PlanJob(kind, p, s, refs)
    BY <1>4, <2>1 DEF Computed, PlanRun, SelectedMonteCarlo, SelectedValidation
  <2> HIDE DEF p
  <2> QED
    BY <1>2, <1>4, <2>2, <2>3 DEF CurrentKinds, p
<1>5. CASE kind = "decision"
  <2>1. PICK draft \in Computed(kind, s) : now \in Decided(draft, s)
    BY <1>5 DEF ComputedNow
  <2>2. draft \in Job /\ RecordsIdentity(draft)
    BY <1>1, <2>1, ComputedRecords
  <2>3. draft.kind = "decision" /\ draft.setup = s
        /\ (s \in SeparateSetups => p # None /\ \E refs : draft = PlanJob(kind, p, s, refs))
    BY <1>5, <2>1 DEF Computed, SelectedDecision, SharedDecision, PlanJob
  <2>4. now \in Job
    BY <1>1, <2>1, <2>2, <2>3, DecidedRecords
  <2>5. CASE s \in SeparateSetups
    <3>1. now = [draft EXCEPT !.refs.selection = LatestSelection]
      BY <2>1, <2>5 DEF Decided
    <3>2. now.kind = draft.kind /\ now.setup = draft.setup /\ now.scenario = draft.scenario
          /\ now.scenarioGen = draft.scenarioGen /\ now.dataset = draft.dataset
          /\ now.datasetGen = draft.datasetGen
      BY <2>2, <3>1 DEF Job
    <3>3. OfPlan(draft)
      BY <1>2, <2>3, <2>5
    <3> HIDE DEF p
    <3> QED
      BY <1>5, <2>3, <2>4, <3>2, <3>3 DEF CurrentKinds, p
  <2>6. CASE s \notin SeparateSetups
    <3>1. p # None /\ \E refs : now = [PlanJob("decision", p, s, refs) EXCEPT !.created = draft.created]
      BY <2>1, <2>6 DEF Decided
    <3> HIDE DEF p
    <3>2. now.kind = kind /\ now.setup = s /\ OfPlan(now)
      BY <1>5, <3>1 DEF PlanJob
    <3> QED
      BY <1>5, <2>4, <3>1, <3>2 DEF CurrentKinds, p
  <2> QED
    BY <2>5, <2>6
<1> QED
  BY <1>3, <1>4, <1>5 DEF AllKinds, CurrentKinds

(* The rows a fresh job names are accepted as its evidence, at its own time and at any later one. *)
LEMMA FreshRowsAreCited ==
    ASSUME HInv, Postgres \/ Enforced, NEW j \in Job, j.kind # "selection", StillFresh(j),
           NEW k \in Job, k.created >= j.created,
           k.scenario = j.scenario, k.scenarioGen = j.scenarioGen,
           k.dataset = j.dataset, k.datasetGen = j.datasetGen
    PROVE  DatasetCited(k) /\ (k.scenario # None => PlanCited(k, setup))
<1>1. TypeOK /\ IInv /\ IdentityIsRecorded /\ StampsInOrder
  BY DEF HInv, LInv, IInv
<1>2. PICK now \in ComputedNow(j.kind) : [now EXCEPT !.created = j.created] = j
  BY DEF StillFresh
<1>3. j.kind \in AllKinds \ {"selection"}
  BY DEF Job
<1>4. now \in Job
  BY <1>1, <1>3, ComputedNowIs
<1>5. /\ now.scenario = j.scenario /\ now.scenarioGen = j.scenarioGen
      /\ now.dataset = j.dataset /\ now.datasetGen = j.datasetGen
  BY <1>2, <1>4 DEF Job
<1>6. /\ dataset[j.dataset].created <= j.created
      /\ j.scenario # None => scenario[j.scenario].created <= j.created
  BY DEF StillFresh
<1>7. k.created \in Nat /\ j.created \in Nat
  BY DEF Job, Stamps
<1>8. CASE j.kind \in CurrentKinds
  <2>1. /\ j.scenario = None /\ j.dataset = CurrentDataset /\ CurrentDataset # None
        /\ j.datasetGen = dataset[CurrentDataset].gen
    BY <1>1, <1>3, <1>5, <1>8, ComputedNowIs
  <2>2. CurrentDataset \in DOMAIN dataset /\ dataset[CurrentDataset].created \in Nat
    BY <1>1, <2>1, CurrentDatasetExists DEF TypeOK, DatasetRow, Stamps
  <2> QED
    BY <1>6, <1>7, <2>1, <2>2 DEF DatasetCited
<1>9. CASE j.kind \notin CurrentKinds
  <2> DEFINE p == SelectedPlan(setup)
             d == scenario[p].dataset
  <2>1. /\ p # None /\ j.scenario = p /\ j.scenarioGen = scenario[p].gen
        /\ j.dataset = d /\ j.datasetGen = dataset[d].gen
    BY <1>1, <1>3, <1>5, <1>9, ComputedNowIs
  <2>2. PlanEligible(p, setup)
    BY <1>1, <2>1, SelectedPlanExists
  <2> HIDE DEF p
  <2>3. /\ p \in DOMAIN scenario /\ d \in DOMAIN dataset /\ d = CurrentDataset
        /\ PlanMatchesSetup(p, setup)
        /\ Enforced => scenario[p].datasetGen = dataset[d].gen
    BY <2>2 DEF PlanEligible
  <2>4. dataset[d].created \in Nat /\ scenario[p].created \in Nat
    BY <1>1, <2>3 DEF TypeOK, DatasetRow, ScenarioRow, Stamps
  <2>5. scenario[p].datasetGen = dataset[d].gen
    BY <1>1, <2>3 DEF IdentityIsRecorded
  <2>6. dataset[d].created <= scenario[p].created
    BY <1>1, <2>3, <2>5 DEF StampsInOrder, StampedAfterItsUpload
  <2>7. DatasetCited(k)
    BY <1>6, <1>7, <2>1, <2>3, <2>4 DEF DatasetCited
  <2>8. PlanCited(k, setup)
    BY <1>6, <1>7, <2>1, <2>3, <2>4, <2>5, <2>6 DEF PlanCited
  <2> QED
    BY <2>7, <2>8
<1> QED
  BY <1>8, <1>9

(* A stored job whose rows are live, and which cites current evidence no newer than itself, is current. *)
LEMMA NewEvidenceIsCurrent ==
    ASSUME IInv, NEW j, Stores(j), NEW n, n = Len(jobs) + 1, NEW s, j.setup = s,
           DatasetCited(j), j.scenario # None => PlanCited(j, s),
           \A k \in {j.refs.selection, j.refs.des, j.refs.mc, j.refs.validation} \ {None} :
               k \in DOMAIN jobs /\ jobs[k].created <= j.created /\ EvidenceCurrent(k, s)
    PROVE  EvidenceCurrent(n, s)'
<1> DEFINE L == {j.refs.selection, j.refs.des, j.refs.mc, j.refs.validation} \ {None}
           older == UNION {Chain(k) : k \in L}
<1>1. TypeOK
  BY DEF IInv
<1>2. /\ \A i \in DOMAIN jobs : jobs'[i] = jobs[i]
      /\ jobs'[n] = j
  BY <1>1, StoredJobs
<1>3. Links(n)' = L
  BY <1>2 DEF Links
<1>4. \A k \in L : Chain(k)' = Chain(k) /\ EvidenceCurrent(k, s)'
  BY VerdictStable
<1>5. \A k \in L : Links(k)' \subseteq Chain(k) /\ (UNION {Links(i) : i \in Links(k)})' \subseteq Chain(k)
  <2>1. ASSUME NEW k \in L
        PROVE  Links(k)' \subseteq Chain(k)' /\ (UNION {Links(i) : i \in Links(k)})' \subseteq Chain(k)'
    BY DEF Chain
  <2> QED
    BY <1>4, <2>1
<1>6. Chain(n)' \subseteq {n} \cup L \cup older
  <2> DEFINE second == UNION {Links(k) : k \in Links(n)}
             third == UNION {Links(k) : k \in second}
  <2>1. second' \subseteq older
    BY <1>3, <1>5
  <2>2. third' \subseteq older
    <3> SUFFICES ASSUME NEW x \in third' PROVE x \in older
      OBVIOUS
    <3>1. PICK y \in second' : x \in Links(y)'
      OBVIOUS
    <3>2. PICK z \in L : y \in Links(z)'
      BY <1>3, <3>1
    <3>3. x \in (UNION {Links(i) : i \in Links(z)})'
      BY <3>1, <3>2
    <3> QED
      BY <1>5, <3>2, <3>3
  <2>3. Chain(n)' = {n} \cup Links(n)' \cup second' \cup third'
    BY DEF Chain
  <2> HIDE DEF second, third, older
  <2> QED
    BY <1>3, <2>1, <2>2, <2>3
<1>7. \A k \in older \cup L : JobCurrent(k, s)'
  <2>1. ASSUME NEW k \in L, NEW i \in Chain(k) PROVE JobCurrent(i, s)'
    BY <1>4, <2>1 DEF EvidenceCurrent
  <2>2. \A k \in L : k \in Chain(k)
    BY DEF Chain
  <2> QED
    BY <2>1, <2>2
<1>8. JobCurrent(n, s)'
  <2>1. CurrentDataset' = CurrentDataset /\ UNCHANGED <<dataset, scenario>>
    BY DEF Stores, CurrentDataset
  <2>2. DatasetCited(j)'
    BY <2>1 DEF DatasetCited
  <2>3. j.scenario # None => PlanCited(j, s)'
    BY <2>1 DEF PlanCited, PlanMatchesSetup, SameStructure
  <2>4. \A k \in L : jobs'[k].created <= j.created
    BY <1>2
  <2> QED
    BY <1>2, <1>3, <2>2, <2>3, <2>4 DEF JobCurrent
<1> HIDE DEF L, older
<1>9. \A k \in Chain(n)' : JobCurrent(k, s)'
  BY <1>6, <1>7, <1>8
<1> QED
  BY <1>9 DEF EvidenceCurrent

(* A Decision taken now cites what the pages show now. *)
LEMMA DecisionNowCites ==
    ASSUME HInv, NEW now \in ComputedNow("decision")
    PROVE  /\ now.refs.selection = LatestSelection
           /\ IF now.refs.continuous # None
              THEN now.refs.mc = PlanSlot("mc", setup) /\ now.refs.continuous = FullDayRun(setup)
              ELSE /\ now.refs.des = PlanSlot("des", setup)
                   /\ now.refs.validation = PlanSlot("validation", setup)
                   /\ FullDayRun(setup) = None
<1> DEFINE s == setup
           p == SelectedPlan(s)
           run == FullDayRun(s)
<1>1. TypeOK /\ IdentityIsRecorded /\ s \in Setups
  BY DEF HInv, LInv, IInv, TypeOK
<1>2. PICK draft \in Computed("decision", s) : now \in Decided(draft, s)
  BY DEF ComputedNow
<1>3. draft \in Job
  BY <1>1, <1>2, ComputedRecords DEF AllKinds
<1>4. CASE s \in SeparateSetups
  <2> DEFINE d == LatestJob("des", p)
             m == LatestJob("mc", p)
             v == LatestJob("validation", p)
  <2>1. /\ draft = PlanJob("decision", p, s, Citing(None, d, m, v, None)) /\ p # None
        /\ d # None /\ m # None /\ v # None /\ EvidenceCurrent(d, s) /\ EvidenceCurrent(v, s)
    BY <1>2, <1>4 DEF Computed, SelectedDecision, SelectedPair
  <2>2. d = PlanSlot("des", s) /\ v = PlanSlot("validation", s)
    BY <2>1 DEF PlanSlot, Slot
  <2> HIDE DEF p, d, m, v
  <2>3. now = [draft EXCEPT !.refs = [draft.refs EXCEPT !.selection = LatestSelection]]
    BY <1>2, <1>3, <1>4 DEF Decided, Job
  <2>4. draft.refs = Citing(None, d, m, v, None)
    BY <2>1 DEF PlanJob
  <2>5. /\ now.refs.selection = LatestSelection /\ now.refs.continuous = None
        /\ now.refs.des = d /\ now.refs.validation = v
    BY <1>3, <2>3, <2>4 DEF Job, Citing
  <2>6. run = None
    <3> SUFFICES ASSUME run # None PROVE FALSE
      OBVIOUS
    <3>1. run \in DOMAIN jobs /\ jobs[run].kind = "full_day" /\ jobs[run].setup = s
      BY <1>1, FullDayRunIsOfOneSave
    <3> HIDE DEF run
    <3>2. RecordsLineage(jobs[run])
      BY <3>1 DEF HInv, LInv, LineageIsRecorded
    <3> QED
      BY <1>4, <3>1, <3>2 DEF RecordsLineage
  <2> QED
    BY <2>2, <2>5, <2>6
<1>5. CASE s \notin SeparateSetups
  <2> DEFINE slots == Citing(LatestSelection, PlanSlot("des", s), PlanSlot("mc", s),
                             PlanSlot("validation", s), None)
  <2>1. draft.refs = slots
    BY <1>2, <1>5 DEF Computed, SharedDecision
  <2>2. now.refs = IF run = None THEN draft.refs
                   ELSE Citing(draft.refs.selection, None, draft.refs.mc, None, run)
    BY <1>2, <1>5 DEF Decided, PlanJob
  <2> QED
    BY <2>1, <2>2 DEF Citing
<1> QED
  BY <1>4, <1>5

\* A run whose inputs are still today's when it commits is what its slot shows from then on.
LEMMA FreshRunIsShown ==
    ASSUME HInv, Postgres \/ Enforced, NEW r \in Requests, Commit(r),
           NEW j, j = request[r].job, j.kind # "selection", StillFresh(j),
           NEW stored, stored = Stamped(j)
    PROVE  (Len(jobs) = ShownAs(j.kind, setup))'
<1>1. TypeOK /\ IInv /\ IdentityIsRecorded /\ LineageIsRecorded /\ StampsInOrder
      /\ clock \in Stamps /\ setup \in Setups /\ Len(jobs) \in Nat
  BY DEF HInv, LInv, IInv, TypeOK
<1>2. /\ j \in Job /\ RecordsIdentity(j) /\ j.created <= clock
      /\ j.kind \in AllKinds \ {"selection"}
  BY <1>1, PhaseHolds DEF IdentityIsRecorded, HoldsIdentity, StampsInOrder, Commit, Job
<1>3. /\ stored \in Job /\ stored.created >= j.created
      /\ stored.kind = j.kind /\ stored.refs = j.refs /\ stored.setup = j.setup
      /\ stored.scenario = j.scenario /\ stored.scenarioGen = j.scenarioGen
      /\ stored.dataset = j.dataset /\ stored.datasetGen = j.datasetGen
  BY <1>1, <1>2 DEF Job, Stamped, Stamps
<1>4. Stores(stored) /\ setup' = setup
  BY <1>3 DEF Stores, Commit
<1>5. PICK now \in ComputedNow(j.kind) : [now EXCEPT !.created = j.created] = j
  BY DEF StillFresh
<1>6. now \in Job /\ now.kind = j.kind /\ now.setup = setup
  BY <1>1, <1>2, ComputedNowIs
<1>7. j.setup = setup /\ j.scenario = now.scenario /\ j.refs = now.refs
      /\ j.scenarioGen = now.scenarioGen /\ j.dataset = now.dataset /\ j.datasetGen = now.datasetGen
  BY <1>5, <1>6 DEF Job
<1>8. DatasetCited(stored) /\ (stored.scenario # None => PlanCited(stored, setup))
  BY <1>2, <1>3, FreshRowsAreCited
<1>9. j.refs \in Refs /\ DOMAIN j.refs = {"selection", "des", "mc", "validation", "continuous"}
  BY <1>2 DEF Job, Refs
<1>10. /\ \A k \in {j.refs.selection, j.refs.des, j.refs.mc, j.refs.validation} \ {None} :
              k \in DOMAIN jobs /\ jobs[k].created <= j.created /\ EvidenceCurrent(k, setup)
       /\ j.refs.continuous # None => jobs[j.refs.continuous].created <= j.created
  BY <1>1, <1>2, <1>9, CitedIsStored DEF StillFresh
<1>11. PICK n : n = Len(jobs) + 1 /\ n # None
  BY <1>1 DEF None
<1>12. /\ n = Len(jobs') /\ jobs'[n] = stored /\ DOMAIN jobs' = DOMAIN jobs \cup {n}
       /\ DOMAIN jobs = 1..Len(jobs) /\ \A i \in DOMAIN jobs : jobs'[i] = jobs[i] /\ i # n
  BY <1>1, <1>4, <1>11, StoredJobs
<1>13. PICK s : s = setup
  OBVIOUS
<1>14. EvidenceCurrent(n, s)'
  <2>1. \A k \in {stored.refs.selection, stored.refs.des, stored.refs.mc, stored.refs.validation} \ {None} :
           k \in DOMAIN jobs /\ jobs[k].created <= stored.created /\ EvidenceCurrent(k, s)
    <3>1. \A k \in DOMAIN jobs : jobs[k].created \in Nat
      <4>1. \A k \in DOMAIN jobs : jobs[k] \in Job
        BY <1>1 DEF TypeOK
      <4> QED
        BY <4>1 DEF Job, Stamps
    <3>2. j.created \in Nat /\ stored.created \in Nat
      BY <1>2, <1>3 DEF Job, Stamps
    <3> QED
      BY <1>3, <1>10, <1>13, <3>1, <3>2
  <2> QED
    BY <1>1, <1>3, <1>4, <1>7, <1>8, <1>11, <1>13, <2>1, NewEvidenceIsCurrent
<1>15. /\ LatestJob(j.kind, j.scenario)' = n
       /\ SelectedPlan(s)' = SelectedPlan(s) /\ LatestSelection' = LatestSelection
  BY <1>1, <1>2, <1>3, <1>4, <1>11, LatestStable, SelectionStable
<1>16. ASSUME j.kind \notin CurrentKinds
       PROVE  j.scenario = SelectedPlan(s) /\ SelectedPlan(s) # None
  BY <1>1, <1>2, <1>7, <1>13, <1>16, ComputedNowIs
<1>17. ASSUME j.kind \in PlanKinds \cup {"decision"}
       PROVE  PlanSlot(j.kind, s)' = n
  <2>1. j.scenario = SelectedPlan(s) /\ SelectedPlan(s) # None
    BY <1>16, <1>17 DEF PlanKinds, CurrentKinds
  <2>2. Slot(j.kind, j.scenario, s)' = n
    BY <1>11, <1>14, <1>15 DEF Slot
  <2> QED
    BY <1>15, <2>1, <2>2 DEF PlanSlot
<1>18. CASE j.kind \in PlanKinds
  <2>1. ShownAs(j.kind, s)' = PlanSlot(j.kind, s)'
    BY <1>18 DEF ShownAs, PlanKinds, CurrentKinds
  <2> QED
    BY <1>4, <1>12, <1>13, <1>17, <1>18, <2>1
<1>19. CASE j.kind \in CurrentKinds
  <2>1. ShownAs(j.kind, s)' = CurrentSlot(j.kind, s)'
    BY <1>19 DEF ShownAs, CurrentKinds, PlanKinds
  <2>2. j.scenario = None
    BY <1>1, <1>2, <1>7, <1>19, ComputedNowIs
  <2>3. CurrentSlot(j.kind, s)' = n
    BY <1>11, <1>14, <1>15, <2>2 DEF CurrentSlot, Slot
  <2> QED
    BY <1>4, <1>12, <1>13, <2>1, <2>3
<1>20. CASE j.kind = "full_day"
  <2> DEFINE p == SelectedPlan(s)
  <2>1. ShownAs(j.kind, s)' = FullDayRun(s)'
    BY <1>20 DEF ShownAs, CurrentKinds, PlanKinds
  <2>2. /\ p # None /\ j.scenario = p /\ j.scenarioGen = scenario[p].gen
        /\ j.dataset = scenario[p].dataset /\ j.datasetGen = dataset[scenario[p].dataset].gen
    BY <1>1, <1>2, <1>7, <1>13, <1>20, ComputedNowIs DEF CurrentKinds
  <2>3. p' = p /\ UNCHANGED <<dataset, scenario>>
    BY <1>4, <1>15 DEF Stores
  <2> HIDE DEF p
  <2>4. n \in EligibleRuns(s)'
    BY <1>3, <1>7, <1>12, <1>13, <1>20, <2>2, <2>3 DEF EligibleRuns, p
  <2>5. EligibleRuns(s)' \subseteq 1..n
    BY <1>1, <1>11, <1>12 DEF EligibleRuns
  <2>6. Max(EligibleRuns(s)') = n
    BY <1>1, <1>11, <2>4, <2>5, MaxIs
  <2>7. FullDayRun(s)' = n
    BY <2>4, <2>6 DEF FullDayRun
  <2> QED
    BY <1>4, <1>12, <1>13, <2>1, <2>7
<1>21. CASE j.kind = "decision"
  <2>1. ShownAs(j.kind, s)' = ServedDecision(s)'
    BY <1>21 DEF ShownAs, CurrentKinds, PlanKinds
  <2>2. PlanSlot("decision", s)' = n
    BY <1>17, <1>21
  <2>3. /\ PlanSlot("mc", s)' = PlanSlot("mc", s) /\ PlanSlot("des", s)' = PlanSlot("des", s)
        /\ PlanSlot("validation", s)' = PlanSlot("validation", s)
        /\ FullDayRun(s)' = FullDayRun(s)
    BY <1>1, <1>3, <1>4, <1>21, SlotStable, RunsStable
  <2>4. /\ stored.refs.selection = LatestSelection
        /\ IF stored.refs.continuous # None
           THEN stored.refs.mc = PlanSlot("mc", s) /\ stored.refs.continuous = FullDayRun(s)
           ELSE /\ stored.refs.des = PlanSlot("des", s)
                /\ stored.refs.validation = PlanSlot("validation", s)
                /\ FullDayRun(s) = None
    BY <1>3, <1>5, <1>7, <1>13, <1>21, DecisionNowCites
  <2>5. stored.refs.continuous # None =>
           jobs'[stored.refs.continuous].created <= stored.created
    <3> SUFFICES ASSUME stored.refs.continuous # None
                 PROVE  jobs'[stored.refs.continuous].created <= stored.created
      OBVIOUS
    <3> DEFINE k == FullDayRun(s)
    <3>1. k = stored.refs.continuous /\ k # None
      BY <2>4
    <3>2. k \in DOMAIN jobs
      BY <1>1, <3>1, FullDayRunIsOfOneSave
    <3> HIDE DEF k
    <3>3. jobs'[k] = jobs[k]
      BY <1>12, <3>2
    <3>4. jobs[k] \in Job
      BY <1>1, <3>2 DEF TypeOK
    <3>5. jobs[k].created \in Nat /\ j.created \in Nat /\ stored.created \in Nat
      BY <1>2, <1>3, <3>4 DEF Job, Stamps
    <3>6. jobs[k].created <= j.created
      BY <1>3, <1>10, <3>1
    <3> QED
      BY <1>3, <3>1, <3>3, <3>5, <3>6
  <2>6. DecisionMatchesSlots(n, s)'
    BY <1>12, <1>15, <2>3, <2>4, <2>5 DEF DecisionMatchesSlots
  <2>7. ServedDecision(s)' = n
    BY <1>11, <2>2, <2>6 DEF ServedDecision
  <2> QED
    BY <1>4, <1>12, <1>13, <2>1, <2>7
<1> QED
  BY <1>2, <1>18, <1>19, <1>20, <1>21 DEF AllKinds, PlanKinds, CurrentKinds

\* Where ids are never handed out twice, or generations are enforced: a run that commits while its inputs
\* are still today's is shown at once, as the current evidence of its kind, whatever ran beside it.
THEOREM FreshRunsAreShown ==
    ASSUME Postgres \/ Enforced
    PROVE  Spec => FreshRunIsServed
<1> DEFINE Shown == \A r \in Requests :
               (Commit(r) /\ request[r].job.kind # "selection" /\ StillFresh(request[r].job))
                   => \E kind \in {request[r].job.kind} : (Len(jobs) = ShownAs(kind, setup))'
<1>1. HInv /\ [Next]_vars => [Shown]_vars
  <2> SUFFICES ASSUME HInv, NEW r \in Requests, Commit(r),
                      request[r].job.kind # "selection", StillFresh(request[r].job)
               PROVE  \E kind \in {request[r].job.kind} : (Len(jobs) = ShownAs(kind, setup))'
    OBVIOUS
  <2>1. PICK j : j = request[r].job
    OBVIOUS
  <2>2. PICK stored : stored = Stamped(j)
    OBVIOUS
  <2>3. (Len(jobs) = ShownAs(j.kind, setup))'
    BY <2>1, <2>2, FreshRunIsShown
  <2> QED
    BY <2>1, <2>3
<1>2. HInv /\ [Next]_vars => HInv'
  BY LineageStep, StampsStep DEF HInv, LInv
<1>3. Spec => [][Next]_vars
  BY PTL DEF Spec
<1> QED
  BY <1>1, <1>3, HistoryInvariant, PTL DEF FreshRunIsServed

===============================================================================
