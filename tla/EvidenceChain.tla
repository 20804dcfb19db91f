----------------------------- MODULE EvidenceChain -----------------------------
(***************************************************************************)
(* The evidence chain of one analysis (backend/api/workflow.py,            *)
(* evidence_status.py, current_dataset.py, scenarios.py, datasets.py).     *)
(*                                                                         *)
(* The server keeps four things: the analysis's Setup, its dataset rows,   *)
(* its saved scenarios, and an append-only list of jobs.  A job is         *)
(* evidence: it records the dataset, scenario and Setup it was computed    *)
(* from and the ids of the jobs it was derived from.  Nothing is deleted   *)
(* when an input changes; what the pages and reports show is decided at    *)
(* read time, by checking every recorded identity against the live rows.   *)
(*                                                                         *)
(* One request is one database session (db/session.py): it reads the       *)
(* analysis first, reads the rest later, computes for seconds, and commits *)
(* one row built from what it read, without reading again.  Between those  *)
(* steps any other request may commit.                                     *)
(***************************************************************************)
EXTENDS Naturals, Sequences, FiniteSetsExt, Functions

CONSTANTS
    Setups,         \* contents a Setup can have; equal contents have equal fingerprints
    SeparateSetups, \* those with queue_structure = "separate_queues"; the others are shared
    InitialSetup,   \* the Setup the analysis was created with
    Requests,       \* requests that can be in flight at once
    Kinds,          \* the job kinds requests ask for in this instance
    Postgres,       \* TRUE: ids come from a sequence, foreign keys hold and created_at is the
                    \* transaction's start.  FALSE (SQLite): an id is one more than the highest
                    \* live id, foreign keys are off and created_at is the insert's second
    Enforced,       \* GENERATION_ENFORCEMENT_ENABLED
    MaxUploads, MaxSaves, MaxJobs, MaxClock   \* bounds on the explored behaviours

AllKinds == {"selection", "des", "mc", "validation", "decision", "full_day",
             "des_current", "mc_current", "validation_current"}

ASSUME SetupAssumption ==
    /\ SeparateSetups \subseteq Setups
    /\ InitialSetup \in Setups

ASSUME KindAssumption == Kinds \subseteq AllKinds

ASSUME FlagAssumption == Postgres \in BOOLEAN /\ Enforced \in BOOLEAN

ASSUME BoundAssumption ==
    /\ MaxUploads \in Nat
    /\ MaxSaves \in Nat
    /\ MaxJobs \in Nat
    /\ MaxClock \in Nat \ {0}

VARIABLES
    setup,      \* AnalysisProject.queue_setup_json
    dataset,    \* live dataset rows, by id
    scenario,   \* live scenario rows, by id
    jobs,       \* every workflow job in commit order; its index is its id
    request,    \* what each request in flight holds in memory
    uploads,    \* datasets inserted so far; the n-th one carries generation token n
    saves,      \* scenarios inserted so far, tokens likewise
    clock       \* the database clock, as coarse as created_at

vars == <<setup, dataset, scenario, jobs, request, uploads, saves, clock>>

None == 0       \* JSON null where an id is expected: every real id is positive
Stamps == 1..MaxClock

---------------------------------------------------------------------------
(* Records *)

DatasetRow == [gen : Nat, created : Stamps, planning : BOOLEAN]

ScenarioRow == [gen : Nat, created : Stamps, dataset : Nat, datasetGen : Nat, setup : Setups]

Refs == [selection : Nat, des : Nat, mc : Nat, validation : Nat, continuous : Nat]

Job == [kind : AllKinds, scenario : Nat, scenarioGen : Nat, dataset : Nat, datasetGen : Nat,
        setup : Setups, refs : Refs, created : Stamps]

Citing(selection, des, mc, validation, continuous) ==
    [selection |-> selection, des |-> des, mc |-> mc, validation |-> validation,
     continuous |-> continuous]

NoRefs == Citing(None, None, None, None, None)

Idle == [phase |-> "idle"]

RequestState ==
    {Idle}
    \cup [phase : {"begun"}, kind : AllKinds, setup : Setups, created : Stamps]
    \cup [phase : {"computed", "rechecked"}, job : Job]
    \cup [phase : {"saving"}, row : ScenarioRow]

TypeOK ==
    /\ setup \in Setups
    /\ DOMAIN dataset \subseteq 1..uploads      \* no id is beyond the number of inserts
    /\ \A d \in DOMAIN dataset : dataset[d] \in DatasetRow
    /\ DOMAIN scenario \subseteq 1..saves
    /\ \A p \in DOMAIN scenario : scenario[p] \in ScenarioRow
    /\ jobs \in Seq(Job)
    /\ request \in [Requests -> RequestState]
    /\ uploads \in Nat
    /\ saves \in Nat
    /\ clock \in Stamps

---------------------------------------------------------------------------
(* What is current *)

SameStructure(s, t) == (s \in SeparateSetups) <=> (t \in SeparateSetups)

\* The one definition of an analysis's current dataset: the latest planning upload.
CurrentDataset ==
    LET planning == {d \in DOMAIN dataset : dataset[d].planning}
    IN  IF planning = {} THEN None ELSE Max(planning)

\* The latest completed job of a kind, for one scenario (None for the Current kinds).
LatestJob(kind, plan) ==
    LET matching == {i \in DOMAIN jobs : jobs[i].kind = kind /\ jobs[i].scenario = plan}
    IN  IF matching = {} THEN None ELSE Max(matching)

LatestSelection ==
    LET matching == {i \in DOMAIN jobs : jobs[i].kind = "selection"}
    IN  IF matching = {} THEN None ELSE Max(matching)

\* A separate plan (schema 2) recorded the Setup's fingerprint; a shared one (schema 1) is bound
\* only to the queue type it was calculated for.
PlanMatchesSetup(p, s) ==
    /\ SameStructure(scenario[p].setup, s)
    /\ s \in SeparateSetups => scenario[p].setup = s

\* A plan that may be selected under Setup s.
PlanEligible(p, s) ==
    /\ p \in DOMAIN scenario
    /\ scenario[p].dataset \in DOMAIN dataset
    /\ scenario[p].dataset = CurrentDataset
    /\ PlanMatchesSetup(p, s)
    /\ Enforced => scenario[p].datasetGen = dataset[scenario[p].dataset].gen

\* Mutant: a selection binds to whatever row now has the plan's id.
SelectedPlanById(s) ==
    LET chosen == jobs[LatestSelection].scenario
    IN  IF LatestSelection # None /\ PlanEligible(chosen, s) THEN chosen ELSE None

\* The plan of the latest selection, while it is eligible.
SelectedPlan(s) ==
    LET chosen == jobs[LatestSelection].scenario
    IN  IF /\ LatestSelection # None
           /\ PlanEligible(chosen, s)
           /\ Enforced => jobs[LatestSelection].scenarioGen = scenario[chosen].gen
        THEN chosen
        ELSE None

---------------------------------------------------------------------------
(* Whether a stored job is current evidence *)

\* The jobs a job names.  The full-day run of a Decision is compared by id, not classified.
Links(i) ==
    LET refs == jobs[i].refs
    IN  {refs.selection, refs.des, refs.mc, refs.validation} \ {None}

\* A job and everything it was derived from.  A Decision cites a validation run that cites a
\* Monte Carlo run that cites a DES run: no chain is longer than that.
Chain(i) ==
    LET cited(S) == UNION {Links(k) : k \in S}
    IN  {i} \cup Links(i) \cup cited(Links(i)) \cup cited(cited(Links(i)))

\* Mutant: a dataset inserted at the job's own time counts as newer.
DatasetCitedStrictly(j) ==
    /\ j.dataset \in DOMAIN dataset
    /\ dataset[j.dataset].created < j.created
    /\ Enforced => dataset[j.dataset].gen = j.datasetGen
    /\ j.dataset = CurrentDataset

DatasetCited(j) ==
    /\ j.dataset \in DOMAIN dataset
    /\ dataset[j.dataset].created <= j.created
    /\ Enforced => dataset[j.dataset].gen = j.datasetGen
    /\ j.dataset = CurrentDataset

\* Mutant: the plan's generation is not compared.
PlanCitedById(j, s) ==
    LET p == scenario[j.scenario] IN
    /\ j.scenario \in DOMAIN scenario
    /\ p.created <= j.created
    /\ p.dataset \in DOMAIN dataset
    /\ dataset[p.dataset].created <= p.created
    /\ Enforced => dataset[p.dataset].gen = p.datasetGen
    /\ p.dataset = CurrentDataset
    /\ PlanMatchesSetup(j.scenario, s)

PlanCited(j, s) ==
    LET p == scenario[j.scenario] IN
    /\ j.scenario \in DOMAIN scenario
    /\ p.created <= j.created
    /\ Enforced => p.gen = j.scenarioGen
    /\ p.dataset \in DOMAIN dataset
    /\ dataset[p.dataset].created <= p.created
    /\ Enforced => dataset[p.dataset].gen = p.datasetGen
    /\ p.dataset = CurrentDataset
    /\ PlanMatchesSetup(j.scenario, s)

JobCurrent(i, s) ==
    LET j == jobs[i] IN
    /\ DatasetCited(j)
    /\ j.setup = s
    /\ j.scenario # None => PlanCited(j, s)
    /\ \A k \in Links(i) : jobs[k].created <= j.created

EvidenceCurrent(i, s) == \A k \in Chain(i) : JobCurrent(k, s)

---------------------------------------------------------------------------
(* What the workflow page, the Decision and the reports are given *)

Slot(kind, plan, s) ==
    LET i == LatestJob(kind, plan)
    IN  IF i # None /\ EvidenceCurrent(i, s) THEN i ELSE None

PlanSlot(kind, s) ==
    IF SelectedPlan(s) = None THEN None ELSE Slot(kind, SelectedPlan(s), s)

CurrentSlot(kind, s) == Slot(kind, None, s)

\* The full-day runs of the selected plan: every recorded identity, generations included whether or
\* not they are enforced, must be today's.
EligibleRuns(s) ==
    {i \in DOMAIN jobs :
        /\ jobs[i].kind = "full_day"
        /\ \E p \in {SelectedPlan(s)} \ {None} :
            /\ jobs[i].scenario = p
            /\ jobs[i].scenarioGen = scenario[p].gen
            /\ jobs[i].dataset = scenario[p].dataset
            /\ jobs[i].datasetGen = dataset[scenario[p].dataset].gen
            /\ jobs[i].setup = s}

FullDayRun(s) == IF EligibleRuns(s) = {} THEN None ELSE Max(EligibleRuns(s))

\* Mutant: the selection a Decision was taken under is not compared.
DecisionMatchesRuns(i, s) ==
    LET cited == jobs[i].refs IN
    IF cited.continuous # None
    THEN /\ cited.mc = PlanSlot("mc", s)
         /\ \E run \in {FullDayRun(s)} : cited.continuous = run /\ jobs[run].created <= jobs[i].created
    ELSE /\ cited.des = PlanSlot("des", s)
         /\ cited.validation = PlanSlot("validation", s)
         /\ FullDayRun(s) = None

\* The Decision cites today's evidence.  A full-day Decision is compared by its selection, Monte
\* Carlo and full-day run; any other by its selection, DES and validation, and it goes stale as
\* soon as a full-day run could decide instead.
DecisionMatchesSlots(i, s) ==
    LET cited == jobs[i].refs IN
    /\ cited.selection = LatestSelection
    /\ IF cited.continuous # None
       THEN /\ cited.mc = PlanSlot("mc", s)
            /\ \E run \in {FullDayRun(s)} : cited.continuous = run /\ jobs[run].created <= jobs[i].created
       ELSE /\ cited.des = PlanSlot("des", s)
            /\ cited.validation = PlanSlot("validation", s)
            /\ FullDayRun(s) = None

ServedDecision(s) ==
    LET i == PlanSlot("decision", s)
    IN  IF i # None /\ DecisionMatchesSlots(i, s) THEN i ELSE None

PlanKinds == {"des", "mc", "validation"}
CurrentKinds == {"des_current", "mc_current", "validation_current"}

\* The job of one kind that a page shows as current evidence.
ShownAs(kind, s) ==
    CASE kind \in PlanKinds -> PlanSlot(kind, s)
      [] kind \in CurrentKinds -> CurrentSlot(kind, s)
      [] kind = "full_day" -> FullDayRun(s)
      [] kind = "decision" -> ServedDecision(s)

Served(s) == {ShownAs(kind, s) : kind \in AllKinds \ {"selection"}} \ {None}

---------------------------------------------------------------------------
(* What one compute request would save, from Setup s and the rows it reads now; the empty set is *)
(* a refusal.                                                                                    *)

CurrentJob(kind, s, mc) ==
    [kind |-> kind, scenario |-> None, scenarioGen |-> None,
     dataset |-> CurrentDataset, datasetGen |-> dataset[CurrentDataset].gen,
     setup |-> s, refs |-> Citing(None, None, mc, None, None), created |-> clock]

PlanJob(kind, p, s, refs) ==
    [kind |-> kind, scenario |-> p, scenarioGen |-> scenario[p].gen,
     dataset |-> scenario[p].dataset, datasetGen |-> dataset[scenario[p].dataset].gen,
     setup |-> s, refs |-> refs, created |-> clock]

\* run_des_current, run_mc_current
CurrentRun(kind, s) == {CurrentJob(kind, s, None) : d \in {CurrentDataset} \ {None}}

\* run_validation_current: the latest Current Monte Carlo run must be of this dataset and Setup.
CurrentValidation(s) ==
    LET m == LatestJob("mc_current", None)
        usable == /\ s \in SeparateSetups
                  /\ CurrentDataset # None
                  /\ m # None
                  /\ jobs[m].dataset = CurrentDataset
                  /\ jobs[m].setup = s
                  /\ Enforced => jobs[m].datasetGen = dataset[CurrentDataset].gen
    IN  {CurrentJob("validation_current", s, c) : c \in IF usable THEN {m} ELSE {}}

\* select_scenario
Selection(s) == {PlanJob("selection", p, s, NoRefs) : p \in {q \in DOMAIN scenario : PlanEligible(q, s)}}

\* run_des, run_mc and run_validation of a shared plan, and create_continuous_run: only the
\* selected plan is read.  run_selected_des of a separate plan reads no more than that either.
PlanRun(kind, s) == {PlanJob(kind, p, s, NoRefs) : p \in {SelectedPlan(s)} \ {None}}

\* run_selected_mc: derived from the latest DES run of the plan, which must be current evidence.
SelectedMonteCarlo(s) ==
    LET p == SelectedPlan(s)
        d == LatestJob("des", p)
        usable == p # None /\ d # None /\ jobs[d].setup = s /\ EvidenceCurrent(d, s)
    IN  {PlanJob("mc", q, s, Citing(None, d, None, None, None)) : q \in IF usable THEN {p} ELSE {}}

\* Mutant: the Monte Carlo run need not be derived from the latest DES run.
SelectedPairUnlinked(p) == LatestJob("des", p) # None /\ LatestJob("mc", p) # None

\* The latest DES and Monte Carlo runs of the plan, when the second was derived from the first.
SelectedPair(p) ==
    LET d == LatestJob("des", p)
        m == LatestJob("mc", p)
    IN  d # None /\ m # None /\ jobs[m].refs.des = d

\* run_selected_validation
SelectedValidation(s) ==
    LET p == SelectedPlan(s)
        d == LatestJob("des", p)
        m == LatestJob("mc", p)
        usable == /\ p # None
                  /\ SelectedPair(p)
                  /\ \A i \in {d, m} : jobs[i].setup = s /\ EvidenceCurrent(i, s)
    IN  {PlanJob("validation", q, s, Citing(None, d, m, None, None)) :
            q \in IF usable THEN {p} ELSE {}}

\* create_selected_decision up to the point where it reads the selection again.
SelectedDecision(s) ==
    LET p == SelectedPlan(s)
        d == LatestJob("des", p)
        m == LatestJob("mc", p)
        v == LatestJob("validation", p)
        usable == /\ p # None
                  /\ SelectedPair(p)
                  /\ v # None
                  /\ jobs[v].refs.des = d /\ jobs[v].refs.mc = m
                  /\ \A i \in {d, m, v} : jobs[i].setup = s /\ EvidenceCurrent(i, s)
    IN  {PlanJob("decision", q, s, Citing(None, d, m, v, None)) :
            q \in IF usable THEN {p} ELSE {}}

\* create_decision's first read: the slots as they are now.  Missing evidence is recorded as null,
\* and the plan is bound only by the second read.
SharedDecision(s) ==
    {[kind |-> "decision", scenario |-> None, scenarioGen |-> None, dataset |-> None,
      datasetGen |-> None, setup |-> s, created |-> clock,
      refs |-> Citing(LatestSelection, PlanSlot("des", s), PlanSlot("mc", s),
                      PlanSlot("validation", s), None)]}

Computed(kind, s) ==
    CASE kind \in {"des_current", "mc_current"} -> CurrentRun(kind, s)
      [] kind = "validation_current" -> CurrentValidation(s)
      [] kind = "selection" -> Selection(s)
      [] kind = "des" -> PlanRun(kind, s)
      [] kind = "mc" -> IF s \in SeparateSetups THEN SelectedMonteCarlo(s) ELSE PlanRun(kind, s)
      [] kind = "validation" -> IF s \in SeparateSetups THEN SelectedValidation(s) ELSE PlanRun(kind, s)
      [] kind = "decision" -> IF s \in SeparateSetups THEN SelectedDecision(s) ELSE SharedDecision(s)
      [] kind = "full_day" -> IF s \in SeparateSetups THEN {} ELSE PlanRun(kind, s)

\* The second read of the Decision endpoints.  The separate one records the selection that is the
\* latest by now; the shared one takes the plan selected by now, and an eligible full-day run of it
\* replaces the DES and validation evidence.
Decided(draft, s) ==
    LET p == SelectedPlan(s)
        run == FullDayRun(s)
        cited == IF run = None
                 THEN draft.refs
                 ELSE Citing(draft.refs.selection, None, draft.refs.mc, None, run)
        finals == IF s \in SeparateSetups
                  THEN {[draft EXCEPT !.refs.selection = LatestSelection]}
                  ELSE {[PlanJob("decision", q, s, cited) EXCEPT !.created = draft.created] :
                            q \in {p} \ {None}}
    IN  {j \in finals : Enforced => jobs[LatestSelection].datasetGen = j.datasetGen}

---------------------------------------------------------------------------
(* The state machine *)

Init ==
    /\ setup = InitialSetup
    /\ dataset = <<>>
    /\ scenario = <<>>
    /\ jobs = <<>>
    /\ request = [r \in Requests |-> Idle]
    /\ uploads = 0
    /\ saves = 0
    /\ clock = 1

\* Mutant: Postgres hands out a freed id.
NewIdReused(rows, inserted) == IF DOMAIN rows = {} THEN 1 ELSE Max(DOMAIN rows) + 1

\* The id an insert gets, and the stamps it can get: a Postgres transaction may have begun earlier.
NewId(rows, inserted) ==
    IF Postgres THEN inserted + 1
    ELSE IF DOMAIN rows = {} THEN 1 ELSE Max(DOMAIN rows) + 1

With(rows, id, row) == [k \in DOMAIN rows \cup {id} |-> IF k = id THEN row ELSE rows[k]]

InsertStamps == IF Postgres THEN 1..clock ELSE {clock}

\* created_at is the start of the transaction on Postgres and the time of the insert on SQLite.
Stamped(row) == IF Postgres THEN row ELSE [row EXCEPT !.created = clock]

Ends(r) == request' = [request EXCEPT ![r] = Idle]

\* A compute request authenticates and reads the analysis: its Setup and, on Postgres, its
\* created_at are fixed from here on.
Begin(r, kind) ==
    /\ request[r] = Idle
    /\ Len(jobs) < MaxJobs
    /\ request' = [request EXCEPT ![r] =
            [phase |-> "begun", kind |-> kind, setup |-> setup, created |-> clock]]
    /\ UNCHANGED <<setup, dataset, scenario, jobs, uploads, saves, clock>>

\* It reads everything else and computes from that, for as long as the simulation takes.
Compute(r) ==
    /\ request[r].phase = "begun"
    /\ \E j \in Computed(request[r].kind, request[r].setup) :
          request' = [request EXCEPT ![r] =
              [phase |-> "computed", job |-> [j EXCEPT !.created = request[r].created]]]
    /\ UNCHANGED <<setup, dataset, scenario, jobs, uploads, saves, clock>>

\* ... or is refused (404, 409 or 422) and stores nothing.
Refuse(r) ==
    /\ \/ /\ request[r].phase = "begun"
          /\ Computed(request[r].kind, request[r].setup) = {}
       \/ /\ request[r].phase = "computed"
          /\ request[r].job.kind = "decision"
          /\ Decided(request[r].job, request[r].job.setup) = {}
    /\ Ends(r)
    /\ UNCHANGED <<setup, dataset, scenario, jobs, uploads, saves, clock>>

\* A Decision reads the selection again before it is saved.
Recheck(r) ==
    /\ request[r].phase = "computed"
    /\ request[r].job.kind = "decision"
    /\ \E j \in Decided(request[r].job, request[r].job.setup) :
          request' = [request EXCEPT ![r] = [phase |-> "rechecked", job |-> j]]
    /\ UNCHANGED <<setup, dataset, scenario, jobs, uploads, saves, clock>>

\* _save_job: one row, built from memory.
Commit(r) ==
    /\ \/ request[r].phase = "rechecked"
       \/ request[r].phase = "computed" /\ request[r].job.kind # "decision"
    /\ Len(jobs) < MaxJobs
    /\ jobs' = Append(jobs, Stamped(request[r].job))
    /\ Ends(r)
    /\ UNCHANGED <<setup, dataset, scenario, uploads, saves, clock>>

\* The result is too large (413), the computation fails, or the worker stops: nothing was written.
Abort(r) ==
    /\ request[r] # Idle
    /\ Ends(r)
    /\ UNCHANGED <<setup, dataset, scenario, jobs, uploads, saves, clock>>

\* create_scenario reads the dataset and the Setup, then reruns the optimizer to verify the plan.
BeginSave(r, d) ==
    /\ request[r] = Idle
    /\ saves < MaxSaves
    /\ request' = [request EXCEPT ![r] =
            [phase |-> "saving",
             row |-> [gen |-> None, created |-> clock, dataset |-> d,
                      datasetGen |-> dataset[d].gen, setup |-> setup]]]
    /\ UNCHANGED <<setup, dataset, scenario, jobs, uploads, saves, clock>>

\* The verified plan is inserted.  Only Postgres insists that its dataset still exists.
CommitSave(r) ==
    /\ request[r].phase = "saving"
    /\ saves < MaxSaves
    /\ Postgres => request[r].row.dataset \in DOMAIN dataset
    /\ LET row == [Stamped(request[r].row) EXCEPT !.gen = saves + 1]
       IN  scenario' = With(scenario, NewId(scenario, saves), row)
    /\ saves' = saves + 1
    /\ Ends(r)
    /\ UNCHANGED <<setup, dataset, jobs, uploads, clock>>

\* patch_analysis and apply_separate_breaks replace the whole Setup.
WriteSetup(s) ==
    /\ setup' = s
    /\ UNCHANGED <<dataset, scenario, jobs, request, uploads, saves, clock>>

\* upload_analysis_dataset, _apply_setup_upload and apply_shared_aggregate: one commit inserts the
\* dataset and, when the upload carries a Setup, replaces the Setup.
Upload(planning, s) ==
    /\ uploads < MaxUploads
    /\ \E t \in InsertStamps :
          dataset' = With(dataset, NewId(dataset, uploads),
                          [gen |-> uploads + 1, created |-> t, planning |-> planning])
    /\ uploads' = uploads + 1
    /\ setup' = s
    /\ UNCHANGED <<scenario, jobs, request, saves, clock>>

\* delete_dataset: the ORM deletes the scenarios calculated on it in the same commit.
DeleteDataset(d) ==
    /\ dataset' = Restrict(dataset, DOMAIN dataset \ {d})
    /\ scenario' = Restrict(scenario, {p \in DOMAIN scenario : scenario[p].dataset # d})
    /\ UNCHANGED <<setup, jobs, request, uploads, saves, clock>>

DeleteScenario(p) ==
    /\ scenario' = Restrict(scenario, DOMAIN scenario \ {p})
    /\ UNCHANGED <<setup, dataset, jobs, request, uploads, saves, clock>>

Tick ==
    /\ clock < MaxClock
    /\ clock' = clock + 1
    /\ UNCHANGED <<setup, dataset, scenario, jobs, request, uploads, saves>>

RequestStep(r) ==
    \/ \E kind \in Kinds : Begin(r, kind)
    \/ Compute(r) \/ Refuse(r) \/ Recheck(r) \/ Commit(r) \/ Abort(r)
    \/ \E d \in DOMAIN dataset : BeginSave(r, d)
    \/ CommitSave(r)

OwnerStep ==
    \/ \E s \in Setups : WriteSetup(s)
    \/ Upload(FALSE, setup)
    \/ \E s \in Setups : Upload(TRUE, s)
    \/ \E d \in DOMAIN dataset : DeleteDataset(d)
    \/ \E p \in DOMAIN scenario : DeleteScenario(p)

Next == (\E r \in Requests : RequestStep(r)) \/ OwnerStep \/ Tick

Spec == Init /\ [][Next]_vars

---------------------------------------------------------------------------
(* Properties *)

\* What a job records, in memory or stored: it cites only jobs that exist, a full-day run cites none,
\* and on Postgres its generations are those of the rows it names, because no id is handed out twice.
RecordsIdentity(j) ==
    /\ {j.refs.selection, j.refs.des, j.refs.mc, j.refs.validation, j.refs.continuous}
          \subseteq 0..Len(jobs)
    /\ j.kind = "full_day" => j.refs = NoRefs
    /\ Postgres => j.datasetGen = j.dataset /\ j.scenarioGen = j.scenario

HoldsIdentity(q) ==
    /\ q.phase \in {"computed", "rechecked"} => RecordsIdentity(q.job)
    /\ q.phase = "saving" /\ Postgres => q.row.datasetGen = q.row.dataset

\* On Postgres an id names one row for ever, in the tables, in stored jobs and in the memory of every
\* request: comparing ids compares generations (db/generation_guards.py, _save_job).
IdentityIsRecorded ==
    /\ Postgres => \A d \in DOMAIN dataset : dataset[d].gen = d
    /\ Postgres => \A p \in DOMAIN scenario :
           scenario[p].gen = p /\ scenario[p].datasetGen = scenario[p].dataset
    /\ \A i \in DOMAIN jobs : RecordsIdentity(jobs[i])
    /\ \A r \in Requests : HoldsIdentity(request[r])

\* What a job is derived from.  Nothing a run is computed from is about another plan than the run, and
\* only validation, Monte Carlo and Decision jobs cite anything.  A shared Decision cites evidence about
\* the plan of the selection it recorded; a separate one cites a validation run of the DES and Monte Carlo
\* runs it cites.  Full-day runs and the Decisions on them are of shared Setups.
RecordsLineage(j) ==
    LET runs == {j.refs.des, j.refs.mc, j.refs.validation} \ {None}
        plan == IF j.setup \in SeparateSetups \/ j.kind # "decision" THEN j.scenario
                ELSE jobs[j.refs.selection].scenario
    IN  /\ runs # {} => j.kind \in {"mc", "validation", "decision", "validation_current"}
        /\ \A k \in runs : jobs[k].scenario = plan /\ jobs[k].kind \notin {"decision", "selection"}
        /\ j.refs.selection # None => j.kind = "decision" /\ jobs[j.refs.selection].kind = "selection"
        /\ j.refs.selection = None /\ j.setup \notin SeparateSetups /\ j.kind = "decision" => runs = {}
        /\ j.kind = "full_day" \/ j.refs.continuous # None => j.setup \notin SeparateSetups
        /\ j.kind = "decision" /\ j.setup \in SeparateSetups =>
              /\ None \notin {j.refs.des, j.refs.mc, j.refs.validation}
              /\ jobs[j.refs.validation].refs.des = j.refs.des
              /\ jobs[j.refs.validation].refs.mc = j.refs.mc
              /\ jobs[j.refs.mc].refs.des = j.refs.des

LineageIsRecorded ==
    /\ \A i \in DOMAIN jobs : RecordsLineage(jobs[i])
    /\ \A r \in Requests :
          request[r].phase \in {"computed", "rechecked"} => RecordsLineage(request[r].job)

\* A plan is stamped no earlier than the upload it was calculated on, while that very upload is live.
StampedAfterItsUpload(row) ==
    /\ row.datasetGen <= uploads
    /\ \A d \in DOMAIN dataset :
          row.dataset = d /\ row.datasetGen = dataset[d].gen => dataset[d].created <= row.created

StampsInOrder ==
    /\ \A d \in DOMAIN dataset : dataset[d].gen <= uploads /\ dataset[d].created <= clock
    /\ \A p \in DOMAIN scenario : StampedAfterItsUpload(scenario[p])
    /\ \A r \in Requests :
          /\ request[r].phase = "begun" => request[r].created <= clock
          /\ request[r].phase \in {"computed", "rechecked"} => request[r].job.created <= clock
          /\ request[r].phase = "saving" => StampedAfterItsUpload(request[r].row)

\* What every job, stored or in memory, says of where and when it comes from is true.
HistoryIsRecorded == IdentityIsRecorded /\ LineageIsRecorded /\ StampsInOrder

\* Everything shown as current evidence, with everything it was derived from, was computed from
\* rows that are still the live ones: this Setup, this upload of the dataset, this save of the
\* plan.  A row stored later under the same id is not the same row (_current_evidence.current).
ServedEvidenceIsLive ==
    \A i \in Served(setup) : \A k \in Chain(i) :
        LET j == jobs[k] IN
        /\ j.setup = setup
        /\ j.dataset \in DOMAIN dataset /\ dataset[j.dataset].gen = j.datasetGen
        /\ j.scenario # None =>
              j.scenario \in DOMAIN scenario /\ scenario[j.scenario].gen = j.scenarioGen

\* The plan a selection yields is the save the owner picked, calculated on the live rows: the
\* current dataset's own upload and, for a separate plan, this Setup (_selected_scenario_and_dataset).
SelectedPlanIsThePick ==
    LET p == SelectedPlan(setup)
        pick == jobs[LatestSelection]
    IN  p # None =>
        /\ pick.scenarioGen = scenario[p].gen
        /\ scenario[p].dataset = CurrentDataset
        /\ scenario[p].datasetGen = dataset[CurrentDataset].gen
        /\ setup \in SeparateSetups => scenario[p].setup = setup

\* What a request would save if it ran from its first read to its last right now.
ComputedNow(kind) ==
    IF kind = "decision"
    THEN UNION {Decided(j, setup) : j \in Computed(kind, setup)}
    ELSE Computed(kind, setup)

\* The job in memory is what the server would compute now, and cites only current evidence no newer
\* than itself.
StillFresh(j) ==
    /\ \E now \in ComputedNow(j.kind) : [now EXCEPT !.created = j.created] = j
    /\ dataset[j.dataset].created <= j.created
    /\ j.scenario # None => scenario[j.scenario].created <= j.created
    /\ \A name \in {n \in DOMAIN j.refs : j.refs[n] # None} :
          /\ jobs[j.refs[name]].created <= j.created
          /\ name # "continuous" => EvidenceCurrent(j.refs[name], setup)

\* A run that commits while its inputs are still today's is shown at once: no check is stricter
\* than what the run itself was allowed to read (_evidence_is_current against _save_job).
FreshRunIsServed ==
    [][\A r \in Requests :
          (Commit(r) /\ request[r].job.kind # "selection" /\ StillFresh(request[r].job))
              => \E kind \in {request[r].job.kind} : (Len(jobs) = ShownAs(kind, setup))']_vars
================================================================================
