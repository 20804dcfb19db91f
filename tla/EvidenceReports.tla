---------------------------- MODULE EvidenceReports ----------------------------
(***************************************************************************)
(* What the report and comparison endpoints read from the evidence chain   *)
(* (backend/api/reports.py, plan_reports.py and separate_comparison of     *)
(* workflow.py).  They store nothing: each is a reading of the jobs and    *)
(* rows of one analysis, or a refusal.                                     *)
(***************************************************************************)
EXTENDS EvidenceChain

ChainKinds == {"des", "mc", "validation", "decision"}

\* The final report of the selected separate plan: its latest runs, each derived from the one before,
\* under today's Setup and all current evidence.  The empty set is a refusal (404, 409 or 422).
ReportChain(s) ==
    LET p == SelectedPlan(s)
        c == [kind \in ChainKinds |-> LatestJob(kind, p)]
        judged == jobs[c.validation].refs
        cited == jobs[c.decision].refs
        usable == /\ s \in SeparateSetups
                  /\ p # None
                  /\ \A kind \in ChainKinds : c[kind] # None
                  /\ SelectedPair(p)
                  /\ judged.des = c.des /\ judged.mc = c.mc
                  /\ cited.des = c.des /\ cited.mc = c.mc /\ cited.validation = c.validation
                  /\ \A kind \in ChainKinds : jobs[c[kind]].setup = s /\ EvidenceCurrent(c[kind], s)
    IN  IF usable THEN {c} ELSE {}

\* The report names its plan, its upload and its runs, and lists every separate plan of the analysis
\* beside it, current or not.
SelectedReport(s) ==
    {[plan |-> SelectedPlan(s), dataset |-> scenario[SelectedPlan(s)].dataset, runs |-> c,
      siblings |-> {p \in DOMAIN scenario : scenario[p].setup \in SeparateSetups}] : c \in ReportChain(s)}

\* The plan report needs no simulation: the plan, the upload it was calculated on and the Setup.
PlanReport(s) ==
    LET p == SelectedPlan(s)
    IN  {[plan |-> q, planGen |-> scenario[q].gen, dataset |-> scenario[q].dataset,
          datasetGen |-> dataset[scenario[q].dataset].gen, setup |-> s] : q \in {p} \ {None}}

\* The Decision a report on one plan may quote.
DecisionForReport(plan, s) ==
    IF plan # None /\ plan = SelectedPlan(s) THEN ServedDecision(s) ELSE None

\* scenario_report: a saved plan whose upload is still there, with the Decision only when the plan is
\* the selected one.
ScenarioReport(plan, s) ==
    {[plan |-> p, decision |-> DecisionForReport(p, s)] :
        p \in {q \in DOMAIN scenario : q = plan /\ scenario[q].dataset \in DOMAIN dataset}}

\* What the second half of the full report of a shared plan adds: the evidence that stands by then.
\* A Decision on the full day is reported with its own run or not at all.
FullSections(d, s) ==
    LET run == FullDayRun(s)
        cited == jobs[d].refs.continuous
    IN  {[decision |-> d, mc |-> PlanSlot("mc", s), des |-> PlanSlot("des", s),
          validation |-> PlanSlot("validation", s), run |-> cited] :
            e \in {cited} \cap {None, run}}

\* The Decision's stored result: what the second read compares.
SameResult(i, k) == [jobs[i] EXCEPT !.created = jobs[k].created] = jobs[k]

\* The Setup is the one the request loaded first; the plan and a first reading of the Decision are
\* fixed before the evidence is read again, and another Decision by then is a refusal.
FullReport(s, first, second) ==
    IF first # None /\ second # None /\ SameResult(first, second) THEN FullSections(second, s) ELSE {}

\* The comparison page: every saved plan with its verdict, and the plan of the latest selection.
\* A verdict compares the dataset's id and the Setup; nothing here compares generations.
Comparison(s) ==
    [plans |-> [p \in DOMAIN scenario |->
        IF scenario[p].setup \notin SeparateSetups THEN "not separate"
        ELSE IF scenario[p].dataset # CurrentDataset THEN "stale for the current dataset"
        ELSE IF ~PlanMatchesSetup(p, s) THEN "setup changed" ELSE "valid"],
     selected |-> IF LatestSelection = None THEN None ELSE jobs[LatestSelection].scenario]

ComparisonShown(s) == s \in SeparateSetups /\ CurrentDataset # None
---------------------------------------------------------------------------
(* Properties *)

\* The chain of a separate plan is one line, wherever it is shown.  The validation run a shown Decision
\* cites judged the very DES and Monte Carlo runs it cites, and that Monte Carlo run used that DES
\* run's loads.  The final report is built on the runs the pages show as current, and on the Decision
\* they show unless the plan was selected again since; a plan the comparison page calls valid and
\* selected is the plan all of them are about (create_selected_decision, _selected_report_chain,
\* separate_comparison).
SeparateDecisionChainIsOneLine ==
    LET d == ServedDecision(setup)
        cited == jobs[d].refs
        shown == Comparison(setup)
    IN  /\ d # None /\ setup \in SeparateSetups =>
              /\ {cited.des, cited.mc, cited.validation} \subseteq DOMAIN jobs
              /\ jobs[cited.validation].refs.des = cited.des
              /\ jobs[cited.validation].refs.mc = cited.mc
              /\ jobs[cited.mc].refs.des = cited.des
        /\ \A r \in SelectedReport(setup) :
              /\ r.plan \in r.siblings /\ shown.selected = r.plan
              /\ \A kind \in PlanKinds : r.runs[kind] = PlanSlot(kind, setup)
              /\ \A kind \in ChainKinds : jobs[r.runs[kind]].scenarioGen = scenario[r.plan].gen
              /\ jobs[r.runs.decision].refs.selection = LatestSelection => d = r.runs.decision
        /\ ComparisonShown(setup) /\ ~Enforced =>
              \A p \in DOMAIN scenario :
                  (shown.plans[p] = "valid" /\ shown.selected = p) <=> (SelectedPlan(setup) = p)

\* A Decision that is shown was taken for the selected plan, and everything in its chain, with the
\* full-day run it cites, is evidence about that one save of the plan under one Setup and one
\* upload, whatever else committed between its reads (create_decision, create_selected_decision).
ServedDecisionRestsOnOnePlan ==
    LET d == ServedDecision(setup)
        cited == Chain(d) \cup ({jobs[d].refs.continuous} \ {None})
    IN  d # None => \A k \in cited :
        /\ jobs[k].scenario = SelectedPlan(setup)
        /\ jobs[k].scenarioGen = jobs[d].scenarioGen
        /\ jobs[k].datasetGen = jobs[d].datasetGen
        /\ jobs[k].setup = jobs[d].setup
        /\ \A p \in DOMAIN scenario : \A r \in ScenarioReport(p, setup) :
              r.decision # None => r.decision = d /\ scenario[p].gen = jobs[d].scenarioGen

\* A full report reads a Decision, any number of other requests commit, and then it reads the evidence.
\* Whichever stored Decision it read first, under the Setup it loaded first, what it puts beside it is
\* that Decision's own evidence, and the plan that is selected by then is that Decision's plan
\* (_full_model).
FullReportIsOfOnePlan ==
    \A s \in Setups : \A first \in {i \in DOMAIN jobs : jobs[i].kind = "decision"} :
        \A r \in FullReport(s, first, ServedDecision(s)) : \A plan \in PlanReport(s) :
            /\ jobs[first].scenario = plan.plan /\ jobs[first].scenarioGen = plan.planGen
            /\ jobs[first].datasetGen = plan.datasetGen
            /\ IF r.run # None
               THEN r.mc = jobs[first].refs.mc /\ r.run = jobs[first].refs.continuous
               ELSE r.des = jobs[first].refs.des /\ r.validation = jobs[first].refs.validation

\* One plan, one save of it, in every Decision shown and in every full report, however the commits of
\* other requests fall between the reads.
ServedDecisionIsOfOnePlan == ServedDecisionRestsOnOnePlan /\ FullReportIsOfOnePlan
================================================================================
