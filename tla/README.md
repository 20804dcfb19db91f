# NovaQ Analytics: a TLA+ verification project

NovaQ is a queueing-analytics service: a FastAPI server (`backend/`), a React client (`frontend/`)
and a SQL database (PostgreSQL in the compose files, SQLite by default). An owner describes an
operation (its *Setup*), uploads a day's workload, saves staffing plans the optimizer verified,
simulates them, and takes a *Decision*. This directory models the parts of the server whose
correctness depends on the order of events, checks them with TLC, and proves the most important
properties with TLAPS.

## The system

| Component | State | Operations | Interacts through |
|---|---|---|---|
| Evidence chain: `api/workflow.py`, `api/evidence_status.py`, `api/current_dataset.py` | append-only `jobs`; everything else is derived on read | select a plan; run DES, Monte Carlo, validation, a full-day run; take a Decision; `GET workflow` | reads the Setup, datasets and plans |
| Reports and comparison: `api/reports.py`, `api/plan_reports.py`, `separate_comparison` | none | read a chain of jobs, or refuse | what the pages show as current |
| Saved plans and datasets: `api/scenarios.py`, `api/datasets.py`, `api/analyses.py` | `scenarios`, `datasets`, the analysis row | upload, delete, save a verified plan, rename, delete | jobs name their rows by id (and by generation token) |
| Setup writers: `patch_analysis`, `_apply_setup_upload`, `apply_separate_breaks`, `supervisor_schedule.py`, `shared_aggregate_upload.py` | `queue_setup_json`, `updated_at` | replace the Setup, alone or with a dataset | every fingerprint recorded in plans and jobs |
| Full-day shared run: `api/shared_continuous.py` | `shared_closing_policy`, `workflow_continuous` jobs | set the closing rule, run, play back | may replace DES and validation as a Decision's basis |
| Plans and Decision rules: `services/optimization.py`, `simulation.py`, `workflow.py` | none | optimise periods, simulate and try a plan, judge it | the contents of the jobs |
| Separate-queue planning: `separate_optimization.py`, `break_optimization.py` | the Setup's breaks | search lane counts, place breaks, apply them | reads and rewrites the Setup |
| Separate-queue simulation: `queue_lifecycle.py`, `simulation.py`, `separate_optimization.py` | lanes (active, draining, on break, inactive), customers | segment changes, breaks, arrivals, services | the numbers inside jobs |
| Shared-queue simulation: `shared_continuous_des.py`, `shared_playback.py`, `simulation.py` | counters, breaks, one line, a heap of events | completions, closing, staffing changes, breaks, arrivals | the full-day run; the period run of a plan |
| Named employees: `shared_employee_states.py`, `shared_named_des.py`, `shared_named_playback.py`, `shared_named_attribution.py`, `shared_named_cost.py` | employees, registers, one line | shift and break boundaries, handovers, service | the named-employee plan |
| Named planning: `shared_capacity.py`, `shared_rostering.py`, `shared_workforce.py`, `shared_integrated.py` | none between requests | search for a roster, verify it, compare two plans | reads a plan, writes a job |
| Accounts: `api/auth.py`, `auth_routes.py`, `users.py`, `account.py` | users, identities, challenges, sessions | register, verify, reset, sign in, link, revoke | every request starts with `resolve_session_user` |
| Admission: `rate_limit.py`, `proxy_assertion.py` | in-process windows and nonces | admit or refuse a request | before any handler |
| Generation registry: `db/generation_guards.py` | issued tokens | issue; refuse change or reissue | identity of rows whose id was reused |
| Ingestion, formulas, costs, rendering, client, deployment | none | pure computation, presentation | inputs and outputs of the above |

What is hard in this system, and what makes each part correct:

- **A request is long and takes no lock.** It reads the analysis, then other rows, computes for
  seconds, and commits one row from memory; any other request may commit in between. The Decision
  endpoints read the selection again just before saving, a full report reads in two steps.
  Correct: what is shown is about one save of one plan, one Setup, one upload.
- **Nothing is invalidated when an input changes.** Currency is decided on read by comparing
  recorded identities along a chain of jobs. One missing comparison shows stale results; one too
  many hides fresh results for ever. Correct: what is shown is live, and what is fresh is shown.
- **Identity.** On SQLite ids are reused, foreign keys are off, and `created_at` has one-second
  resolution; on PostgreSQL `created_at` is the transaction's start, not the commit.
- **Several writers of one Setup**, each from its own earlier read; two of them compare and swap,
  one takes a row lock, and uploads are retried when an answer is lost. Correct: a guarded writer
  replaces what was previewed and nothing else, a revision is applied once, a retry is answered.
- **Simultaneous events** in five day engines: a completion, a break, a shift end and closing at one
  instant must be handled in one fixed order. Correct: nobody is lost or served out of order, no
  counter idles beside a line, a lane rests only when it is empty, and the books agree with the day.
- **A second reading** of every simulated day (playbacks, attribution, cost, summaries) rebuilds it
  from a record and refuses one that disagrees; a good record must never be refused.
- **A verdict rests on all of its evidence**: partial periods, workload limits, trials that were
  cut, rates rounded for display, a solver that stops early. Correct: a plan is recommended only on
  complete passing evidence, and the optimum is no dearer than what was compared with it.
- **Requests on one account overlap** on PostgreSQL at READ COMMITTED. Correct: what is single-use is
  used once, budgets hold, a sign-in survives the races of its inserts, nobody waits for ever.

## Modules

| Module | What it is |
|---|---|
| `EvidenceChain` | the evidence chain: rows, jobs, requests in flight, and what is shown |
| `EvidenceReports` | what reports and the comparison page read from the chain, in one step or in two |
| `MCEvidenceChain` | their TLC instances (symmetry of requests) |
| `EvidenceProofs` | types, identity, lineage and every safety property of the chain and the reports |
| `SetupWriters`, `MCSetupWriters`, `SetupWritersProofs` | the analysis row: every request that writes its Setup, the row lock, the compare-and-swaps |
| `ServiceLine` | what a shared line promises its customers: the abstract specification |
| `SharedDay`, `SharedDayProofs` | one simulated day of a shared line with anonymous counters; it implements `ServiceLine` |
| `SharedPlayback`, `MCSharedDay` | the trace, time integrals, summary row and replay of that day |
| `SegmentDay`, `MCSegmentDay`, `SegmentDayProofs` | the period-by-period engine of a shared line |
| `QueueLifecycle`, `SeparateDay`, `SeparateBooks`, `MCSeparateDay`, `SeparateDayProofs` | a lane's life, the three separate-lane engines, and what is counted of them |
| `Workforce` | the rosters `evaluate_roster` accepts |
| `EmployeeTimeline`, `NamedDay`, `NamedDayProofs`, `NamedPlayback`, `NamedAccounts`, `MCNamedDay` | the employees' state machine, the named engine (it implements `ServiceLine` too), its replay, attribution and cost |
| `Capacity`, `Rostering`, `Planning`, `MCPlanning` | the capacity rule, the roster programs and their exact evaluation, the comparison of two optimisers |
| `PlanDecision`, `MCPlanDecision`, `PlanDecisionProofs` | a plan's optimisation, its simulation and trials, and the Decision's verdict |
| `BreakPlacement`, `LaneSearch`, `SeparatePlanning`, `MCSeparatePlanning` | placing breaks, judging lane counts, and the requests that do both on one analysis |
| `Admission`, `Access`, `MCAccess`, `AccessProofs` | the limiter and the nonce memory; one account under overlapping requests behind them |

`EvidenceChain` treats a Setup as one value that anyone may replace in one commit; `SetupWriters`
says how that commit comes about, and looks inside the Setup; `SeparatePlanning` says what the
separate planners compute from it. `EvidenceChain` knows which jobs a Decision rests on;
`PlanDecision` knows what they must say. They share no variables: nothing in the evidence chain
depends on which writer replaced a Setup or on what a result's numbers are. The engines are the
computations inside a job; each is one function call in the code.

### EvidenceChain, EvidenceReports and the code

`setup`, `dataset`, `scenario` and `jobs` are the analysis's Setup, its dataset rows, its scenario
rows and its jobs. Rows carry the generation token `gen` they were inserted with (a token is never
reissued), so a property can tell a row from a later one with the same id even where the code
cannot. `request[r]` is the memory of one database session.

A compute request is four steps, where another request can commit between any two: `Begin`
(authenticate, `own_analysis`: the Setup and, on PostgreSQL, `created_at` are fixed), `Compute`
(every further read and the computation), for a Decision `Recheck` (the second read of the selection
and the full-day run), `Commit` (`_save_job`). `Refuse` is any 404, 409 or 422; `Abort` is a
failed computation, an oversized result or a lost worker. `Computed(kind, s)` says, per endpoint,
what would be saved from Setup `s` and the rows now, the empty set being a refusal; `Decided` is
the second half of the Decision endpoints. `BeginSave` and `CommitSave` are `create_scenario`
around its re-run of the optimizer. `WriteSetup`, `Upload`, `DeleteDataset` and `DeleteScenario`
are one commit each.

What is shown is a function of the state: `JobCurrent` is `_classify` for one job,
`EvidenceCurrent` its recursion over `Chain`, `Slot` one entry of `_current_evidence`,
`DecisionMatchesSlots` the comparison that suppresses a stale Decision, `SelectedPlan`
`_selected_scenario_and_dataset`, and `Served` all of it. The reports of `EvidenceReports` are
functions of the same state; the full report reads a Decision, lets any number of commits pass, and
then reads the evidence, with the Setup it loaded first.

Abstractions: a Setup is one value (equal contents have equal SHA-256 fingerprints) with a
structure, separate or shared; a result's numbers are not modelled, since no comparison reads
them; one owner and one analysis, since every query is scoped to both; the version checks of a
record always pass (one release). The several SELECTs of one phase are one step; the phases the
code separates by a computation, and the Decision's two reads, are separate steps; a second reading
sees fresh rows. Archiving changes nothing here: no compute endpoint reads `archived_at`. A schedule
in the comparison is always complete (`_separate_schedule_problem` is left out), and the numbers and
wording a report prints are not in the model.

### SetupWriters and the code

`row` is the analysis row (`queue_setup_json`, `updated_at`, `archived_at`), `datasets` its planning
files, `preview` the answer of the last preview the owner made, `request[r]` the memory of one
database session, and `lock` the session that holds the row `FOR UPDATE`. `clock` counts commits, is
the value `datetime.now()` gives a commit, and is the id of a dataset inserted by it (only the order
of ids is read).

| Code | Actions |
|---|---|
| `patch_analysis` | `BeginPatch`, `CommitPatch` |
| `upload_analysis_dataset` | `BeginUpload`, `CommitUpload`; with `apply_setup`, `BeginDerive`, `CommitDerive` |
| `apply_shared_aggregate` | `BeginApply`; `LockRow` (`_analysis`); then `AnswerDuplicate`, `RefuseChanged` or `Derive`; `CommitApply` (the UPDATE, the insert, the commit) |
| `apply_supervisor_schedule` | `BeginBreaks`, `Recheck`, `CommitSupervised` |
| `apply_separate_breaks` | `BeginBreaks`, `CommitBreaks` |
| `archive_analysis`, `put_closing_policy`, `create_dataset`, `delete_dataset` | one commit each: they depend on nothing they read |
| both previews | `Preview` |
| `get_db` | `Answer` (closing a session releases its lock), `Abort` |

A Setup is its `queue_structure`, its `facts` (staffing and hours, which a shared upload replaces) and
its `breaks` (which the two break writers replace); the writers of the whole send any Setup. A
revision (`setup_revision`, a digest in the code) is the tuple it digests. A session writes a column
only if it changed what it loaded (`Flushed`): that is SQLAlchemy's unit of work. On PostgreSQL an
UPDATE of the row, and an insert that refers to it, wait for `FOR UPDATE`; a deletion of a dataset
does not. SQLite ignores `FOR UPDATE`. A commit that SQLite refuses because the database is busy is an
`Abort`. The reads of one phase are one step. Missing confirmations and choices, malformed files and
every other refusal that writes nothing are `Abort`. `datetime.now()` is strictly increasing here, so
the microsecond `apply_shared_aggregate` adds to a repeated stamp is never needed; `func.now()` on
SQLite has whole seconds, `TicksPerSecond` commits long (`WholeSecond`), so `PutClosingPolicy` may give
the row a stamp that an earlier commit had. A review-only file changes `updated_at` and
nothing else, since the current dataset is a planning one.

### SharedDay, ServiceLine, SharedPlayback and the code

`SharedDay` is `simulate_prescribed`. `day` holds its arguments, `sim` its local state (`servers`,
`queue` as `line`, `pending`, the customer and break rows, the heap) and `clock` the time of the last
event, the staffing segment and whether the day is closed. Each turn of the event loop is one action,
named for the kind of event (`CompleteService`, `FinishBreak`, `ChangeCapacity`, `BreakIsDue`,
`Arrive`), with the `start_due_breaks` and `assign` that end it (`Settle`). `CloseDay` is everything
from the end of the loop to the first `release_idle`; `CompleteAfterClosing` is a turn of the last
loop. A loop over counters is stated by its outcome (`Turns`): the free counter of rank *i* takes the
*i*-th in line. `on_break` is the `rest` field of a counter.

A segment is named by its start. A customer's service time is chosen with the day, since it starts
once: that covers unit work, recorded durations and any rates. Breaks are listed by due time, which
only fixes their labels; then ties in the heap by sequence number are ties by label. `drains` holds the
counters in state `DRAINING`.

`ServiceLine` says nothing of counters: customers come in order, some first part of the line begins
its service, services end, and at closing everyone in line stays or everyone is sent away. The mapping
reads the customer rows; a step of `SharedDay` that only moves counters or breaks is a stutter.

`SharedPlayback` runs the engine with what it writes down: the trace, the areas under the line, the
busy and the present counters, the longest lines. `EngineRow` is `_summarize`, `Row`
`replication_row`, and `Replayed` is `replay_events`, turn by turn, with the checks that refuse a
trace and `_check_against_engine`. `AtClose` is the engine's snapshot at closing, `SegmentRow` and
`TotalsRow` its rows by segment and their total, `ByPeriod` the staffing period by period. Times are
whole units; segment ids on events, the trace's limit (`max_trace_events`), means and the list of drains
are left out.

### SegmentDay and the code

`simulate_segment` and `_simulate_segments_core`: each period has its own counters and begins with
whoever the last one left waiting, as new customers who wait from 0. Events are taken by time, those
of one instant in the order they were scheduled, as SimPy does: a counter that is left (`EndService`) is
offered to the line only when the event of its release comes up (`OfferCounter`), after whatever else of
the instant was scheduled before it; the offer grants one request (`Granted`), and so does every request
made meanwhile (`Joined`). Warm-up ends, gaps and service times
are chosen freely from small sets; rounding, the Little's-law fallback and the coverage checks outside
the function are left out (`supported` stands for their outcome). Whether the line is carried over is
the caller's choice (`carryover`). A row gets its status from its utilization and its longest line
(`Status`, with `Overload` as the threshold), and `Summary` is `summarize_simulation`: totals over
periods of equal length, so that means are sums. Whoever is in service at a period's end is neither
carried on nor counted as served, as in the code.

### QueueLifecycle, SeparateDay, SeparateBooks and the code

`QueueLifecycle` is `DedicatedQueueLifecycle` as functions on a record. `SeparateDay` drives it from
SimPy processes (`agenda` is SimPy's event queue): the customers' process, the schedule's and the
breaks', in the three engines `run_routing_day_des`, `_run_routing_des` and
`_simulate_parallel_segments_core`, which differ in who routes, in breaks and in horizon. Windows are
contiguous and rates positive; simultaneous events come in SimPy's order. The period engine counts
waits from routing and drops the breaks of lanes that are not active; the parallel engine has no
breaks, and records a busy interval only when a service ends, clipped to the arrival window.
`SeparateBooks` adds what the engines count, the rows they report and what `workflow.py` adds up of
them (`SelectedRun` is the day of a selected plan); a mean is kept as its sum and its count. Traces and confidence intervals are left out.

### Workforce, EmployeeTimeline, NamedDay, NamedPlayback, NamedAccounts and the code

`NamedDay` is `simulate_named_prescribed`: one action per instant, before, at and after closing, each
going through the approved stages (completions, closing, shift ends, break ends, breaks due, shift
starts, register handovers, arrivals, assignment). `EmployeeTimeline` is the employee's part of a
stage; what the code refuses with `EmployeeTimelineError` is a state no employee may reach. `roster`
ranges over every roster that `Workforce` (`evaluate_roster`) accepts. Minutes are whole,
`hold_past_shift_end` is on, availability windows are left out, breaks have one length and window, and
arrivals and service times are chosen with the day. With two employees the P4 order of several waiting
employees, and a break due at the very activation of a shift, do not occur.

`NamedPlayback` reads the record as `shared_named_playback` does and rebuilds customers, employees and
registers; a service's length is checked against the allowed ones. `NamedAccounts` is
`shared_named_attribution` and `shared_named_cost` in whole minutes, with one paid flag for all breaks,
and before them what the engine and `shared_named_replications` sum up of a run: customers, the
staffing series and its windows (`Staffing`, `Windows`), shifts and breaks (`EmployeeValues`). Minutes
stand for the code's steps, which only merges equal ones. Type and structure checks, versions and the
reasons of unfulfilled breaks are left out.

### Capacity, Rostering, Planning and the code

`Capacity` is the M/M/c rule of `shared_capacity.py` and `queue_models.py` with exact Erlang B and
waiting rounded down at `Scale`. `Rostering` has the integer program over shift patterns, which looks
at the day only at the minutes where some pattern changes, and `evaluate_roster`'s exact judgement,
which looks at every minute. `Planning` is `compare_with_sequential`: one action per optimiser call.
The solver is external: status 0 gives a vector of least cost, 1 any vector or none, 2 only when there
is none, 3 and 4 an error. Staffing segments are the demand's periods, breaks are unpaid and of one
length; tolerances, the optimality gap, the dual bound and the "current staffing" rows are left out.

### PlanDecision and the code

From `optimize_segments` to `create_decision` and `create_selected_decision`: `Optimise`, then either the
period track, or the full-day track, or for separate queues lane by lane. The period track simulates
twice: `SimulatePeriods` is `run_des`, whose run is shown and cited (`simulated.cited`), and `Validate`
is `run_validation`, which simulates every period again with its own hours, seed and threshold (`ended`)
before its trials. `DecideByPeriods` asks of the first only that it could simulate every period
(`workflow.py:1914-1920`) and judges the second. `Vary` is the trials of the other tracks.
Simulations and trials end as they end (`Outcomes`); the workload limit, the counting of failures, the
capped display rates and every verdict are the code's. A shared plan's rates are compared as shown,
rounded, a separate plan's as exact counts, as in the code. `Best` is the whole of `optimize_segment`, whose
comparison with the scheduled counters is `Comparable`; `Summary` is `summarize_optimization`, and
`WhyNoSaving` what the Decision says when no saving is shown. A plan with an infeasible period cannot be
selected. Finite waiting rooms, patience, abandonment cost, the Wilson interval (the `adequate` flag),
load replications, duplicate labels and the matching of evidence rows are left out.

### BreakPlacement, LaneSearch, SeparatePlanning and the code

`BreakPlacement` is `place_breaks`, `LaneSearch` is `optimize_separate` for one period, and
`SeparatePlanning` the requests that use them on one analysis: `run_separate_optimize`,
`apply_separate_breaks`, `apply_supervisor_schedule`, and between them the owner's edits and uploads.
A simulated day is a free choice, remembered by its seed: asking again for the same seed gives the same
day. Time is in parts of a slot; a lane's load is λ/μ; at most one lane-period of a day is busy;
passes are limited by `MaxPasses`; dated analyses hold no breaks. The search with fewer lanes than
scheduled is a library call on a plain layout (the API always asks for full coverage). Prices,
percentiles, `near_target` noise, pruning and confidence intervals are left out; preview races are the
matter of `SetupWriters`.

### Admission, Access and the code

`Admission` is the sliding window of `rate_limit.py` and the nonce memory of `proxy_assertion.py`,
beside two histories (every counted request, every admitted assertion) that properties compare them
with. `Access` is one account, its sessions, its emailed links and its Google identity. A request is
`Arrive` (admission), then its handler's steps on a worker, one per database statement; `now` only
moves on by `Tick`. The database is PostgreSQL at READ COMMITTED: an UPDATE takes its rows in the
table's order, waits for a row another transaction holds, tests its WHERE again, and keeps the row to
COMMIT; two handlers that wait for each other are told apart by the database, which cancels one;
`func.now()` is the transaction's start. Sending an email may fail. One client key, one account;
answers are not distinguished; the per-user and admin buckets, `last_seen_at`, profile reads and the
Google nonce are left out.

## Runs

Every bound is a constant of the configuration: in `EvidenceChain` `MaxUploads`, `MaxSaves` and
`MaxJobs` bound the inserts and `MaxClock` the values of `created_at`; in `SetupWriters` `MaxClock`
bounds the commits, `TicksPerSecond` is how many of them share a second, and `Room` keeps one for every session at work, so the bound refuses new requests
and never a commit; in `Access` `MaxRequests` and `MaxNow`; in `SeparatePlanning` `MaxPasses` and
`MaxEdits`; in `SegmentDay` `MaxEvents` is the code's own limit of the record, made small. The day
engines need none: a day is finite.

| Run | Properties | Shows |
|---|---|---|
| `evidence_separate` | `SeparateDecisionChainIsOneLine` | The selected separate plan, from selection to Decision with one rerun, two requests at once: a shown Decision rests on one line of runs, each derived from the next, the final report is built on exactly the runs the pages show, and the comparison page calls valid what may be selected. |
| `evidence_shared` | `ServedDecisionIsOfOnePlan`, `HistoryIsRecorded`, `FreshRunIsServed` | Two shared plans: the selection may change and runs may commit between the two reads of a Decision, a shown Decision is still about one plan, what is recorded names the rows it was computed from, and a run whose inputs did not change is shown; a full report that reads in two steps reports one plan. |
| `evidence_enforced` | `ServedEvidenceIsLive`, `SelectedPlanIsThePick` | With reused ids (SQLite) generation enforcement alone keeps evidence and selections from attaching to a later row that got a freed id in the same second. |
| `setup_writers` | `OneApplyPerRevision`, `LockIsHeldAtWork`, `ApplyReplacesWhatWasPreviewed`, `RetryIsAnswered`, `CheckedScheduleKeepsTheRest` | Every writer of a Setup on both databases, two sessions at once, SQLite's stamps in whole seconds three commits long: the guarded writers replace only what was previewed and a revision is applied once, except behind a stamp that SQLite issued twice; a retry of an applied file is answered, and no answer leaves the row locked. |
| `shared_day` | `NobodyWaitsForAFreeCounter`, `BreaksAreTakenInTurn`, `ShownDayIsTheDay`, `TheDayEnds`, `KeepsThePromise` | Every day of three customers, two breaks and three staffing segments under both closing policies, simultaneous events included: the engine keeps its rules, its closing assertions hold, it ends, it keeps the promise of ServiceLine, the replay of its trace rebuilds it, and its summary accounts for every customer. |
| `separate_day` | `LanesFollowTheSchedule`, `BooksAreTrue`, `DayServesEveryone` | Every day of two lanes, three windows, three customers and a break for each lane in the three separate-queue engines, in SimPy's order of simultaneous events: lanes follow the schedule in force, agree with the server they hold, rest as soon as they are empty, nobody waits outside an open lane, the rows reported of it and the totals the workflow adds up of them are what its customers met (but for one customer of the period engine whom no lane took before the horizon, and whom no row counts), and the day serves everyone it admitted. |
| `named_day` | `RulesAreKept`, `PlaybackRebuildsTheDay`, `AccountsAreTrue`, `TheRunComesToItsEnd`, `KeepsThePromise` | Every legal roster of two employees with split shifts and up to two breaks a shift, some shifts ending after closing, on one or two registers, two customers and both closing policies: no input is ever refused, breaks, shifts and registers keep rules P2 to P7, the playback accepts the record and rebuilds the day from it, attribution, cost and the summary of the run agree with the day minute by minute, the run comes to a clean end and keeps the promise of ServiceLine. |
| `planning` | `VerdictsAreTrue`, `IntegratedIsNoWorse` | The capacity, roster and integrated optimisers on 864 problems of two employees with split shifts, breaks, overtime dearer or cheaper than regular time, and inputs left out: the integer programs agree with the exact evaluation and with a search of all legal rosters, whatever the solver answers within its contract. |
| `access` | `AssertionIsAdmittedOnce`, `LimitsHold`, `OnlyAnOpenLinkIsHonoured`, `GoogleSignInOutlivesARace`, `EveryRequestIsAnswered` | Overlapping requests on one account behind the limiter, or behind the signed ingress: what is single-use is used once, the budgets hold, a sign-in survives the races of its INSERTs, and two requests that lock each other's links are both answered. |
| `separate_planning` | `BreaksSettleWithinTheRules`, `OneDayPerSeed`, `VerdictsAreProved`, `AppliedBreaksLowerThePeak` | Every sequence of requests for a plan of separate queues, with one edit or upload between them, on representative, dated and plain days of two segments and two cashiers with three breaks: breaks are placed to a fixed point inside their windows, all periods of a date read one simulated day, and a verdict rests on a complete search. |
| `segment_day` | `RowsAccountForEveryCustomer`, `LineMovesInOrder` | Two periods of one or two counters with a warm-up, periods without arrivals or without a supported model, and a record that fills up: every row is what its customers did and has the status its load earns, the line left over begins the next period where it is carried, a counter left is offered to the line in the same instant and in order, and the playback shows every customer at a counter of his own. |
| `plan_decision` | `AdviceIsEarned`, `FailuresAreNamed`, `OptimumIsNoDearer` | Two periods, loads for one counter, for two and for more than three, every kind of service time and every way the cited simulation, the validation's own one and the trials may end: a plan is recommended only on complete passing evidence, also one that costs more than today; failures are named, period by period unless a period cannot be simulated; and the optimum is never dearer than what is done today. |

Why the bounds suffice.

- *Evidence.* A stale result needs an old row, a new one and a job between them (two uploads or
  saves, two or three jobs); a mixed Decision needs two plans, two selections and one run of each
  (four jobs); the separate chain needs five jobs, and one rerun makes six; a `created_at` comparison
  needs two instants. Two requests give every pairwise interleaving; the owner's actions need no
  request and interleave freely. `evidence_enforced` is about reused ids and needs one Setup.
- *Setup writers.* A lost update needs a preview or a read, a commit of another writer and the
  commit in question; a retry needs an apply, a writer in between and the retry: three commits, two
  sessions, two values of each part. A second is three commits long: an edit or an apply and then a policy
  change within the second of the row's first stamp give it that stamp back, and a third commit replaces
  the edit unseen, or applies a second file against the first one's revision: the run has both.
- *Shared day.* Three segments for a decrease followed by an increase, two counters and three
  customers for somebody to wait while both serve, two breaks for one to wait behind the other, and
  times so small that events coincide often: services and breaks end before, at and after closing.
- *Separate day.* Two lanes for routing to choose, three windows so that a lane closes and opens
  again while it drains, three customers, a break for each lane; a service of 5 outlasts a window.
- *Segment day.* Two periods for the line to be carried over or not, warm-ups that end inside a period,
  a record limit of 12 that fills up in some plans and not in others, an overload threshold of 2 that a
  carried line reaches. Two services end in one instant while customers wait, which is when a line stands
  beside a free counter until the offers are made.
- *Named day.* Two employees on one or two registers hand over, wait for a register, and end their
  shifts in service; `Lengths` lets a shift end after closing; two staffing segments with different
  needs split the horizon.
- *Planning.* 864 problems; two employees with up to two shifts, demand segments 0, 1 or 2, overtime
  dearer and cheaper, and each input left out in turn.
- *Access.* Two workers and four requests: two overlap, a third uses a link both touched. The four
  mixes keep the kinds of request that meet each other's rows.
- *Separate planning.* Two cashiers with three breaks in six slots, two dates, two replications: two
  passes move breaks, and a date is read by two periods.
- *Plan decision.* Loads of 1, 6 and 12 customers for a service rate of 4: one counter carries the
  first, two the second, and not even three the last. A plan has two counters at least, so one who stands
  alone today may be cheaper and a passing plan costs more. Five trials, shown in halves, so that a capped
  rate and an exact count differ; a plan of five counters may be tried, one of six is refused.

`CHECK_DEADLOCK` stays on for the chain and the writers: a Setup can always be written, and a preview
made, again. It is off where the system really stops: the runs of the engines, the optimisers and the
Decision end, and `Access` and `SeparatePlanning` end at their bounds.

### Fairness

Nothing in `EvidenceChain` is scheduled by the server: a request is one HTTP call, free to fail, and
a Decision is generated again only when the owner asks, so its runs assume none. (Its one property of
the form "this may lead there" is checked as a step property.) A day engine is one function call: weak
fairness of its `Next` (`PlayedSpec`, `BookedSpec`) says that it runs on, and `TheDayEnds` and
`DayServesEveryone` follow. `Access` assumes weak fairness of each worker's handler: a thread that can
go on goes on, and a deadlock is cancelled; requests that nobody sends are not assumed.

### Where the code and a reader's expectation differ

Met while modelling; the models follow the code, and no property claims otherwise.

- After a shared Setup is edited, a plan may still be selected, and a Decision generated again on it is
  stale from birth, because the selection recorded the old Setup (`workflow.py:1274`;
  `tests/test_step5_missing_dependency.py:595-596` pins the behaviour).
- On SQLite without enforcement, two rows saved under one id within the same second cannot be told
  apart, so evidence may attach to the later one. TLC shows that `FreshRunIsServed`,
  `ServedEvidenceIsLive` and `SelectedPlanIsThePick` need `Postgres \/ Enforced`.
- A Decision by periods does not compare the Monte Carlo id: after a Monte Carlo rerun the page shows
  it as current while the final report refuses it. The report chain does not compare the Decision's
  selection. The comparison page compares ids and the Setup, never generations.
- `apply_separate_breaks` writes back the whole Setup it read before its long search: a PATCH in
  between is undone. The supervisor's schedule compares and swaps instead.
- On SQLite a policy change can give the row back the stamp it had before an apply: its compare-and-swap
  (`shared_aggregate_upload.py:229`) then undoes an edit made in between, or a second file is applied
  against the same revision. Stated without `Repeats`, `OneApplyPerRevision` and
  `ApplyReplacesWhatWasPreviewed` are violated in `setup_writers`.
- A Decision by periods may adopt a plan and cite a DES run in which a period is Critical or Unstable:
  only its support and errors are read (`workflow.py:1914-1920`), the status that counts is that of the
  validation's own simulation. Both are shown; nothing in the code says they must agree.
- In a Decision by periods one period that cannot be simulated hides all that fail: the status is
  insufficient evidence and the list of failures is empty. The other tracks put failure first.
- A shared Decision compares the rounded failure rate, the selected separate plan the exact counts.
- A period without arrivals has status "NORMAL" where others have "Normal", and is not counted as such.
- Customers in service when a period of `SegmentDay` ends vanish; in the period engine of separate
  lanes, the customer who still looks for an open lane at the horizon is in no count
  (`separate_optimization.py:544`, and the check at 598 compares the counts among themselves), though the
  docstring at 873-874 says leftovers are counted, never dropped. `BooksAreTrue` says how many the rows
  miss: exactly those, and in the period engine only. A closed lane that drains into a window has busy time in a row that
  `_run_selected_plan_day_des` does not show.

## Theorems

Everything below holds for every value of the constants that satisfies the named assumption on them.

### The evidence chain (`EvidenceProofs`)

- `TypesHold`, `IdentityHolds`: types; on PostgreSQL an id determines a generation in rows, jobs and
  the memory of requests; what a job cites exists.
- `EvidenceIsLive`, `SelectionIsThePick`: under `Postgres \/ Enforced`, nothing shown as current rests
  on a replaced row, and a selection yields the save the owner picked.
- `HistoryHolds`: every job, stored or in memory, records the rows and jobs it was computed from, every
  run it is derived from is about its own plan, a separate Decision rests on one line of runs, and no
  plan is stamped before its upload.
- `DecisionsAreOfOnePlan`, `SeparateChainIsOneLine`: under the same assumption, what a shown Decision
  or a full report read in two steps puts together is about one save of one plan; the separate chain
  is one line, wherever it is shown.
- `FreshRunsAreShown` (an action property): under the same assumption, a run that commits while its
  inputs are still today's is shown at once.

The inductive invariants are layers. `IInv == TypeOK /\ IdentityIsRecorded` is about ids: an insert
takes an unused id, a deletion only removes rows, and what a request remembers was recorded from live
rows. `LInv` adds `LineageIsRecorded`: the jobs a job cites are about its own plan, upload and Setup,
which a commit preserves because jobs are never changed or removed. `HInv` adds `StampsInOrder`: a
plan's `created_at` is not before its upload's, which is why the code's comparison of stamps never
hides a fresh run. What is *shown* needs no induction: it passed `JobCurrent` for every job of its
chain of at most three citations, and the invariants turn the ids compared there into generations.
Without the assumption TLC refutes `FreshRunIsServed`: on SQLite a plan saved on a dataset deleted
meanwhile, whose id goes to a later upload, is stamped before it.

### The Setup writers (`SetupWritersProofs`)

- `TypesHold`, `LockIsNeverLeft`: on any database the row is locked only by a shared apply at work.
- `MemoryHolds`, `ApplyIsPreviewed`, `OneApply`, `CheckedScheduleIsKept`, `RetriesAreAnswered`: for any
  sessions, files and length of a second, without an assumption on the stamps. What SQLite's whole
  seconds can spoil is part of the statements (`Repeats`): on SQLite a stamp that is a whole second may
  have been issued twice, and only behind such a stamp may an apply replace a Setup it did not preview or
  a revision be applied twice, and then the first apply committed within that very second.

The inductive invariant is `SInv == TypeOK /\ Issued /\ MemoryAgreesWithRow /\ AppliedBefore`.
`Issued` bounds every stamp and id by `clock`, so the next commit's are new. `MemoryAgreesWithRow`
ties a session's memory to the row: equal stamps mean equal Setups unless SQLite may repeat the stamp,
which is what makes comparing `updated_at` enough elsewhere. `AppliedBefore` says that the revision a
stored file was applied against is not in force again, unless its stamp may repeat and the file was
applied within its second.

### The shared day (`SharedDayProofs`)

- `TypesAndTimeHold`: types, and no event of the heap is in the past.
- `NobodyEverWaitsForAFreeCounter`, `BreaksGoInTurn`: the two safety properties of the engine.
- `TheEngineKeepsThePromise`: `Spec => KeepsThePromise`; the engine implements `ServiceLine`. Initial
  states map to initial states, an arrival to `Come(1)`, the closing to `Close`, every other event to
  `Serve` (or to no change).

The inductive invariant `IInv` says of the state between two events what the code never writes down:
every event of the heap stands for something under way or to come (`EventsStand`); nobody begins twice
and the line has no doubles (`LineStands`); who is in service has a counter of his own
(`CountersServe`); a counter is on break exactly while its break is under way, and a break that
staffing ended leaves its event behind without a counter (`CountersRest`); breaks have started, are
due, or are still to come, in that order (`Turn`, `Went`, `Accounted`). It is stated of a day, a state
and a time, not of the variables, because one action composes three or four operators: each operator
(`Complete`, `EndBreaks`, `ApplyCapacity`, `StartDueBreaks`, `Assign`, `BreaksCut`, `SentAway`,
`ReleaseIdle`) has a lemma that it keeps these parts, with an opaque relation between the state before
and after (`BreaksEnded`, `Leave`, `Begin`...) for what the refinement needs. The lemma
`TurnsTakeTheFirst` says once what the loops of `start_due_breaks` and `assign` do: the free counters
take the first of the queue, each one of its own.

### Accounts and admission (`AccessProofs`)

- `TypesHold`, `AssertionsAreAdmittedOnce`, `LimitsAreKept`, and the action properties
  `OpenLinksAreHonoured` and `GoogleSignInsOutliveRaces`.

`Inv` has four parts: `HInv` (rows and handlers are well formed, a row is locked by one handler, and a
handler past its lock holds an open link), `MInv` (an assertion that was admitted is in the memory
until it is too old to be admitted again), `WInv` (what the limiter forgot had left the window) and
`LInv` (recent links and the handlers about to create one are together within the hourly limit and the
overlap).

### The separate day (`SeparateDayProofs`)

- `LanesAlwaysFollow`: for any lanes, windows, breaks and customers, in each of the three engines: a lane
  outside a rest is open exactly when the window in force has it, a lane that is due to rest rests as soon
  as it is empty, and nobody is left outside while a lane is open.

The invariant is `Good` of the loop's state at a time. `Basic`: the agenda is in the order of time, and
every occurrence in it belongs to a process, a rest or a customer of this day that it can still happen
to. `LaneOK`: a lane's lifecycle fits the window in force and who holds its server. `RestOK`: a lane that
is to rest is emptying, and either somebody it serves will tell its controller, or that was done just now
and the controller's next step is in the agenda. `StalledOK`: whoever waits outside does so because no
lane is active. `RestOK` is what the code relies on and never states: had a completion come before the
controller waited for it, the lane would never open again.

### Planning separate queues (the second part of `SeparateDayProofs`)

- `DaysShareNoSeed`, `AnswersRestOnCompleteSearches`, `BreaksAlwaysSettle`, and the action property
  `AppliedBreaksHelp`: the four properties of `SeparatePlanning`, for any lanes, breaks, dates, data and
  sequence of requests, edits and uploads.

The assumptions are the three modules' own (together `PlanAssumptions`): finite sets of numbers, segments
of whole slots, no more replications than `DATE_SEED_STRIDE`, `Low` within the target and `High` above it.
TLC evaluates them in the run, so they can be met. The theorems stand beside those of the day because both
machines are one service's; they share no state and no lemma about it.

`DaysInv` ties the caches of a request to what they stand for: a day is stored under its date and
replication and has their seed (`DaysAreSeeded`), reading i of a period is of day i of its date
(`ReadingsAreOfDays`), and nothing is kept between requests. Two seeds agree only for one date and
replication because replications are fewer than the stride (`SeedsDiffer`). `SearchInv` adds that an
answer that says optimal or infeasible was given when no task was open, and is the judgement of these
readings (`AnswerIsJudged`); what a search over finitely many candidates then finds is cheapest because
costs are numbers and a least one exists.

`BreaksInv` follows the breaks through a chain of requests. A pass is a fold over the breaks, each placed
against those before it; that it follows the rules (`PassKeepsRules`) is shown by a least prefix that
would not. Three parts make the invariant inductive. `PlacingImproves`: a placement is still where it
began, or at a schedule that follows the rules and has a lower peak. `BreaksAreTyped`: the anchor of a
break is the start its owner last typed, which is why windows do not creep however often breaks are
applied. `SettledStays`: a further pass from the stored breaks, with the move they settled under, changes
nothing. The last survives the writing because a pass depends on the day only through the schedule it
starts from, the anchors, the shifts and the demand (`PassIsOfSchedule`), and `Draft` keeps all of these.

### The period engine (`SegmentDayProofs`)

- `LineAlwaysMoves`: customers of a period begin in the order they came in; a counter beside which
  somebody stands in line is being offered in that very instant; those in service have a counter each,
  and the record is in the order of time.
- `RowsAlwaysAccount`: the row of every simulated period is what its customers did, the next period
  begins with the line carried to it, and the summary counts every period and everyone served once.

The invariant has one part per place where the order could be lost. `AgendaOK`: the agenda is in the
order of time; grants are due now, in the order of ids, and only for holders of a counter who are not
served yet; there is one `end` for each customer in service. `CountersOK`: no more users than counters,
and no counter twice. `LineOK`: the line is in the order of ids, behind everyone who was called.
`Manned`: while somebody stands in line there is an offer in the agenda for every free counter. A
release leaves a counter and puts its offer there; an offer that comes up grants the head of the line,
so both numbers fall by one, or finds nobody; a newcomer's request grants the head of the line as well,
which lowers the number of free counters alone. Offers are due
now (`AgendaOK`), so none is left when time passes, and then neither is a free counter beside a line.
`PeopleOK`: whoever of this period has not begun was called or stands in the line, and who has begun did
so in order. `RecordOK` bounds the record by the clock of the day, across periods. A customer who was
called and has not begun is neither in the line nor at a counter, only in the agenda: this is why no
smaller part is inductive. `BegunSound` shows that a period begins in such a state whatever line is
carried over.

The second theorem compares totals the monitor adds up between events with sums over the customers'
own times, and needs a second layer, `BooksOK`, on top of the first. For the period under way
(`Booked`), the area under the line is the sum of how much of each customer's wait up to now lies behind
the warm-up (`Span`, `Waited`), the area of busy counters the same of their services (`ServedFor`), and
the latter reaches what the counters could do just when all of them were busy in every hour (`Full`). A
step from one event to the next adds the line's length times the time passed, and `WaitedGrows` and
`ServedGrows` show that the sums grow by just that: nothing is due in between (`Later`), so
everyone in the line waits, everyone in service is served, and nobody else. That is why `TimesOK` ties
the agenda to the customers: an `end` lies where his start and work put it, whoever is past it is out,
and no first arrival shares time 0 with the line carried over. `RowsOK` keeps the same of the rows of
the periods done, whose customers no later step touches. The status needs that a counter idle in one
hour costs at least one hour of the area.

`SumFunction` is a fold, and neither the library nor the provers know its recursion. `SumStep` gives it:
that the recursive function behind the fold exists is shown by a least size of a set for which it would
not. Everything else about sums follows: a sum changes at one point, by a constant on a subset, or not
at all, and the sizes of the fibres of a function add up to that of its domain, which is what the
summary's counts are. The property is stated with `SumFunction` for this reason.


### Plans and Decisions (`PlanDecisionProofs`)

- `AdviceIsAlwaysEarned`, `FailuresAreAlwaysNamed`, `OptimumIsNeverDearer` (and `TypesHold`): the three
  properties of a plan's way to its verdict, for any number of periods, lanes and trials.

The invariant follows a plan: `RowsOK` (the rows are the optimiser's, and a plan that goes on has an
optimum everywhere), `SimulatedOK` (a simulation is of the plan's kind; only today's lanes are tried
without one; the cited run has an error exactly in the periods that are not supported), `EndedOK` (so has
the validation's own simulation, which otherwise ended well or not, whatever the cited one did), `VariedOK` (a rate that is shown lies within half a step of the exact one, `HalfAStep`).
Each way to decide has a lemma that its verdict is right, and `DecidedKeepsInvariant` puts it in place.
`OptimumIsNeverDearer` needs to know that costs are numbers: the recursion of `ErlangB` is a recursive
function, and that it yields a fraction with a positive denominator is shown by a least counterexample,
as is that a plan's totals are numbers. The same argument is open to other recursive functions here, as
long as what is claimed is a property of their values and not a closed form.

### The named day (`NamedDayProofs`)

- `RulesAreAlwaysKept`, `TheNamedDayKeepsThePromise`, `TheRunAlwaysComesToItsEnd`: the rules of breaks
  and shifts, the refinement of `ServiceLine` and the clean end of the run, for any legal roster, with any
  number of shifts and breaks.

Between two instants `IInv` holds, in four parts. `EmployeesOK` is about one employee at a time. `Sound`
says that his history and his state fit: breaks of a shift follow each other (`RestsOK`), shifts do too
(`DutyOK`), a release is one the rules allow (`ReleaseRule`), and the state is what the history makes it
(`StateOK`). `EndFrom`, `BreakFrom`, `DueFrom` and `ActivationFrom` say that what is scheduled for him is
not before a time u. `Fit` puts both together until closing; `Late` does after it, when nobody has a break
left and who was released at most serves his last customer. `ServiceOK` pairs those who serve with those
who are served, `LineOK` accounts for every customer, and `ClockOK` ties the closing to the time.

Why the scheduled times are needed: the rules are about the moment at which something happened, and the
code finds that moment by asking at each instant what is due now. A break starts when it is due, and not
later, only because no instant passed it by, which is what the four bounds say. An instant t begins with all
four above t - 1 and must end with all above t; each of its stages (completion, shift end, break end,
break due, shift start) has a lemma that moves one bound past t and keeps the others, and the order of the
stages is the order in which this is possible. The rules are then read off `Sound`.

The refinement maps an instant that brings k customers to `Come(k)`, the closing to `Close`, and every
other to `Serve` or to no change. It rests on `ServiceOK` (who ends a service was in service) and on a
lemma on the loop of the assignment: it takes the first n of the line, each for an employee of his own.

The end needs one more layer, `CrewOK`: before closing nobody is free since a time to come; after it
whoever is not yet released serves and is of the crew, and while customers stand in the line somebody is
not released. The second is inductive because an employee who becomes free while n wait ranks below n among
the free, so he takes a customer; he is never idle and never released, and so the line empties.

### What TLAPS does not reach

Liveness (`TheDayEnds`, `DayServesEveryone`, `EveryRequestIsAnswered`), `ENABLED`, and what recursive
definitions compute (`Planning` and the named day's accounts fold over data): these stay with TLC. So
does `BooksAreTrue`, whose totals are per lane and per owner; the lemmas on sums of `SegmentDayProofs`
would serve it. `ShownDayIsTheDay` and `PlaybackRebuildsTheDay` compare two replays of a whole day, and
`AccountsAreTrue` sums over minutes and intervals.

## Plan

Done: every module above, and the theorems listed. Next, in this order:

1. `BooksAreTrue` as a theorem.
2. The per-period details of the full-day run (`shared_continuous.py`: reasons, periods, playback), and
   the statistics over repeats.

Not planned: queueing formulas beyond M/M/c, costs and statistics (real-valued, without state);
spreadsheet parsing; rendering; the client; deployment files; the triggers that guard generation
tokens (one SQL statement each, whose effect is that a token is never reissued, as assumed).
