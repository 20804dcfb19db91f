\* Two shared plans and two requests: selections and runs commit between the two reads of a
\* Decision, and a full-day run may become the basis.
CONSTANTS
    s1 = s1
    r1 = r1
    r2 = r2
    Setups = {s1}
    SeparateSetups = {}
    InitialSetup = s1
    Requests = {r1, r2}
    Kinds = {"selection", "des", "mc", "decision", "full_day"}
    Postgres = TRUE
    Enforced = FALSE
    MaxUploads = 1
    MaxSaves = 2
    MaxJobs = 4
    MaxClock = 1
SYMMETRY RequestSymmetry
SPECIFICATION Spec
INVARIANTS ServedDecisionIsOfOnePlan HistoryIsRecorded
PROPERTIES FreshRunIsServed
