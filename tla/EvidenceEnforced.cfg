\* Ids are reused (SQLite) and generations are enforced: a dataset or a plan saved under a freed
\* id within the clock's resolution is never taken for the old one.  One Setup, every kind of current run.
CONSTANTS
    s2 = s2
    r1 = r1
    Setups = {s2}
    SeparateSetups = {s2}
    InitialSetup = s2
    Requests = {r1}
    Kinds = {"selection", "des", "mc_current", "validation_current"}
    Postgres = FALSE
    Enforced = TRUE
    MaxUploads = 2
    MaxSaves = 2
    MaxJobs = 3
    MaxClock = 2
SPECIFICATION Spec
INVARIANTS ServedEvidenceIsLive SelectedPlanIsThePick
