\* The selected separate plan: selection, DES, Monte Carlo, validation, Decision and one rerun,
\* by two requests, while the owner edits the Setup or deletes rows.
CONSTANTS
    s1 = s1
    s2 = s2
    r1 = r1
    r2 = r2
    Setups = {s1, s2}
    SeparateSetups = {s1, s2}
    InitialSetup = s1
    Requests = {r1, r2}
    Kinds = {"selection", "des", "mc", "validation", "decision"}
    Postgres = TRUE
    Enforced = FALSE
    MaxUploads = 1
    MaxSaves = 1
    MaxJobs = 6
    MaxClock = 1
SYMMETRY RequestSymmetry
SPECIFICATION Spec
INVARIANTS SeparateDecisionChainIsOneLine
