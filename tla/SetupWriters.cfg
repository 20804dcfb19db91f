\* Every writer, on both structures and both databases, two sessions at once; on SQLite
\* a policy change may give the row the stamp of an earlier commit of its second.
CONSTANTS
    r1 = r1
    r2 = r2
    f1 = f1
    f2 = f2
    b1 = b1
    b2 = b2
    NoRequest = NoRequest
    None = None
    TicksPerSecond = 3
    Structures = {"shared", "separate"}
    Facts = {f1, f2}
    Breaks = {b1, b2}
    Kinds = {"patch", "upload", "derive", "aggregate", "supervise", "breaks"}
    Requests = {r1, r2}
    Databases = {"postgres", "sqlite"}
    MaxClock = 3
SYMMETRY ValueSymmetry
SPECIFICATION Spec
INVARIANTS OneApplyPerRevision LockIsHeldAtWork
PROPERTIES ApplyReplacesWhatWasPreviewed RetryIsAnswered CheckedScheduleKeepsTheRest
