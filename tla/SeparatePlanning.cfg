CONSTANTS
    Cashiers = {1, 2}
    Segments = {0, 6}
    SegmentLength = 6
    SlotLength = 2
    Edge = 2
    Scale = 12
    Replications = 2
    Low = 0
    High = 2
    Target = 1
    ServerCost = 3
    WaitCost = 2
    Layouts = {"representative", "dated", "plain"}
    Dates = {1, 2}
    Staffings = {{0, 6}, {6}}
    Long = 3
    Short = 1
    FirstStarts = {3, 6, 8}
    Typed = {4}
    Loads = {1, 2}
    Evidences = {"samples", "variance", "rates", "malformed"}
    Moves = {2, 4}
    MaxPasses = 2
    BaseSeed = 42
    Stride = 1000003
    TargetRho = 24
    MaxBusy = 1
    MaxEdits = 1
SPECIFICATION PlanningSpec
INVARIANTS BreaksSettleWithinTheRules OneDayPerSeed VerdictsAreProved
PROPERTY AppliedBreaksLowerThePeak
CHECK_DEADLOCK FALSE
