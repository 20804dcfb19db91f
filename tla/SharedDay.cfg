\* Every day of three customers, two breaks and three staffing segments, under both policies.
CONSTANTS
    N = 3
    B = 2
    Closing = 3
    SegmentStarts = {0, 1, 2}
    Staff = {0, 1, 2}
    Works = {1, 3}
    Lengths = {2}
    Policies = {"DRAIN", "HARD_CUTOFF"}
SPECIFICATION PlayedSpec
INVARIANTS NobodyWaitsForAFreeCounter BreaksAreTakenInTurn ShownDayIsTheDay
PROPERTIES TheDayEnds KeepsThePromise
CHECK_DEADLOCK FALSE
