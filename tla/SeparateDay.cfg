\* Every day of two lanes, three windows, three customers and a break for each lane, in three engines.
CONSTANTS
    Lanes = {1, 2}
    N = 3
    Starts = {0, 3, 6}
    DayEnd = 8
    Gaps = {1}
    Works = {1, 5}
    RestStarts = {2, 4}
    Lengths = {2}
    B = 1
    Cutoff = 1
    Overrun = 20
    Engines = {"day", "period", "parallel"}
SPECIFICATION BookedSpec
INVARIANTS LanesFollowTheSchedule BooksAreTrue
PROPERTY DayServesEveryone
CHECK_DEADLOCK FALSE
