CONSTANTS
    Employees = {1, 2}
    Registers = {1, 2}
    LastMinute = 6
    Lengths = {2, 5}
    Grid = 1
    MaxShifts = 2
    RestBetween = 1
    Marks = {2, 5}
    BreakLength = 1
    Earliest = 1
    Latest = 4
    Gap = 1
    N = 2
    Works = {2, 4}
    Closing = 5
    Threshold = 3
    Prices <- MCPrices
    Needed <- MCNeeded
SPECIFICATION PlayedSpec
INVARIANTS RulesAreKept PlaybackRebuildsTheDay AccountsAreTrue TheRunComesToItsEnd
PROPERTIES KeepsThePromise
CHECK_DEADLOCK FALSE
