CONSTANTS
    Employees = {1, 2}
    Registers = {1, 2}
    LastMinute = 6
    Lengths = {2, 4}
    Grid = 1
    MaxShifts = 2
    RestBetween = 1
    Marks = {4}
    BreakLength = 1
    Earliest = 1
    Latest = 2
    Gap = 1
    ServiceRate = 2
    TargetPercent = 80
    MaxWait = 10
    MinServers = 0
    ServerLimits = {1, 2}
    ServerCost = 4
    Scale = 6
    BreakGrid = 2
    Opening = 1
    Closing = 6
    Segments = {1, 3, 4}
    Demands = {0, 1, 2}
    WaitRate = 1
    Opens = {1, 2}
    Rates = {1, 3}
    Threshold = 3
    SmallLimit = 12
    LargeLimit = 100
SPECIFICATION Spec
INVARIANTS VerdictsAreTrue IntegratedIsNoWorse
CHECK_DEADLOCK FALSE
