\* Two periods; a load that one counter carries, one that takes two and one that three do not carry; a plan has two counters at
\* least, so that one who stands alone today may be cheaper; two lanes.  Five trials, rates shown in halves, so that three
\* failures are shown as the cap of one half; a plan of five counters may be tried, one of six is refused.
CONSTANTS
    ServiceRate = 4
    TargetPercent = 80
    MaxWait = 200
    MinServers = 2
    ServerLimits = {3}
    ServerCost = 2
    Scale = 60
    Periods = {1, 2}
    Demands = {1, 6, 12}
    Staffs = {1, 3}
    Limit = 3
    WaitRate = 3
    Lanes = {"q1", "q2"}
    Trials = 5
    MaxWorkload = 26
    Unit = 2
    Cap = 1
    Outcomes <- MCOutcomes
SPECIFICATION Spec
INVARIANTS AdviceIsEarned FailuresAreNamed OptimumIsNoDearer
CHECK_DEADLOCK FALSE
