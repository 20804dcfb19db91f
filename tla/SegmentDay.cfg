\* Every plan of two periods of five hours, one or two counters, warm-ups of up to half a period.
CONSTANTS
    K = 2
    Hours = 5
    Servers = {1, 2}
    Warmups = {0, 2}
    Gaps = {1, 2}
    Works = {1, 3}
    MaxEvents = 12
    Overload = 2
SPECIFICATION Spec
INVARIANTS RowsAccountForEveryCustomer LineMovesInOrder
CHECK_DEADLOCK FALSE
