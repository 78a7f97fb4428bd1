SPECIFICATION Spec
CONSTANTS
    k1 = k1
    k2 = k2
    o1 = o1
    t1 = t1
    t2 = t2
    c1 = c1
    Keys <- MCKeys
    OrderIds <- MCOrderIds
    Quantities = {0, 1}
    Prices = {0, 1000, 1001, 1002}
    Statuses = {"open", "OPEN", "PENDING"}
    NoRow = NoRow
    ToleranceInv = 1000
    Timers <- MCTimers
    Callers <- MCCallers
    NoTimer = NoTimer
    MaxStarts = 2
    Environments <- Restarted
INVARIANTS
    StopStopsTimer
