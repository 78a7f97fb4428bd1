SPECIFICATION Spec
CONSTANTS
    entry = entry
    exit = exit
    NoCall = NoCall
    Calls = {c1}
    Orders <- MCOrders
    PriorityOrders = {exit}
    Qty <- MCQty
    MaxRetries = 1
    Adapters = {"contract"}
    FailCount = 3
    FillNum = 1
    FillDen = 4
INVARIANTS
    DeadLetteredIsDead
