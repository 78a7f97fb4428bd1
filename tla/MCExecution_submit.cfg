SPECIFICATION FairSpec
CONSTANTS
    entry = entry
    exit = exit
    NoCall = NoCall
    Calls = {c1, c2}
    Orders <- MCOrders
    PriorityOrders = {exit}
    Qty <- MCQty
    MaxRetries = 1
    Adapters = {"paper", "contract"}
    FailCount = 3
    FillNum = 1
    FillDen = 4
INVARIANTS
    NoDoubleFill
    ReportsMatchBook
    NeverOverHedged
    
PROPERTIES
    HaltContained
    SubmitReturns
