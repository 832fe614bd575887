SPECIFICATION Spec
CONSTANTS
    Orders <- MixedOrders
    MaxRetryCount = 2
    ScanLimit = 1
    Plans <- SweepPlan
INVARIANTS HoldCoversTrades
CHECK_DEADLOCK FALSE
