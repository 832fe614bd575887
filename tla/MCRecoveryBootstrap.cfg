SPECIFICATION Spec
CONSTANTS
    Orders <- MixedOrders
    MaxRetryCount = 2
    ScanLimit = 1
    Plans <- LimitPlan
INVARIANTS CommittedStaysCommitted
CHECK_DEADLOCK FALSE
