SPECIFICATION Spec
CONSTANTS
    None = None
    Orders <- CancelOrders
    Commands <- RepeatedCancels
    MaxPrice = 2
    OrderCap = 2
    CancelCap = 1
    ExecutionCap = 3
    MaxMatchesPerTurn = 1
    MaxConsecutiveCancels = 1
    Ticking = TRUE
INVARIANTS TypeOK TerminalIsFinal OrdersAccountedFor NoOvertaking CancelAnswersTrue OneProgressPerTurn SnapshotIsFresh DrainedAtExit
