SPECIFICATION FairSpec
CONSTANTS
    None = None
    Orders <- LivenessOrders
    Commands <- NoCommands
    MaxPrice = 2
    OrderCap = 2
    CancelCap = 1
    ExecutionCap = 3
    MaxMatchesPerTurn = 1
    MaxConsecutiveCancels = 1
    Ticking = TRUE
PROPERTIES SweepsFinish StopDrains OrdersAdmitted
