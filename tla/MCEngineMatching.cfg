SPECIFICATION Spec
CONSTANTS
    None = None
    Orders <- MatchingOrders
    Commands <- NoCommands
    MaxPrice = 2
    OrderCap = 1
    CancelCap = 1
    ExecutionCap = 3
    MaxMatchesPerTurn = 1
    MaxConsecutiveCancels = 1
    Ticking = FALSE
INVARIANTS NoPanic QuantitiesConserved NoCrossedBook TradesRespectLimits
PROPERTY PriceTimePriority
