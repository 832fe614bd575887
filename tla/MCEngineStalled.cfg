SPECIFICATION StalledSpec
CONSTANTS
    None = None
    Orders <- MarketOrders
    Commands <- CancelCommands
    MaxPrice = 2
    OrderCap = 1
    CancelCap = 1
    ExecutionCap = 4
    MaxMatchesPerTurn = 1
    MaxConsecutiveCancels = 1
    Ticking = FALSE
PROPERTY CancelsAnswered
