SPECIFICATION FairSpec
CONSTANTS
    Orders <- MixedOrders
    MaxRetryCount = 2
    ScanLimit = 1
    Plans <- AllPlans
INVARIANTS TypeOK SettledExactlyOnce NothingLost HoldCoversTradesOfClean CommittedStaysCommittedOfClean
PROPERTIES EventsTakeEffect
CHECK_DEADLOCK FALSE
