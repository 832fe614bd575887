SPECIFICATION FairSpec
CONSTANTS
    None = None
    Events <- CancelEvents
    QueueCap = 2
    MaxBatch = 2
    Concurrency = 1
    RecordMayFail = TRUE
PROPERTIES WaitingDispatched
CHECK_DEADLOCK FALSE
