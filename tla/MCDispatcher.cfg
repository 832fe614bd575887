SPECIFICATION FairSpec
CONSTANTS
    None = None
    Events <- SweepEvents
    QueueCap = 2
    MaxBatch = 2
    Concurrency = 2
    RecordMayFail = TRUE
INVARIANTS TypeOK TerminalAfterTrades HandledAtExit
PROPERTIES ImplementsContract DrainCompletes
CHECK_DEADLOCK FALSE
