\* Two orders, one engine call at a time, one timeout or failed statement, one restart.
SPECIFICATION Spec
CONSTANTS
    Orders = {o1, o2}
    MaxDispatch = 1
    ScanLimit = 1
    MaxFaults = 1
    MaxRestarts = 1
INVARIANTS TypeOK CommandsTruthful RecoveredCancelsFirst
PROPERTIES CancelsTakeEffect
CHECK_DEADLOCK FALSE
