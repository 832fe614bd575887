\* A user with one unit, the wired processor and any other, one failed submission, two polls
\* before a request is late, at most two crashes or database errors.
SPECIFICATION Spec
CONSTANTS
    Keys <- MCKeys
    Calls <- MCCalls
    Funds = 1
    Processors = {"fake", "other"}
    MaxFailures = 1
    LatePoll = 2
    MaxMishaps = 2
INVARIANTS TypeOK MoneyFollowsStatus FinalResults
PROPERTIES TransfersAttended
CHECK_DEADLOCK FALSE
