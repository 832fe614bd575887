\* Four requests for a balance that does not cover all of them, batches of two.
SPECIFICATION Spec
CONSTANTS
    Calls <- MCCalls
    Funds = 2
    Policies <- MCPolicies
    InputCap = 2
    BatchSize = 2
    MaxMishaps = 2
INVARIANTS TypeOK HeldOnce
PROPERTIES AnswersTrue CallsAnswered
CHECK_DEADLOCK FALSE
