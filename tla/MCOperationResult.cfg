SPECIFICATION Spec
CONSTANTS
    URNs = {u1, u2}
    Program = program
    Requests <- MCRequests
    MaxEvents = 3
    MaxSteps = 1
INVARIANTS
    RefusedMeansUntouched
    FailureReported
    FreshReads
CHECK_DEADLOCK FALSE
