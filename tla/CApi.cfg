SPECIFICATION Spec
CONSTANTS
    Ops = {o1}
    Inline = {o1}
    Callers = {call}
    Releasers = {r1, r2}
    MaxEvents = 2
    MaxCancels = 2
INVARIANTS
    WaitFindsOperation
    ServerServesOperation
    IterationComplete
PROPERTIES
    CallsReturn
CHECK_DEADLOCK FALSE
