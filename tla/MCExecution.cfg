SPECIFICATION FairExecSpec
CONSTANTS
    nodejs = nodejs
    CancelCallers = {c1}
    Ctx = ctx
    Steps = {s1}
    Runs = {own}
    OwnRun = own
    Closers = {mine}
    OwnCloser = mine
    Callers = {a}
    Runtimes = {nodejs}
    RuntimeOf <- MCRuntimeOf
    HostClosers = {engine, operation}
    OwnHostCloser = operation
    None = None
INVARIANTS
    WaitLeavesNothing
    OwnCloseWoken
    TerminateTakesTwo
    CheckpointNotBehind
PROPERTIES
    CancelEnds
    ScopeGoroutineEnds
CHECK_DEADLOCK FALSE
