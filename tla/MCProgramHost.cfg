SPECIFICATION Spec
CONSTANTS
    a = a
    b = b
    c = c
    nodejs = nodejs
    python = python
    Runs = {own, r2, r3}
    OwnRun = own
    Closers = {mine, other}
    OwnCloser = mine
    Callers = {a, b, c}
    Runtimes = {nodejs, python}
    RuntimeOf <- MCRuntimeOf
    HostClosers = {engine, operation}
    None = None
INVARIANTS
    ClosedMeansIdle
    NothingLeftRunning
    OneHostPerRuntime
PROPERTIES
    ClosesReturn
CHECK_DEADLOCK FALSE
