SPECIFICATION FairSpec
CONSTANTS
    Forwarders = {fwd}
    HostDiags = {diag}
    Banners = {}
    Tracers = {trace}
    Main = main
    MaxEvents <- MCMaxEvents
INVARIANTS
    TypeOK
    SequenceAccountedFor
    JoinedBeforeTerminator
    ResultMatchesStream
    PumpWoken
PROPERTIES
    ImplementsFeed
    WaitReturns
    ReaderReachesEnd
CHECK_DEADLOCK FALSE
