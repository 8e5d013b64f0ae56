SPECIFICATION FairSpec
CONSTANTS
    Ops = {o1, o2}
    Refs = {dev}
    OpKinds <- MCOpKinds
    MaxHostWrites = 2
INVARIANTS
    FlushedMeansRouted
    OwnHeaderOnce
    HostOutputInOrder
    SentinelNotLost
PROPERTIES
    EndsIfWholeLines
