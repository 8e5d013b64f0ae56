SPECIFICATION FairSpec
CONSTANTS
    Ops = {o1}
    Refs = {dev}
    OpKinds <- MCOpKinds
    MaxHostWrites = 1
PROPERTIES
    AllEnd
