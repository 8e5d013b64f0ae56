SPECIFICATION FairSpec
CONSTANTS
    h1 = h1
    h2 = h2
    up1 = up1
    up2 = up2
    pre = pre
    up3 = up3
    imp = imp
    rem = rem
    Handles = {h1, h2}
    Cancellers = {h1}
    Updates = {up1, up2}
    Previews = {pre}
    Admins = {imp, rem}
    On <- MCOn
    None = none
INVARIANTS
    ExclusiveUnlessShared
    NothingLeftLocked
    CancelReachesActive
PROPERTIES
    OperationsEnd
CHECK_DEADLOCK FALSE
