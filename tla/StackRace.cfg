SPECIFICATION Spec
CONSTANTS
    h1 = h1
    h2 = h2
    up1 = up1
    up2 = up2
    pre = pre
    up3 = up3
    imp = imp
    rem = rem
    Handles = {h1, h2}
    Cancellers = {}
    Updates = {up1, up3}
    Previews = {}
    Admins = {imp}
    On <- MCOn
    None = none
INVARIANT
    UpdatesExclude
CHECK_DEADLOCK FALSE
