SPECIFICATION Spec
CONSTANTS
    a = a
    b = b
    plain = plain
    u1 = u1
    u2 = u2
    ta = ta
    tb = tb
    Clients = {a, b, plain}
    URLs = {u1, u2}
    Tokens = {ta, tb}
    URLOf <- MCURLOf
    TokenOf <- MCTokenOf
    NoToken = NoToken
    Missing = Missing
    Empty = Empty
    None = None
INVARIANTS
    OwnToken
    FileRestored
PROPERTIES
    OpenEnds
