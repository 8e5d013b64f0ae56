SPECIFICATION Spec
CONSTANTS
    Handles = {h1, h2, h3}
    ConfigKeys = {key}
    Providers = {"cloud"}
    Phrases = {p1, p2}
    NoPhrase = NoPhrase
    MaxMade = 2
    Specs <- MCSpecs
    Plain = Plain
    None = None
INVARIANT
    KeepsEncryptionContext
SYMMETRY MCSymmetry
CHECK_DEADLOCK FALSE
