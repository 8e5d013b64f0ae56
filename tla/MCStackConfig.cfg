SPECIFICATION Spec
CONSTANTS
    Handles = {h1, h2, h3}
    ConfigKeys = {key}
    Providers = {"passphrase", "service", "b64", "cloud"}
    Phrases = {p1, p2}
    NoPhrase = NoPhrase
    MaxMade = 2
    Specs <- MCSpecs
    Plain = Plain
    None = None
INVARIANTS
    RightPassphrase
    SecretsReadable
PROPERTIES
    CheckpointKeepsPassphrase
SYMMETRY MCSymmetry
CHECK_DEADLOCK FALSE
