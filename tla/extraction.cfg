SPECIFICATION Spec
CONSTANTS
    Build = {b1, b2}
    Layer = {"bottom", "edit", "restore"}
    Base <- MCBase
    Path = {"f", "g"}
    Files <- MCFiles
    Gone <- MCGone
    Nothing = "nothing"
    Unknown = "unknown"
    MaxCrashes = 1
SYMMETRY Symmetry
CHECK_DEADLOCK FALSE
INVARIANTS
    ExtractedAlone
    NoLeftovers
