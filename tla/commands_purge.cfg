SPECIFICATION Spec
CONSTANTS
    Command = {c1, c2}
    Work <- MCWork
    Tag = {"app", "base"}
    Base = "base"
    MaxDeaths = 1
SYMMETRY Symmetry
CHECK_DEADLOCK FALSE
INVARIANT
    PurgesAreConfirmed
