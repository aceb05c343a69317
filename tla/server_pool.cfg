SPECIFICATION Spec
CONSTANTS
    Client = {c1, c2, c3}
    Worker = {w1, w2}
    NoClient = NoClient
    MaxSignals = 2
SYMMETRY Symmetry
CHECK_DEADLOCK FALSE
INVARIANTS
    OneHolder
    SlotsAccounted
    NobodyTurnedAway
    ExitedClean
