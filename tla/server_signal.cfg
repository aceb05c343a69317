SPECIFICATION FairSpec
CONSTANTS
    Client = {c1, c2}
    Worker = {w1}
    NoClient = NoClient
    MaxSignals = 1
CHECK_DEADLOCK FALSE
PROPERTY
    SignalHeeded
