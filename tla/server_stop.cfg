SPECIFICATION FairSpec
CONSTANTS
    Client = {c1, c2}
    Worker = {w1}
    NoClient = NoClient
    MaxSignals = 2
CHECK_DEADLOCK FALSE
PROPERTIES
    EveryoneServed
    StopReturns
