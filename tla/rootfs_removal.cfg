SPECIFICATION Spec
CONSTANTS
    Path <- MCPath
    Above <- MCAbove
    Touched <- MCTouched
    Conf = "conf"
    Backup = "backup"
    Data = {1, 2}
    HostData = 2
    MaxRuns = 2
CHECK_DEADLOCK FALSE
INVARIANT
    RemovedIsGone
