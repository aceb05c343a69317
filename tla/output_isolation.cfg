SPECIFICATION OutputSpec
CONSTANTS
    Build = {b1, b2}
    Console = Console
    MaxBuilds = 2
    MaxLines = 1
    MaxUnread = 1
SYMMETRY Symmetry
CHECK_DEADLOCK FALSE
INVARIANT
    OutputIsolated
