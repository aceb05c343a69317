SPECIFICATION FairOutputSpec
CONSTANTS
    Build = {b1, b2}
    Console = Console
    MaxBuilds = 2
    MaxLines = 1
    MaxUnread = 1
CHECK_DEADLOCK FALSE
PROPERTY
    StalledClientsGivenUp
