SPECIFICATION Spec
CONSTANTS
    Process = {p1, p2, p3}
    Spelling <- MCSpelling
    Alias = {"docker.io", "index.docker.io"}
    Hub = "registry-1.docker.io"
    User = {alice, bob}
    Nobody = Nobody
    Unsure = Unsure
    MaxCommands = 4
    MaxKills = 1
SYMMETRY Symmetry
CHECK_DEADLOCK FALSE
INVARIANTS
    ReportedIsKept
    BrokenForAReason
PROPERTY
    LookupsAnswerTruly
