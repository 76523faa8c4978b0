SPECIFICATION FairSpec
CONSTANTS
    c1 = c1
    c2 = c2
    d1 = d1
    NoClient = NoClient
    NoDoc = NoDoc
    Client <- MCClient
    Doc <- MCDoc
    Modes = {TRUE, FALSE}
    MaxRuns = 3
    MaxVerifications = 2
    MaxTroubles = 2
    MaxErrors = 1
INVARIANTS
    OneThreadOfAnOutcome
PROPERTIES
    ImplementsLifecycle
    RunsEnd
