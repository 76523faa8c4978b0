SPECIFICATION Spec
CONSTANTS
    h1 = h1
    h2 = h2
    f1 = f1
    f2 = f2
    t1 = t1
    t2 = t2
    NoDoc = NoDoc
    Handler <- MCHandler
    File <- MCFile
    Text <- MCText
    FirstTree <- MCFirstTree
    Depth = 2
    MaxCommits = 3
    MaxVersions = 3
    MaxRequests = 4
    MaxTroubles = 1
INVARIANTS
    PullRequestIsTheDraft
    FollowsGitHub
PROPERTIES
    DraftIsKept
SYMMETRY Symmetry
CHECK_DEADLOCK FALSE
