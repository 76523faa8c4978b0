SPECIFICATION Spec
CONSTANTS
    h1 = h1
    h2 = h2
    x1 = x1
    x2 = x2
    a1 = a1
    t1 = t1
    t2 = t2
    u1 = u1
    u2 = u2
    Speccy = Speccy
    NoUser = NoUser
    NoEntry = NoEntry
    MaxNeeded = 2
    User = {u1, u2}
    Handler = {h1, h2}
    WaiverId = {x1, x2, a1}
    Ack = {a1}
    Text = {t1, t2}
    FirstText = t1
    NeededApprovals = 2
    MayFail = TRUE
    MaxVersions = 4
    MaxLocal = 3
    MaxVoted = 1
SYMMETRY MCSymmetry
CHECK_DEADLOCK FALSE
INVARIANTS
    NoLostUpdate
    EntryFitsItsText
    ApprovedWasWritten
    SidecarAgreesInTurn
