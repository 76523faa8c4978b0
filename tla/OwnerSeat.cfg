SPECIFICATION Spec
CONSTANTS
    p1 = p1
    p2 = p2
    p3 = p3
    c1 = c1
    c2 = c2
    Nobody = Nobody
    Process <- MCProcess
    Call <- MCCall
    Tries = 3
    MaxCuts = 1
    MaxTroubles = 1
INVARIANTS
    OneOwner
    CalledOnce
    FinishesItsQueue
SYMMETRY Symmetry
CHECK_DEADLOCK FALSE
