SPECIFICATION StreamSpec
CONSTANTS
    u1 = u1
    u2 = u2
    u3 = u3
    User = {u1, u2, u3}
    Speccy = Speccy
    NoUser = NoUser
    MaxNeeded = 3
SYMMETRY MCSymmetry
CHECK_DEADLOCK FALSE
INVARIANTS
    PolicyMet
PROPERTIES
    FinalStaysFinal
    DecisionIsKept
