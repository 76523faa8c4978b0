SPECIFICATION Spec
CONSTANTS
    c1 = c1
    c2 = c2
    Worker = Worker
    NoOne = NoOne
    Client <- TwoClients
    MaxEdits = 3
    MaxSettings = 1
    MaxReviews = 2
SYMMETRY Symmetry
INVARIANTS
    ShownIsCurrent
    ReviewReachesVerdict
    EveryVersionLinted
