SPECIFICATION Spec
CONSTANTS
    c1 = c1
    c2 = c2
    d1 = d1
    d2 = d2
    Watcher = Watcher
    NoOne = NoOne
    Asset = Asset
    NoFile = NoFile
    Client <- TwoClients
    Doc <- TwoDocs
    Modes = {TRUE, FALSE}
    MaxWrites = 3
    MaxTroubles = 2
SYMMETRY Symmetry
INVARIANTS
    ChangeIsOneFile
    RecordedAtRest
    ScannedIsNotOverwritten
    AssetsAgree
