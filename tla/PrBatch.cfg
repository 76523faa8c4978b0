SPECIFICATION BatchSpec
CONSTANTS
    b1 = b1
    b2 = b2
    p1 = p1
    p2 = p2
    f1 = f1
    h1 = h1
    h2 = h2
    h3 = h3
    Batch <- MCBatch
    PlainBatch <- MCPlainBatch
    Planned <- MCPlanned
    Position <- MCPosition
    Started <- MCStarted
    Pull <- MCPull
    Finding <- MCFinding
    Findings <- MCFindings
    Starter <- MCStarter
    Canceller <- MCCanceller
    Parallel = 1
    MaxRuns = 2
    MaxEvents = 1
INVARIANTS
    OneCommentOfAFinding
    CancelIsFinal
    EndsItsItems
SYMMETRY Symmetry
CHECK_DEADLOCK FALSE
