SPECIFICATION FairSpec
CONSTANTS
    e1 = e1
    e2 = e2
    w1 = w1
    w2 = w2
    NoWriter = NoWriter
    Writer = {w1, w2}
    Event = {e1, e2}
    Batch <- MCBatch
    MaxVersion = 4
INVARIANTS
    CommittedTogether
    DecidedOnTheWholeStream
PROPERTIES
    RunIsAtomic
    EveryCallEnds
