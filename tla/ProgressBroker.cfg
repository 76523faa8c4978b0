SPECIFICATION FairSpec
CONSTANTS
    l1 = l1
    l2 = l2
    Listener <- MCListener
    Capacity = 2
    MaxEvents = 4
CHECK_DEADLOCK FALSE
INVARIANTS
    NoPanic
    NothingElseIsLost
    KeepingUpSeesTheEnd
PROPERTIES
    StreamsEnd
