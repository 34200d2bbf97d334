SPECIFICATION FairSpec
CONSTANTS
    Server = {s1, s2}
    Caller = {c1, c2}
    Importer = {c2}
    Main = Main
    MaxPending = 0
    Delta = 1
    MaxCallbacks = 2
    MaxTime = 1
CHECK_DEADLOCK FALSE
INVARIANTS
    SerialInOrder
    NothingStranded
    AllDelivered
PROPERTIES
    SyncEnds
    ShutdownEnds
