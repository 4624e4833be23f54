\* Two clients, one of which may stall; updates in two pieces; any limit at first.
SPECIFICATION FairSpec
CONSTANTS
    Client = {a, b}
    MaxClients = 1
    GarbageLimits = {0, 5}
    MaxVersion = 2
    Pieces = 2
    Stalled = {b}
INVARIANTS
    TypeOK
    PendingWritesExact
    ListedIsWatched
    NoMissedUpdate
PROPERTIES
    ClosingIsErased
    DestructorReturns
CHECK_DEADLOCK FALSE
