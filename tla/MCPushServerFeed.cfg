\* Three versions, so that one is superseded by the next; updates in one piece.
SPECIFICATION Spec
CONSTANTS
    Client = {a, b}
    MaxClients = 1
    GarbageLimits = {0}
    MaxVersion = 3
    Pieces = 1
    Stalled = {}
PROPERTIES
    FeedSpec
CHECK_DEADLOCK FALSE
