\* One client, two updates in two pieces.
SPECIFICATION Spec
CONSTANTS
    Client = {a}
    MaxClients = 1
    GarbageLimits = {1}
    MaxVersion = 2
    Pieces = 2
    Stalled = {}
INVARIANT MessagesWhole
CHECK_DEADLOCK FALSE
