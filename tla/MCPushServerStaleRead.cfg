\* One client whose write may fail.
SPECIFICATION Spec
CONSTANTS
    Client = {a}
    MaxClients = 1
    GarbageLimits = {1}
    MaxVersion = 1
    Pieces = 1
    Stalled = {}
INVARIANT ReadNamesClient
CHECK_DEADLOCK FALSE
