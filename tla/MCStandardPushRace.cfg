\* Nothing fails but the clients' connections.
SPECIFICATION Spec
CONSTANTS
    Client = {a, b, c}
    MaxConn = 2
    SndBuf = 1
    Stalled = {a}
    SrvSock = SrvSock
    None = None
    Faults = {}
INVARIANTS
    PushSurvives
CHECK_DEADLOCK FALSE
