\* Two clients at a time, out of three that come and go; one may stall.
SPECIFICATION FairSpec
CONSTANTS
    Client = {a, b, c}
    MaxConn = 2
    SndBuf = 1
    Stalled = {a}
    SrvSock = SrvSock
    None = None
    Faults = {"bind", "accept"}
INVARIANTS
    TypeOK
    ListsAgree
    CapRespected
    StaleExplained
PROPERTIES
    BroadcastAlwaysGetsOn
    BroadcastReturns
    BatchReturns
CHECK_DEADLOCK FALSE
