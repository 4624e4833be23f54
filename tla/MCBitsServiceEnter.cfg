\* Nothing fails, and a user enters.
SPECIFICATION Spec
CONSTANTS
    PhpSock = PhpSock
    FoneraSock = FoneraSock
    None = None
    Conns = {c1, c2}
    Users = {u1}
    Uids = {u1, u2}
    MaxTime = 1
    Faults = {}
PROPERTY EnterLogsIn
CHECK_DEADLOCK TRUE
