\* Nothing fails, and the Status table may be empty.
SPECIFICATION Spec
CONSTANTS
    PhpSock = PhpSock
    FoneraSock = FoneraSock
    None = None
    Conns = {c1, c2}
    Users = {u1}
    Uids = {u1, u2}
    MaxTime = 1
    Faults = {}
INVARIANT EmptyTableIsClosed
CHECK_DEADLOCK TRUE
