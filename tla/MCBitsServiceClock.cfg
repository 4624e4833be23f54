\* The clock may step back.
SPECIFICATION Spec
CONSTANTS
    PhpSock = PhpSock
    FoneraSock = FoneraSock
    None = None
    Conns = {c1, c2}
    Users = {u1}
    Uids = {u1, u2}
    MaxTime = 2
    Faults = {"clock"}
INVARIANT AdoptedIsRecorded
CHECK_DEADLOCK TRUE
