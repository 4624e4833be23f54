\* Everything the model knows of may fail.
SPECIFICATION Spec
CONSTANTS
    PhpSock = PhpSock
    FoneraSock = FoneraSock
    None = None
    Conns = {c1, c2, c3}
    Users = {u1}
    Uids = {u1, u2}
    MaxTime = 1
    Faults = {"db", "clock", "push", "kill", "interrupt", "accept", "bind"}
SYMMETRY ConnSymmetry
INVARIANTS
    EventsConsistent
    NoUncaughtError
    FoneraTold
CHECK_DEADLOCK TRUE
