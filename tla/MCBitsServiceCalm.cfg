\* Sends may fail and two rows may fall into one second; nothing else fails.
SPECIFICATION FairSpec
CONSTANTS
    PhpSock = PhpSock
    FoneraSock = FoneraSock
    None = None
    Conns = {c1, c2}
    Users = {u1}
    Uids = {u1, u2}
    MaxTime = 2
    Faults = {}
INVARIANTS
    TypeOK
    AdoptedIsRecorded
    StatusCoherent
    ClosedMeansEmpty
    FoneraAlwaysKnows
PROPERTY PhpStatusAnswered
CHECK_DEADLOCK TRUE
