\* Three lines of one peer, merged and cut in every way.
SPECIFICATION FairSpec
CONSTANTS
    PhpLine <- MCPhpLine
    FoneraLine <- MCFoneraLine
    MaxLines = 3
    Digest <- MCDigest
    JsonLen <- MCJsonLen
INVARIANTS
    TypeOK
    StatusesWereSent
    WholeLinesWereSent
    LastStatusShown
    HandshakeAccepted
    FramesInStep
PROPERTIES
    LastStatusArrives
CHECK_DEADLOCK FALSE
