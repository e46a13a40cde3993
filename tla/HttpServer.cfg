CONSTANTS
    SndBuf = 1
    MsgLen = 2
    MaxSends = 0
    Requests <- AllKinds
    KnownPaths = {"/"}
    MaxRequests = 2
    MaxSegments = 1
SPECIFICATION FairSpec
INVARIANTS AnswersInOrder FramedOrLast RefusedForAReason
PROPERTIES TidyClientIsAnswered FinEndsResponse
CHECK_DEADLOCK FALSE
