CONSTANTS
    NumWin = 3
    ShortKey <- MCShortKey
    Keys <- MCKeys
    Kinds <- AllKinds
    MSG_SIZE = 2
    MaxPost = 1
SPECIFICATION Spec
INVARIANTS
    TypeOK
    ForegroundIsCurrent
    EndsClean
