CONSTANTS
    NumWin = 7
    ShortKey <- short_key
    Keys <- MCKeys
    Kinds <- MCKinds
    MSG_SIZE = 32
    RADIX = 2
    MaxPost = 1
    Machines <- MCMachines
    RECORDS_PER_PAGE = 2
    LINE = 4
    MAP_SIZE = 8
    EXT_SIZE = 24
SPECIFICATION UiFairSpec
INVARIANTS
    UiTypeOK
    ScannedBeforeUse
    CursorOnDevice
    ShortKeyWins
    ScanOnlyOnCall
    RequestsWellFormed
    BoxNeverFull
    LostFocusOnlyByForeground
PROPERTIES
    EditorForgets
    WriteHitsShown
    ScanGivesWay
