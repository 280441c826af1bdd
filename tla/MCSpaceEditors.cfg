CONSTANTS
    LINE = 4
    RADIX = 2
    ADDR_PAGES <- MCPages
    Keys <- MCKeys
    HighMem = 80
    CORNER_MOD = 64
SPECIFICATION MCSpec
INVARIANTS
    TypeOK
    PortsExist
    DirectInRam
    TypedValueLands
    TestsAgree
    CmosTypeOK
    ShowsOwnCells
PROPERTIES
    PagesDoNotWrap
