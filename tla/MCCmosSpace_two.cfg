CONSTANTS
    Procs = {p1, p2}
    LINE = 2
    RADIX = 16
    Keys <- MCKeys
SPECIFICATION Spec
INVARIANTS
    LandsAtIndex
