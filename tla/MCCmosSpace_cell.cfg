CONSTANTS
    Procs = {p1}
    LINE = 2
    RADIX = 16
    Keys <- MCKeys
SPECIFICATION Spec
INVARIANTS
    LandsInCell
