CONSTANTS
    BUSES = 3
    SLOTS = 2
    maxpcibus = 2
    LFDK_MAX_PCIBUF = 3
    WALK_LIMIT = 3
    Regs = {0, 4, 8}
    CAP_ID_PCIE = 16
    ENABLE <- MCEnable
    FOUR_GB <- MCFourGB
    Garbage <- MCGarbage
    NoText = ""
    Boots <- MCBoots
SPECIFICATION FairSpec
INVARIANTS
    NamesOwn
