CONSTANTS
    d1 = d1
    d2 = d2
    Procs = {p1, p2}
    MmioProcs = {p1}
    Devs = {d1, d2}
    Bytes = {0, 1}
    Zero = 0
    Ones = 1
    MAP_SIZE = 8
    EXT_SIZE = 16
    BootCfg <- MCBootCfg
    Calls <- MCEarlyCalls
    KernelIdx <- MCKernelIdx
    VAddrs = {v1, v2}
    NULL = NULL
    NoWindow = NoWindow
    NoProc = NoProc
    IoremapFails = TRUE
    EarlyCalls = TRUE
    MaxLost = 0
SPECIFICATION Spec
INVARIANT PortRestored
CHECK_DEADLOCK FALSE
