CONSTANTS
    d1 = d1
    d2 = d2
    Procs = {p1, p2}
    MmioProcs = {p1, p2}
    Devs = {d1, d2}
    Bytes = {0, 1}
    Zero = 0
    Ones = 1
    MAP_SIZE = 8
    EXT_SIZE = 16
    BootCfg <- MCBootCfg
    Calls <- MCReadCalls
    KernelIdx <- MCKernelIdx
    VAddrs = {v1, v2}
    NULL = NULL
    NoWindow = NoWindow
    NoProc = NoProc
    IoremapFails = FALSE
    EarlyCalls = FALSE
    MaxLost = 0
SPECIFICATION Spec
INVARIANT ReturnsOwnRegisters
CHECK_DEADLOCK FALSE
