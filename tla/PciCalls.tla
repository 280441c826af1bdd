------------------------------ MODULE PciCalls ------------------------------
(***************************************************************************)
(* Vocabulary shared by the specifications of the driver's way to the      *)
(* configuration registers: the ioctl argument struct lfdd_pcix_t          *)
(* (lfdd/lfdd.h), reduced to what the operations of lfdd/libpci_x86.c tell *)
(* apart, and those requests of lfdd/libio.c that reach the data port.     *)
(*                                                                         *)
(* A device stands for one bus/dev/fun triple.  phy_base is "none" (0, the *)
(* CF8/CFC ports are used), "ecam" (the machine's real MMIO base) or "low" *)
(* (a base whose windows end below high_memory, which the driver refuses). *)
(* "cfc" stands for a port request (struct lfdd_io_t) for CFC itself, as   *)
(* page 0C00h of IO-SPACE makes it; it names the registers that CF8 left   *)
(* by the kernel leads to.                                                 *)
(* A double word is a function from its four lanes to bytes.               *)
(***************************************************************************)
EXTENDS Integers

CONSTANTS
    Procs,      \* processes that hold /dev/lfdd open
    MmioProcs,  \* those that pass a non-zero phy_base
    Devs,       \* PCI functions
    Bytes,      \* byte values
    Zero,       \* 0x00
    Ones,       \* 0xff
    MAP_SIZE,   \* LFDD_MASSBUF_SIZE (256), which is also the CF8 space
    EXT_SIZE,   \* bytes of a device's MMIO configuration space (4096)
    KernelIdx,  \* the CF8 value the kernel left behind
    BootCfg,    \* possible contents of configuration space at load time
    Calls       \* the requests the processes make

Lanes == 0 .. 3

Regs == 0 .. EXT_SIZE - 1

Slots == 0 .. MAP_SIZE - 1

Dword == [Lanes -> Bytes]

MassBuf == [Slots -> Bytes]

lfdd_pcix_t ==
    [op       : {"read", "write", "mass"},
     width    : {1, 2, 4},
     dev      : Devs,
     reg      : Regs,
     phy_base : {"none", "ecam", "low", "cfc"},
     buf      : Dword]

\* The addresses lfdk sends: an access stays in its double word (only a
\* double word write may be misaligned, and is then refused), a 256 byte read
\* starts on a page, and the port path addresses the first MAP_SIZE registers.
\* IO-SPACE reads its whole page and writes a byte.
WellFormed(c) ==
    /\ c.op = "read" => (c.reg % 4) + c.width <= 4
    /\ c.op = "write" /\ c.width = 2 => c.reg % 2 = 0
    /\ c.op = "mass" => c.reg % MAP_SIZE = 0
    /\ c.phy_base \in {"none", "cfc"} => c.reg < MAP_SIZE
    /\ c.phy_base = "cfc" =>
          /\ c.dev = KernelIdx.dev /\ c.reg - (c.reg % 4) = KernelIdx.reg
          /\ <<c.op, c.width>> \in {<<"read", 4>>, <<"write", 1>>}

ASSUME SizeAssumption ==
    /\ MAP_SIZE \in Nat \ {0} /\ MAP_SIZE % 4 = 0
    /\ EXT_SIZE \in Nat \ {0} /\ EXT_SIZE % MAP_SIZE = 0 /\ EXT_SIZE % 4 = 0

ASSUME ByteAssumption == Zero \in Bytes /\ Ones \in Bytes

ASSUME CallAssumption ==
    /\ Calls \subseteq lfdd_pcix_t
    /\ Calls # {}
    /\ \A c \in Calls : WellFormed(c)

ASSUME BootAssumption == BootCfg \subseteq [Devs -> [Regs -> Bytes]]

ASSUME ProcAssumption == MmioProcs \subseteq Procs

\* The meaningless content of a request area no call is using.
IdleCall == CHOOSE c \in Calls : TRUE

IsMmio(c) == c.phy_base \in {"ecam", "low"}

\* CF8 is set for the request.
Indexed(c) == c.phy_base = "none"

\* "Invalid mmio address": the early return every operation starts with.
Rejected(c) ==
    \/ c.phy_base = "low"
    \/ c.op = "write" /\ c.width = 4 /\ c.reg % 4 # 0

=============================================================================
