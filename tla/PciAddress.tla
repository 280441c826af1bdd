----------------------------- MODULE PciAddress -----------------------------
(***************************************************************************)
(* The 32 bit address the driver computes for a request                    *)
(* (lfdd_cal_pcix_addr, lfdd/libpci_x86.c), which register the machine     *)
(* finds there, and the test that keeps MMIO requests out of RAM.  A slot  *)
(* is a device and a function: dev * 8 + fun.                              *)
(***************************************************************************)
EXTENDS Integers

CONSTANTS
    ENABLE,  \* 2^31, the enable bit of CF8
    FOUR_GB  \* 2^32

\* Registers of a function through the ports, and through MMIO
CF8_SIZE == 256
ECAM_SIZE == 4096

ASSUME AddressAssumption ==
    /\ ENABLE \in Nat
    /\ FOUR_GB \in Nat \ {0} /\ FOUR_GB % ECAM_SIZE = 0

FunctionNumber(bus, slot) == bus * 256 + slot

\* For the ports the register is OR-ed in as it is; requests keep it below 256.
lfdd_cal_pcix_addr(bus, slot, reg, phy_base) ==
    IF phy_base = 0
    THEN ENABLE + FunctionNumber(bus, slot) * CF8_SIZE + reg
    ELSE (FunctionNumber(bus, slot) * ECAM_SIZE + (reg % ECAM_SIZE) + phy_base) % FOUR_GB

\* addr_aligh_buf
Aligned(addr) == addr - (addr % 256)

\* Slip: the start of the window is compared, not its end.
Refused_ByStart(addr, phy_base, high_memory) ==
    phy_base # 0 /\ Aligned(addr) <= high_memory

\* "Invalid mmio address": the sum has 32 bits, the end of RAM may have more.
Refused(addr, phy_base, high_memory) ==
    phy_base # 0 /\ (Aligned(addr) + 256) % FOUR_GB <= high_memory

\* The function that answers: the address read by the chip set.
FunctionAt(addr, phy_base) ==
    LET n == IF phy_base = 0 THEN (addr - ENABLE) \div CF8_SIZE
             ELSE (addr - phy_base) \div ECAM_SIZE
    IN  <<n \div 256, n % 256>>

-----------------------------------------------------------------------------
\* What a machine's MMIO range is: it starts on a window and ends below 4G.
EcamBases == {base \in Nat \ {0} : base % 256 = 0 /\ base + 256 * 256 * ECAM_SIZE <= FOUR_GB}

=============================================================================
