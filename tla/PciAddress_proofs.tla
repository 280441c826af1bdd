-------------------------- MODULE PciAddress_proofs --------------------------
(***************************************************************************)
(* That the address of a request means what the request says, for all 256  *)
(* buses of 256 slots; LfddPci relies on this when it has requests name    *)
(* their devices and registers outright.                                   *)
(***************************************************************************)
EXTENDS PciAddress, TLAPS

Byte == {n \in Nat : n < 256}
Register == {n \in Nat : n < 4096}

\* The sum does not wrap in such a range.
LEMMA NoWrap ==
    ASSUME NEW bus \in Byte, NEW slot \in Byte, NEW reg \in Register,
           NEW base \in EcamBases
    PROVE  lfdd_cal_pcix_addr(bus, slot, reg, base)
             = (bus * 256 + slot) * 4096 + reg + base
<1> DEFINE sum == (bus * 256 + slot) * 4096 + reg + base
<1>1. sum \in Nat /\ sum < FOUR_GB /\ reg % 4096 = reg
  BY AddressAssumption DEF EcamBases, ECAM_SIZE, Byte, Register
<1>2. sum % FOUR_GB = sum
  <2> HIDE DEF sum
  <2> QED BY <1>1, AddressAssumption
<1> QED BY <1>1, <1>2 DEF EcamBases, lfdd_cal_pcix_addr, FunctionNumber, ECAM_SIZE

\* Bus and slot come out of a function number again.
LEMMA NumberDecodes ==
    ASSUME NEW bus \in Byte, NEW slot \in Byte
    PROVE  /\ (bus * 256 + slot) \div 256 = bus
           /\ (bus * 256 + slot) % 256 = slot
  BY DEF Byte

\* The function that answers a request is the one that lfdk named, through the
\* ports and through MMIO (lfdd/libpci_x86.c:52-77).
THEOREM AnswersForItself ==
    ASSUME NEW bus \in Byte, NEW slot \in Byte, NEW reg, NEW base,
           \/ base = 0 /\ reg \in Byte
           \/ base \in EcamBases /\ reg \in Register
    PROVE  FunctionAt(lfdd_cal_pcix_addr(bus, slot, reg, base), base) = <<bus, slot>>
<1> DEFINE number == bus * 256 + slot
<1>1. number \in Nat BY DEF Byte
<1>2. CASE base = 0 /\ reg \in Byte
  <2>1. lfdd_cal_pcix_addr(bus, slot, reg, base) - ENABLE = number * 256 + reg
    BY <1>2, AddressAssumption DEF lfdd_cal_pcix_addr, FunctionNumber, CF8_SIZE, Byte
  <2>2. (number * 256 + reg) \div 256 = number
    <3> HIDE DEF number
    <3> QED BY <1>1, <1>2 DEF Byte
  <2> QED BY <1>2, <2>1, <2>2, NumberDecodes DEF FunctionAt, CF8_SIZE
<1>3. CASE base \in EcamBases /\ reg \in Register
  <2>1. lfdd_cal_pcix_addr(bus, slot, reg, base) - base = number * 4096 + reg
    <3>1. lfdd_cal_pcix_addr(bus, slot, reg, base) = number * 4096 + reg + base
      BY <1>3, NoWrap
    <3>2. base \in Nat /\ reg \in Nat BY <1>3 DEF EcamBases, Register
    <3> QED BY <1>1, <3>1, <3>2
  <2>2. (number * 4096 + reg) \div 4096 = number
    <3> HIDE DEF number
    <3> QED BY <1>1, <1>3 DEF Register
  <2> QED BY <1>3, <2>1, <2>2, NumberDecodes DEF FunctionAt, ECAM_SIZE, EcamBases
<1> QED BY <1>2, <1>3

\* No two registers have one address, so a value of CF8 or a place in a window
\* names one device and one register (lfdd/libpci_x86.c:52-77).
THEOREM AddressesDistinct ==
    ASSUME NEW b1 \in Byte, NEW s1 \in Byte, NEW r1 \in Register,
           NEW b2 \in Byte, NEW s2 \in Byte, NEW r2 \in Register,
           NEW base,
           base \in EcamBases \/ (base = 0 /\ r1 < 256 /\ r2 < 256),
           lfdd_cal_pcix_addr(b1, s1, r1, base) = lfdd_cal_pcix_addr(b2, s2, r2, base)
    PROVE  b1 = b2 /\ s1 = s2 /\ r1 = r2
<1>1. /\ FunctionAt(lfdd_cal_pcix_addr(b1, s1, r1, base), base) = <<b1, s1>>
      /\ FunctionAt(lfdd_cal_pcix_addr(b2, s2, r2, base), base) = <<b2, s2>>
  <2>1. CASE base \in EcamBases BY <2>1, AnswersForItself
  <2>2. CASE base = 0 /\ r1 < 256 /\ r2 < 256
    <3>1. r1 \in Byte /\ r2 \in Byte BY <2>2 DEF Byte, Register
    <3> QED BY <2>2, <3>1, AnswersForItself
  <2> QED BY <2>1, <2>2
<1>2. b1 = b2 /\ s1 = s2 BY <1>1
<1>3. CASE base = 0 /\ r1 < 256 /\ r2 < 256
  BY <1>2, <1>3, AddressAssumption
     DEF lfdd_cal_pcix_addr, FunctionNumber, CF8_SIZE, Byte, Register
<1>4. CASE base \in EcamBases
  <2>1. /\ lfdd_cal_pcix_addr(b1, s1, r1, base) = (b1 * 256 + s1) * 4096 + r1 + base
        /\ lfdd_cal_pcix_addr(b2, s2, r2, base) = (b2 * 256 + s2) * 4096 + r2 + base
    BY <1>4, NoWrap
  <2>2. base \in Nat BY <1>4 DEF EcamBases
  <2> QED BY <1>2, <2>1, <2>2 DEF Byte, Register
<1> QED BY <1>3, <1>4

\* The window an MMIO request is served from starts at a register of its own
\* function, reg & ~255: it reaches into no other function (libpci_x86.c:86).
THEOREM WindowIsOwn ==
    ASSUME NEW bus \in Byte, NEW slot \in Byte, NEW reg \in Register,
           NEW base \in EcamBases
    PROVE  Aligned(lfdd_cal_pcix_addr(bus, slot, reg, base))
             = lfdd_cal_pcix_addr(bus, slot, reg - (reg % 256), base)
<1> DEFINE page == reg - (reg % 256)
<1>1. page \in Register BY DEF Register
<1>2. ((bus * 256 + slot) * 4096 + reg + base) % 256 = reg % 256
  <2>1. PICK k \in Nat : base = 256 * k BY DEF EcamBases
  <2> DEFINE m == (bus * 256 + slot) * 16 + k
  <2>2. m \in Nat /\ (bus * 256 + slot) * 4096 + reg + base = 256 * m + reg
    BY <2>1 DEF Byte, Register
  <2>3. (256 * m + reg) % 256 = reg % 256
    <3> HIDE DEF m
    <3> QED BY <2>2 DEF Register
  <2> QED BY <2>2, <2>3
<1>3. lfdd_cal_pcix_addr(bus, slot, reg, base) = (bus * 256 + slot) * 4096 + reg + base
  BY NoWrap
<1>4. lfdd_cal_pcix_addr(bus, slot, page, base) = (bus * 256 + slot) * 4096 + page + base
  <2> HIDE DEF page
  <2> QED BY <1>1, NoWrap
<1>5. base \in Nat /\ reg \in Nat /\ reg % 256 \in Nat BY DEF EcamBases, Register
<1> QED BY <1>2, <1>3, <1>4, <1>5 DEF Aligned, Byte

=============================================================================
