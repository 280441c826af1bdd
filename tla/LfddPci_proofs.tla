--------------------------- MODULE LfddPci_proofs ---------------------------
(***************************************************************************)
(* Proofs about the driver's PCI path, for any set of processes, devices,  *)
(* requests and virtual addresses.                                         *)
(***************************************************************************)
EXTENDS LfddPci, Blocks_proofs

\* A request of the callers is a well-formed lfdd_pcix_t.
LEMMA CallType ==
    ASSUME NEW c \in Calls
    PROVE  /\ c \in lfdd_pcix_t
           /\ c.op \in {"read", "write", "mass"} /\ c.width \in {1, 2, 4}
           /\ c.dev \in Devs /\ c.reg \in Nat /\ c.buf \in Dword
  BY CallAssumption, SizeAssumption DEF lfdd_pcix_t, Regs

\* There is a request area to start from.
LEMMA IdleCallType == IdleCall \in Calls
  BY CallAssumption DEF IdleCall

\* The window and the port address of a request are addresses.
LEMMA AddressType ==
    ASSUME NEW c \in Calls, NEW k \in Slots
    PROVE  /\ WindowOf(c) \in Address
           /\ PortAddress(c, k) \in Address
           /\ WindowOffset(c, k) \in Nat
<1>1. c.dev \in Devs /\ c.reg \in Nat BY CallType
<1>2. k \in Nat BY SizeAssumption DEF Slots
<1>3. /\ c.reg % MAP_SIZE \in Nat /\ c.reg % MAP_SIZE <= c.reg
      /\ c.reg % 4 \in Nat /\ c.reg % 4 <= c.reg
  BY <1>1, SizeAssumption
<1>4. WindowOf(c) \in Address
  BY <1>1, <1>3 DEF WindowOf, Address
<1>5. PortAddress(c, k) \in Address
  BY <1>1, <1>2, <1>3 DEF PortAddress, Address
<1>6. WindowOffset(c, k) \in Nat
  <2>1. CASE c.op = "mass" BY <2>1, <1>2 DEF WindowOffset
  <2>2. CASE c.op # "mass"
    <3>1. WindowOf(c).reg = c.reg - (c.reg % MAP_SIZE) BY <2>2 DEF WindowOf
    <3>2. c.reg - WindowOf(c).reg \in Nat BY <3>1, <1>1, <1>3
    <3> DEFINE off == c.reg - WindowOf(c).reg
    <3>3. off % 4 \in Nat /\ off % 4 <= off
      <4> HIDE DEF off
      <4>1. off \in Nat BY <3>2 DEF off
      <4> QED BY <4>1
    <3>4. WindowOffset(c, k) = off - (off % 4) BY <2>2 DEF WindowOffset
    <3> HIDE DEF off
    <3>5. off \in Nat BY <3>2 DEF off
    <3> QED BY <3>3, <3>4, <3>5
  <2> QED BY <2>1, <2>2
<1> QED BY <1>4, <1>5, <1>6

\* What the bus answers is a double word.
LEMMA DwordType ==
    ASSUME NEW m \in [Devs -> [Regs -> Bytes]], NEW a \in Address
    PROVE  DwordAt(m, a) \in Dword
  BY ByteAssumption DEF DwordAt, Dword, Address

\* A store keeps configuration space a table of bytes.
LEMMA StoreType ==
    ASSUME NEW m \in [Devs -> [Regs -> Bytes]], NEW a \in Address, NEW v \in Dword
    PROVE  StoreDword(m, a, v) \in [Devs -> [Regs -> Bytes]]
  BY DEF StoreDword, Dword, Address

\* What a turn of the read puts into the caller's buffer is bytes.
LEMMA BufferType ==
    ASSUME NEW old \in MassBuf, NEW v \in Dword, NEW k \in Slots
    PROVE  /\ [s \in Slots |-> IF s \in Lanes THEN v[s] ELSE old[s]] \in MassBuf
           /\ [s \in Slots |-> IF s - k \in Lanes THEN v[s - k] ELSE old[s]] \in MassBuf
  BY DEF MassBuf, Dword

\* The double word a write stores is made of bytes.
LEMMA MergeType ==
    ASSUME NEW c \in Calls, NEW old, \A l \in Lanes : old[l] \in Bytes
    PROVE  Merge(c, old) \in Dword
<1>1. /\ c.reg \in Nat /\ c.width \in {1, 2, 4}
      /\ \A l \in 0 .. 3 : c.buf[l] \in Bytes
  BY CallType DEF Dword, Lanes
<1>2. WriteLane(c) \in 0 .. 3
  BY <1>1 DEF WriteLane
<1>3. \A l \in Lanes : l - WriteLane(c) \in 0 .. c.width - 1 => l - WriteLane(c) \in 0 .. 3
  BY <1>1, <1>2 DEF Lanes
<1> QED BY <1>1, <1>3 DEF Merge, Dword

\* Where a request that has a good pointer lands is an address.
LEMMA TargetType ==
    ASSUME TypeOK, NEW p \in Procs, ~BadPointer(p)
    PROVE  Target(p) \in Address
<1>1. call[p] \in Calls /\ i[p] \in Slots BY DEF TypeOK
<1>2. WindowOffset(call[p], i[p]) \in Nat BY <1>1, AddressType
<1>3. CASE IsMmio(call[p])
  <2>1. PICK v \in VAddrs : v = phy2virt_mem /\ vmap[v] # NoWindow
    BY <1>3 DEF BadPointer
  <2>2. vmap[v] \in Address BY <2>1 DEF TypeOK
  <2> QED BY <1>2, <1>3, <2>1, <2>2 DEF Target, Address
<1>4. CASE ~IsMmio(call[p])
  BY <1>4 DEF Target, TypeOK
<1> QED BY <1>3, <1>4

\* What a store leaves in the other lanes is bytes.
LEMMA KeptType ==
    ASSUME TypeOK, NEW p \in Procs, Target(p) \in Address
    PROVE  \A l \in Lanes : Kept(p)[l] \in Bytes
<1>1. DwordAt(cfg, Target(p)) \in Dword BY DwordType DEF TypeOK
<1>2. temp[p] \in MassBuf BY DEF TypeOK
<1>3. Lanes \subseteq Slots BY SizeAssumption DEF Lanes, Slots
<1> QED BY <1>1, <1>2, <1>3 DEF Kept, Dword, MassBuf

\* Every step keeps every variable in its type.
LEMMA TypeStep == TypeOK /\ [Next]_vars => TypeOK'
<1> SUFFICES ASSUME TypeOK, [Next]_vars PROVE TypeOK'
  OBVIOUS
<1> USE DEF TypeOK, goto, Labels, hw, cache, lock, stack
<1>1. CASE SpinLockInit \/ Reload BY <1>1 DEF SpinLockInit, Reload
<1>2. ASSUME NEW p \in Procs, Ioctl(p) PROVE TypeOK'
  <2>1. RejectedTemp \in MassBuf
    BY ByteAssumption DEF RejectedTemp, MassBuf
  <2>2. 0 \in Slots BY SizeAssumption DEF Slots
  <2> QED BY <1>2, <2>1, <2>2 DEF Ioctl
<1>3. ASSUME NEW p \in Procs, Lookup(p) PROVE TypeOK'
  <2>1. pc' \in [Procs -> Labels] BY <1>3 DEF Lookup, Rejected
  <2> QED BY <1>3, <2>1 DEF Lookup
<1>4. ASSUME NEW p \in Procs, Iounmap(p) PROVE TypeOK'
  BY <1>4 DEF Iounmap
<1>5. ASSUME NEW p \in Procs, Ioremap(p) PROVE TypeOK'
  <2>1. WindowOf(call[p]) \in Address BY AddressType
  <2> QED BY <1>5, <2>1 DEF Ioremap
<1>6. ASSUME NEW p \in Procs, SetStart(p) PROVE TypeOK'
  <2>1. WindowOf(call[p]) \in Address BY AddressType
  <2> QED BY <1>6, <2>1 DEF SetStart
<1>7. ASSUME NEW p \in Procs, SpinLock(p) PROVE TypeOK'
  BY <1>7 DEF SpinLock, FirstAccess
<1>8. ASSUME NEW p \in Procs, SaveIdx(p) PROVE TypeOK'
  BY <1>8 DEF SaveIdx
<1>9. ASSUME NEW p \in Procs, WriteIdx(p) PROVE TypeOK'
  <2>1. PortAddress(call[p], i[p]) \in Address BY AddressType
  <2> QED BY <1>9, <2>1 DEF WriteIdx, FirstAccess
<1>10. ASSUME NEW p \in Procs, Oops(p) PROVE TypeOK'
  BY <1>10 DEF Oops
<1>11. ASSUME NEW p \in Procs, ReadDword(p) PROVE TypeOK'
  <2>1. DwordAt(cfg, Target(p)) \in Dword
    BY <1>11, TargetType, DwordType DEF ReadDword
  <2>2. temp[p] \in MassBuf /\ i[p] \in Slots OBVIOUS
  <2>3. temp' \in [Procs -> MassBuf]
    BY <1>11, <2>1, <2>2, BufferType DEF ReadDword
  <2> QED BY <1>11, <2>3 DEF ReadDword, AfterAccess
<1>12. ASSUME NEW p \in Procs, ReadMass(p) PROVE TypeOK'
  <2>1. DwordAt(cfg, Target(p)) \in Dword
    BY <1>12, TargetType, DwordType DEF ReadMass
  <2>2. temp[p] \in MassBuf /\ i[p] \in Slots OBVIOUS
  <2> DEFINE v == DwordAt(cfg, Target(p))
             new == [s \in Slots |-> IF s - i[p] \in Lanes THEN v[s - i[p]] ELSE temp[p][s]]
  <2>3. new \in MassBuf
    <3> HIDE DEF v
    <3> QED BY <2>1, <2>2, BufferType DEF v
  <2>4. temp' = [temp EXCEPT ![p] = new]
    BY <1>12 DEF ReadMass
  <2>5. temp' \in [Procs -> MassBuf]
    <3> HIDE DEF new
    <3> QED BY <2>3, <2>4
  <2>6. i' \in [Procs -> Slots] /\ \A q \in Procs : i'[q] % 4 = 0
    <3>1. CASE i[p] + 4 < MAP_SIZE
      <4>1. i' = [i EXCEPT ![p] = i[p] + 4] BY <1>12, <3>1 DEF ReadMass
      <4>2. \A k \in Nat : k % 4 = 0 => (k + 4) % 4 = 0 OBVIOUS
      <4>3. i[p] \in Nat /\ i[p] % 4 = 0 BY <2>2, SizeAssumption DEF Slots
      <4>4. i[p] + 4 \in Slots
        BY <3>1, <4>3, SizeAssumption DEF Slots
      <4>5. (i[p] + 4) % 4 = 0 BY <4>2, <4>3
      <4> QED BY <4>1, <4>4, <4>5
    <3>2. CASE ~(i[p] + 4 < MAP_SIZE)
      BY <1>12, <3>2 DEF ReadMass
    <3> QED BY <3>1, <3>2
  <2> QED BY <1>12, <2>5, <2>6 DEF ReadMass, AfterAccess
<1>13. ASSUME NEW p \in Procs, WriteDword(p) PROVE TypeOK'
  <2>1. Target(p) \in Address BY <1>13, TargetType DEF WriteDword
  <2>2. Merge(call[p], Kept(p)) \in Dword
    <3>1. \A l \in Lanes : Kept(p)[l] \in Bytes BY <2>1, KeptType
    <3> QED BY <3>1, MergeType
  <2>3. cfg' \in [Devs -> [Regs -> Bytes]]
    BY <1>13, <2>1, <2>2, StoreType DEF WriteDword
  <2> QED BY <1>13, <2>3 DEF WriteDword, AfterAccess
<1>14. ASSUME NEW p \in Procs, RestoreIdx(p) PROVE TypeOK'
  BY <1>14 DEF RestoreIdx
<1>15. ASSUME NEW p \in Procs, SpinUnlock(p) PROVE TypeOK'
  BY <1>15 DEF SpinUnlock
<1>16. ASSUME NEW p \in Procs, Return(p) PROVE TypeOK'
  <2>1. RejectedTemp \in MassBuf
    BY ByteAssumption DEF RejectedTemp, MassBuf
  <2>2. 0 \in Slots BY SizeAssumption DEF Slots
  <2>3. IdleCall \in Calls /\ KernelIdx \in Address
    BY IdleCallType, DriverAssumption
  <2> QED BY <1>16, <2>1, <2>2, <2>3 DEF Return
<1>17. CASE UNCHANGED vars BY <1>17 DEF vars
<1> QED BY <1>1, <1>2, <1>3, <1>4, <1>5, <1>6, <1>7, <1>8, <1>9, <1>10, <1>11,
           <1>12, <1>13, <1>14, <1>15, <1>16, <1>17 DEF Next, Step

\* The driver is loaded in a well typed state.
LEMMA InitType == Init => TypeOK
<1> SUFFICES ASSUME Init PROVE TypeOK OBVIOUS
<1>1. RejectedTemp \in MassBuf
  BY ByteAssumption DEF RejectedTemp, MassBuf
<1>2. 0 \in Slots /\ 0 % 4 = 0 BY SizeAssumption DEF Slots
<1>3. IdleCall \in Calls /\ KernelIdx \in Address
  BY IdleCallType, DriverAssumption
<1>4. cfg \in [Devs -> [Regs -> Bytes]] BY BootAssumption DEF Init
<1> QED BY <1>1, <1>2, <1>3, <1>4 DEF Init, TypeOK, Labels

\* The driver's state is well typed in every reachable state, and the index of
\* read_256byte's loop never leaves mass_buf (lfdd/libpci_x86.c).
THEOREM TypeCorrect == Spec => []TypeOK
<1>1. Init => TypeOK BY InitType
<1>2. TypeOK /\ [Next]_vars => TypeOK' BY TypeStep
<1> QED BY <1>1, <1>2, PTL DEF Spec

-----------------------------------------------------------------------------
\* The invariant behind PortRestored.

\* No request is made before lfdd_init has prepared the lock.
Started == ~lock_ready => \A p \in Procs : pc[p] = "idle"

\* The critical section belongs to the holder of lfdd_lock.
MutualExclusion == \A p \in Procs : pc[p] \in Critical => lfdd_lock = p

\* Only the port path saves, addresses and restores CF8.
PortLabels == \A p \in Procs : pc[p] \in {"save", "addr", "restore"} => Indexed(call[p])

\* Between SaveIdx and RestoreIdx the kernel's CF8 value is on the stack of
\* the holder; before and after, and on the other paths, it is in the port.
PortSaved ==
    /\ \A p \in Procs :
          pc[p] \in {"addr", "read", "write", "restore"} /\ Indexed(call[p])
              => orig_idx[p] = KernelIdx
    /\ \A p \in Procs :
          pc[p] \in {"save", "unlock"} => cf8 = KernelIdx
    /\ \A p \in Procs :
          pc[p] \in Critical /\ ~Indexed(call[p]) => cf8 = KernelIdx

PortInv == /\ TypeOK /\ Started /\ MutualExclusion /\ PortLabels
           /\ PortSaved /\ PortRestored

\* Every step keeps the port discipline when no request precedes the lock's
\* initialisation.
LEMMA PortStep ==
    ASSUME ~EarlyCalls
    PROVE  PortInv /\ [Next]_vars => PortInv'
<1> SUFFICES ASSUME PortInv, [Next]_vars PROVE PortInv'
  OBVIOUS
<1>1. TypeOK' BY TypeStep DEF PortInv
<1> DEFINE Rest == Started /\ MutualExclusion /\ PortLabels /\ PortSaved /\ PortRestored
<1> USE DEF PortInv, TypeOK, Started, MutualExclusion, PortLabels, PortSaved,
            PortRestored, Critical, goto, hw, cache, lock, stack
<1>2. CASE SpinLockInit \/ Reload BY <1>2 DEF SpinLockInit, Reload
<1>3. ASSUME NEW p \in Procs, Ioctl(p) PROVE Rest'
  BY <1>3 DEF Ioctl
<1>4. ASSUME NEW p \in Procs, Lookup(p) PROVE Rest'
  BY <1>4 DEF Lookup, Rejected
<1>5. ASSUME NEW p \in Procs, Iounmap(p) PROVE Rest'
  BY <1>5 DEF Iounmap
<1>6. ASSUME NEW p \in Procs, Ioremap(p) PROVE Rest'
  BY <1>6 DEF Ioremap
<1>7. ASSUME NEW p \in Procs, SetStart(p) PROVE Rest'
  BY <1>7 DEF SetStart
<1>8. ASSUME NEW p \in Procs, SpinLock(p) PROVE Rest'
  BY <1>8, DriverAssumption DEF SpinLock, FirstAccess
<1>9. ASSUME NEW p \in Procs, SaveIdx(p) PROVE Rest'
  BY <1>9 DEF SaveIdx
<1>10. ASSUME NEW p \in Procs, WriteIdx(p) PROVE Rest'
  BY <1>10 DEF WriteIdx, FirstAccess
<1>11. ASSUME NEW p \in Procs, Oops(p) PROVE Rest'
  BY <1>11 DEF Oops, BadPointer, IsMmio, Indexed
<1>12. ASSUME NEW p \in Procs, ReadDword(p) PROVE Rest'
  BY <1>12 DEF ReadDword, AfterAccess
<1>13. ASSUME NEW p \in Procs, ReadMass(p) PROVE Rest'
  BY <1>13 DEF ReadMass, AfterAccess
<1>14. ASSUME NEW p \in Procs, WriteDword(p) PROVE Rest'
  BY <1>14 DEF WriteDword, AfterAccess
<1>15. ASSUME NEW p \in Procs, RestoreIdx(p) PROVE Rest'
  BY <1>15 DEF RestoreIdx
<1>16. ASSUME NEW p \in Procs, SpinUnlock(p) PROVE Rest'
  BY <1>16 DEF SpinUnlock
<1>17. ASSUME NEW p \in Procs, Return(p) PROVE Rest'
  BY <1>17 DEF Return
<1>18. CASE UNCHANGED vars BY <1>18 DEF vars
<1> QED BY <1>1, <1>2, <1>3, <1>4, <1>5, <1>6, <1>7, <1>8, <1>9, <1>10, <1>11,
           <1>12, <1>13, <1>14, <1>15, <1>16, <1>17, <1>18 DEF Next, Step

\* The port is the kernel's before the first request.
LEMMA InitPort == Init => PortInv
<1> SUFFICES ASSUME Init PROVE PortInv OBVIOUS
<1>1. TypeOK BY InitType
<1> QED BY <1>1 DEF Init, PortInv, Started, MutualExclusion, PortLabels,
                    PortSaved, PortRestored, Critical

\* Save/restore of CF8 is right for any number of callers: once no request is
\* in the critical section the port holds the kernel's value
\* (lfdd/libpci_x86.c), provided lfdd_init is over before the first request.
THEOREM PortCorrect ==
    ASSUME ~EarlyCalls
    PROVE  Spec => []PortRestored
<1>1. Init => PortInv BY InitPort
<1>2. PortInv /\ [Next]_vars => PortInv' BY PortStep
<1>3. PortInv => PortRestored BY DEF PortInv
<1> QED BY <1>1, <1>2, <1>3, PTL DEF Spec

-----------------------------------------------------------------------------
(***************************************************************************)
(* What the driver's requests reach: the cached window, the registers a    *)
(* request returns, and that the driver implements ConfigSpace.  With one  *)
(* process that uses MMIO this is so of every request (the run             *)
(* driver_two_mmio is the counterexample with two); however many use it,   *)
(* it is so of the requests through the ports.  Where it says so, lfdd_init *)
(* is over before the first request.                                       *)
(***************************************************************************)

OneMmioProc == \A p, q \in MmioProcs : p = q

\* The requests that reach the registers they name.
Sure(c) == OneMmioProc \/ ~IsMmio(c)

-----------------------------------------------------------------------------
\* Requests and the registers they name.

\* A request's window is aligned, holds its register and lies in the device;
\* the double word accessed through it is the one the ports address.
LEMMA WindowFacts ==
    ASSUME NEW c \in Calls
    PROVE  /\ WindowOf(c).reg \in Nat
           /\ WindowOf(c).reg % MAP_SIZE = 0
           /\ WindowOf(c).reg <= c.reg
           /\ c.reg < WindowOf(c).reg + MAP_SIZE
           /\ \A k \in Slots :
                  WindowOf(c).reg + WindowOffset(c, k) = PortAddress(c, k).reg
<1>1. c.reg \in Nat /\ c.dev \in Devs BY CallType
<1>2. CASE c.op = "mass"
  <2>1. c.reg % MAP_SIZE = 0 BY <1>2, CallAssumption DEF WellFormed
  <2>2. WindowOf(c).reg = c.reg BY <1>2 DEF WindowOf
  <2>3. \A k \in Slots : WindowOffset(c, k) = k /\ PortAddress(c, k).reg = c.reg + k
    BY <1>2 DEF WindowOffset, PortAddress
  <2> QED BY <1>1, <2>1, <2>2, <2>3, SizeAssumption
<1>3. CASE c.op # "mass"
  <2> DEFINE w == c.reg - (c.reg % MAP_SIZE)
  <2>1. WindowOf(c).reg = w BY <1>3 DEF WindowOf
  <2>2. w \in Nat /\ w % MAP_SIZE = 0 /\ w <= c.reg /\ c.reg < w + MAP_SIZE
    BY <1>1, BlockStart, SizeAssumption
  <2>3. \A k \in Slots : /\ WindowOffset(c, k) = (c.reg - w) - ((c.reg - w) % 4)
                         /\ PortAddress(c, k).reg = c.reg - (c.reg % 4)
    BY <1>3, <2>1 DEF WindowOffset, PortAddress
  <2> HIDE DEF w
  <2>4. w % 4 = 0 BY <2>2, FourDivides, SizeAssumption
  <2>5. w + ((c.reg - w) - ((c.reg - w) % 4)) = c.reg - (c.reg % 4)
    BY <1>1, <2>2, <2>4, SameLane
  <2> QED BY <2>1, <2>2, <2>3, <2>5
<1> QED BY <1>2, <1>3

\* A cached window that a request is in range of is the request's own.
LEMMA InRange ==
    ASSUME NEW c \in Calls, NEW start \in Address,
           start.reg % MAP_SIZE = 0, start # NoWindow, ~out_range(c, start)
    PROVE  start = WindowOf(c)
<1>1. c.reg \in Nat /\ start.reg \in Nat BY CallType DEF Address
<1>2. c.dev = start.dev /\ start.reg <= c.reg /\ c.reg < start.reg + MAP_SIZE
  BY <1>1, SizeAssumption DEF out_range
<1>3. start.reg = WindowOf(c).reg
  <2>1. CASE start.reg < WindowOf(c).reg
    <3>1. start.reg + MAP_SIZE <= WindowOf(c).reg
      BY <1>1, <2>1, WindowFacts, Multiples, SizeAssumption
    <3> QED BY <1>1, <1>2, <3>1, WindowFacts, SizeAssumption
  <2>2. CASE WindowOf(c).reg < start.reg
    <3>1. WindowOf(c).reg + MAP_SIZE <= start.reg
      BY <1>1, <2>2, WindowFacts, Multiples, SizeAssumption
    <3> QED BY <1>1, <1>2, <3>1, WindowFacts, SizeAssumption
  <2> QED BY <1>1, <2>1, <2>2, WindowFacts
<1> QED BY <1>2, <1>3 DEF Address, WindowOf

\* The double words of a request are registers of its device.
LEMMA Inside ==
    ASSUME NEW c \in Calls, NEW k \in Slots, k % 4 = 0, NEW l \in Lanes
    PROVE  PortAddress(c, k).reg + l \in Regs
<1>1. c.reg \in Nat /\ c.reg < EXT_SIZE
  <2>1. c.reg \in Regs BY CallType DEF lfdd_pcix_t
  <2> QED BY <2>1, SizeAssumption DEF Regs
<1>2. k \in Nat /\ k < MAP_SIZE /\ l \in 0 .. 3
  BY SizeAssumption DEF Slots, Lanes
<1>3. CASE c.op = "mass"
  <2>1. c.reg % MAP_SIZE = 0 BY <1>3, CallAssumption DEF WellFormed
  <2>2. c.reg + MAP_SIZE <= EXT_SIZE BY <1>1, <2>1, Multiples, SizeAssumption
  <2>3. k + 4 <= MAP_SIZE BY <1>2, Multiples, SizeAssumption
  <2>4. PortAddress(c, k).reg = c.reg + k BY <1>3 DEF PortAddress
  <2>5. c.reg + k + l \in 0 .. EXT_SIZE - 1
    <3> DEFINE r == c.reg
    <3>1. r \in Nat /\ r + MAP_SIZE <= EXT_SIZE BY <1>1, <2>2
    <3> HIDE DEF r
    <3>2. MAP_SIZE \in Nat /\ EXT_SIZE \in Nat BY SizeAssumption
    <3>3. r + k + l \in 0 .. EXT_SIZE - 1 BY <1>2, <2>3, <3>1, <3>2
    <3> QED BY <3>3 DEF r
  <2> QED BY <2>4, <2>5 DEF Regs
<1>4. CASE c.op # "mass"
  <2> DEFINE w == c.reg - (c.reg % 4)
  <2>1. w \in Nat /\ w % 4 = 0 /\ w <= c.reg BY <1>1, BlockStart
  <2>2. PortAddress(c, k).reg = w BY <1>4 DEF PortAddress
  <2> HIDE DEF w
  <2>3. w + 4 <= EXT_SIZE BY <1>1, <2>1, Multiples, SizeAssumption
  <2> QED BY <1>2, <2>1, <2>2, <2>3, SizeAssumption DEF Regs
<1> QED BY <1>3, <1>4

\* What the bus answers there is the bytes of the request's device.
LEMMA DwordNamed ==
    ASSUME NEW m \in [Devs -> [Regs -> Bytes]],
           NEW c \in Calls, NEW k \in Slots, k % 4 = 0, NEW l \in Lanes
    PROVE  DwordAt(m, PortAddress(c, k))[l] = m[c.dev][PortAddress(c, k).reg + l]
<1>1. PortAddress(c, k).reg + l \in Regs BY Inside
<1>2. PortAddress(c, k).dev = c.dev BY DEF PortAddress
<1> QED BY <1>1, <1>2 DEF DwordAt

\* A small read cuts the bytes it names out of its double word.
LEMMA ExtractNamed ==
    ASSUME NEW m \in [Devs -> [Regs -> Bytes]],
           NEW c \in Calls, c.op = "read", NEW k \in Slots, k % 4 = 0,
           NEW v, \A l \in Lanes : v[l] = DwordAt(m, PortAddress(c, k))[l],
           NEW n \in 0 .. c.width - 1
    PROVE  Extract(c, v)[n] = m[c.dev][c.reg + n]
<1>1. c.reg \in Nat /\ c.width \in {1, 2, 4} BY CallType
<1>2. (c.reg % 4) + c.width <= 4 BY CallAssumption DEF WellFormed
<1>3. PortAddress(c, k).reg = c.reg - (c.reg % 4) BY DEF PortAddress
<1> DEFINE r == c.reg % 4
<1>4. r \in 0 .. 3 /\ r + c.width <= 4 BY <1>1, <1>2
<1> HIDE DEF r
<1>5. r + n \in Lanes BY <1>1, <1>4 DEF Lanes
<1>6. (c.reg - r) + (r + n) = c.reg + n BY <1>1, <1>4
<1>7. v[r + n] = m[c.dev][c.reg + n]
  BY <1>3, <1>5, <1>6, DwordNamed DEF r
<1> QED BY <1>7 DEF Extract, r

\* A write replaces the lanes from its register on, and fits its double word.
LEMMA WriteFits ==
    ASSUME NEW c \in Calls, c.op = "write", ~Rejected(c)
    PROVE  WriteLane(c) = c.reg % 4 /\ (c.reg % 4) + c.width <= 4
<1>1. c.reg \in Nat /\ c.width \in {1, 2, 4} BY CallType
<1>2. c.width = 2 => c.reg % 2 = 0 BY CallAssumption DEF WellFormed
<1>3. c.width = 4 => c.reg % 4 = 0 BY DEF Rejected
<1>4. \A r \in Nat : r % 2 = 0 => r % 4 \in {0, 2} OBVIOUS
<1>5. c.width = 2 => c.reg % 4 \in {0, 2} BY <1>1, <1>2, <1>4
<1>6. c.reg % 4 \in 0 .. 3 BY <1>1
<1> QED BY <1>1, <1>2, <1>3, <1>5, <1>6 DEF WriteLane

-----------------------------------------------------------------------------
\* The invariant of the cached window.

\* A request through MMIO is made by the process that uses MMIO.
MmioCallers == \A p \in Procs : pc[p] # "idle" /\ IsMmio(call[p]) => p \in MmioProcs

\* Only requests that need the window replace it, and only they fault.
WindowLabels ==
    \A p \in Procs :
        /\ pc[p] \in {"iounmap", "ioremap", "setstart", "oops"} => IsMmio(call[p])
        /\ pc[p] \notin {"idle", "map", "return"} => ~Rejected(call[p])

\* phy_map_start_addr is the start of a window, and of the mapped one unless it
\* is just being replaced.
CacheCoherent ==
    /\ phy_map_start_addr # NoWindow => phy_map_start_addr.reg % MAP_SIZE = 0
    /\ phy2virt_mem # NULL /\ (\A p \in Procs : pc[p] \notin {"ioremap", "setstart"})
           => vmap[phy2virt_mem] = phy_map_start_addr

\* When a window is about to be mapped, there is no other but the lost ones.
NoneMapped ==
    \A p \in Procs : pc[p] = "ioremap" =>
        \A v \in VAddrs : vmap[v] # NoWindow => v \in lost

\* The window that was looked up is the request's own, until it is done with it.
OwnWindow ==
    \A p \in Procs :
        /\ pc[p] \in {"setstart", "lock"} \cup Critical
        /\ IsMmio(call[p])
        /\ phy2virt_mem # NULL
        => vmap[phy2virt_mem] = WindowOf(call[p])

WindowInv ==
    /\ MmioCallers /\ WindowLabels /\ CacheCoherent /\ NoneMapped /\ OwnWindow
    /\ NoMappingLeak /\ FaultOnlyAfterFailedIoremap

\* Every step keeps the window discipline when one process uses MMIO.
LEMMA WindowStep ==
    ASSUME OneMmioProc, TypeOK, WindowInv, [Next]_vars
    PROVE  WindowInv'
<1> USE DEF WindowInv, TypeOK, MmioCallers, WindowLabels, CacheCoherent, NoneMapped,
            OwnWindow, NoMappingLeak, FaultOnlyAfterFailedIoremap, Critical,
            goto, hw, cache, lock, stack, OneMmioProc
<1>w. \A p \in Procs : /\ WindowOf(call[p]) \in Address
                       /\ WindowOf(call[p]) # NoWindow
                       /\ WindowOf(call[p]).reg % MAP_SIZE = 0
  <2> SUFFICES ASSUME NEW p \in Procs
               PROVE  WindowOf(call[p]) \in Address /\ WindowOf(call[p]).reg % MAP_SIZE = 0
    BY DriverAssumption
  <2>1. call[p] \in Calls /\ 0 \in Slots BY SizeAssumption DEF Slots
  <2> QED BY <2>1, AddressType, WindowFacts
<1>1. CASE SpinLockInit BY <1>1 DEF SpinLockInit
<1>2. CASE Reload BY <1>2 DEF Reload
<1>3. ASSUME NEW p \in Procs, Ioctl(p) PROVE WindowInv'
  BY <1>3 DEF Ioctl, IsMmio
<1>4. ASSUME NEW p \in Procs, Lookup(p) PROVE WindowInv'
  <2>1. pc[p] = "map" /\ UNCHANGED <<vmap, lost, phy2virt_mem, phy_map_start_addr, call>>
    BY <1>4 DEF Lookup
  <2>2. CASE Rejected(call[p]) /\ goto(p, "return")
    BY <2>1, <2>2
  <2>3. CASE ~Rejected(call[p]) /\ ~IsMmio(call[p]) /\ goto(p, "lock")
    BY <2>1, <2>3
  <2>4. CASE /\ ~Rejected(call[p]) /\ IsMmio(call[p]) /\ phy2virt_mem = NULL
             /\ goto(p, "ioremap")
    BY <2>1, <2>4, DriverAssumption DEF IsMmio
  <2>5. CASE /\ ~Rejected(call[p]) /\ IsMmio(call[p]) /\ phy2virt_mem # NULL
             /\ goto(p, "iounmap")
    BY <2>1, <2>5 DEF IsMmio
  <2>6. CASE /\ ~Rejected(call[p]) /\ IsMmio(call[p]) /\ phy2virt_mem # NULL
             /\ ~out_range(call[p], phy_map_start_addr) /\ goto(p, "lock")
    <3>1. phy_map_start_addr # NoWindow BY <2>6 DEF out_range
    <3>2. phy_map_start_addr = WindowOf(call[p])
      BY <2>6, <3>1, InRange
    <3>3. \A q \in Procs : pc[q] \notin {"ioremap", "setstart"}
      BY <2>1, <2>6 DEF IsMmio
    <3>4. vmap[phy2virt_mem] = WindowOf(call[p]) BY <2>6, <3>2, <3>3
    <3> QED BY <2>1, <2>6, <3>4 DEF IsMmio
  <2> QED BY <1>4, <2>2, <2>3, <2>4, <2>5, <2>6 DEF Lookup
<1>5. ASSUME NEW p \in Procs, Iounmap(p) PROVE WindowInv'
  BY <1>5 DEF Iounmap, IsMmio
<1>6. ASSUME NEW p \in Procs, Ioremap(p) PROVE WindowInv'
  BY <1>6, <1>w, DriverAssumption DEF Ioremap, IsMmio
<1>7. ASSUME NEW p \in Procs, SetStart(p) PROVE WindowInv'
  BY <1>7, <1>w DEF SetStart, IsMmio
<1>8. ASSUME NEW p \in Procs, SpinLock(p) PROVE WindowInv'
  BY <1>8 DEF SpinLock, FirstAccess
<1>9. ASSUME NEW p \in Procs, SaveIdx(p) PROVE WindowInv'
  BY <1>9 DEF SaveIdx
<1>10. ASSUME NEW p \in Procs, WriteIdx(p) PROVE WindowInv'
  BY <1>10 DEF WriteIdx, FirstAccess
<1>11. ASSUME NEW p \in Procs, Oops(p) PROVE WindowInv'
  BY <1>11, <1>w DEF Oops, BadPointer, IsMmio
<1>12. ASSUME NEW p \in Procs, ReadDword(p) PROVE WindowInv'
  BY <1>12 DEF ReadDword, AfterAccess
<1>13. ASSUME NEW p \in Procs, ReadMass(p) PROVE WindowInv'
  BY <1>13 DEF ReadMass, AfterAccess
<1>14. ASSUME NEW p \in Procs, WriteDword(p) PROVE WindowInv'
  BY <1>14 DEF WriteDword, AfterAccess
<1>15. ASSUME NEW p \in Procs, RestoreIdx(p) PROVE WindowInv'
  BY <1>15 DEF RestoreIdx
<1>16. ASSUME NEW p \in Procs, SpinUnlock(p) PROVE WindowInv'
  BY <1>16 DEF SpinUnlock
<1>17. ASSUME NEW p \in Procs, Return(p) PROVE WindowInv'
  BY <1>17 DEF Return
<1>18. CASE UNCHANGED vars BY <1>18 DEF vars
<1> QED BY <1>1, <1>2, <1>3, <1>4, <1>5, <1>6, <1>7, <1>8, <1>9, <1>10, <1>11,
           <1>12, <1>13, <1>14, <1>15, <1>16, <1>17, <1>18 DEF Next, Step

\* What a request does tells what it is, however many use MMIO.
LEMMA LabelStep ==
    ASSUME TypeOK, WindowLabels, [Next]_vars
    PROVE  WindowLabels'
<1> USE DEF TypeOK, WindowLabels, goto, hw, cache, lock, stack
<1>1. CASE SpinLockInit \/ Reload BY <1>1 DEF SpinLockInit, Reload
<1>2. ASSUME NEW p \in Procs, Ioctl(p) PROVE WindowLabels'
  BY <1>2 DEF Ioctl
<1>3. ASSUME NEW p \in Procs, Lookup(p) PROVE WindowLabels'
  BY <1>3 DEF Lookup
<1>4. ASSUME NEW p \in Procs, Iounmap(p) \/ Ioremap(p) \/ SetStart(p) PROVE WindowLabels'
  BY <1>4 DEF Iounmap, Ioremap, SetStart
<1>5. ASSUME NEW p \in Procs, SpinLock(p) \/ SaveIdx(p) \/ WriteIdx(p) PROVE WindowLabels'
  BY <1>5 DEF SpinLock, SaveIdx, WriteIdx, FirstAccess
<1>6. ASSUME NEW p \in Procs, Oops(p) PROVE WindowLabels'
  BY <1>6 DEF Oops, BadPointer
<1>7. ASSUME NEW p \in Procs, ReadDword(p) \/ ReadMass(p) \/ WriteDword(p)
      PROVE  WindowLabels'
  BY <1>7 DEF ReadDword, ReadMass, WriteDword, AfterAccess
<1>8. ASSUME NEW p \in Procs, RestoreIdx(p) \/ SpinUnlock(p) \/ Return(p)
      PROVE  WindowLabels'
  BY <1>8 DEF RestoreIdx, SpinUnlock, Return
<1>9. CASE UNCHANGED vars BY <1>9 DEF vars
<1> QED BY <1>1, <1>2, <1>3, <1>4, <1>5, <1>6, <1>7, <1>8, <1>9 DEF Next, Step

-----------------------------------------------------------------------------
\* The invariant of the data a request has read.

\* A request starts with an empty buffer.
FreshStack ==
    \A p \in Procs :
        pc[p] \in {"map", "iounmap", "ioremap", "setstart", "lock", "save"} =>
            i[p] = 0 /\ temp[p] = RejectedTemp

\* CF8 addresses the registers of the turn that runs.
Addressed ==
    \A p \in Procs :
        pc[p] \in {"read", "write"} /\ Indexed(call[p]) =>
            cf8 = PortAddress(call[p], i[p])

\* The double words of a 256 byte read that have been read.
MassSoFar ==
    \A p \in Procs :
        pc[p] \in {"addr", "read"} /\ call[p].op = "mass" /\ Sure(call[p]) =>
            \A s \in Slots : s < i[p] => temp[p][s] = cfg[call[p].dev][call[p].reg + s]

\* What a write will write back is what the registers still hold.
ReadBeforeWrite ==
    \A p \in Procs :
        pc[p] = "write" =>
            /\ call[p].op = "write"
            /\ call[p].width # 4 /\ call[p].phy_base # "cfc" /\ Sure(call[p]) =>
                  \A l \in Lanes :
                      temp[p][l] = DwordAt(cfg, PortAddress(call[p], i[p]))[l]

\* As ReturnsOwnRegisters, from the last access on.
ReadOwn ==
    \A p \in Procs :
        pc[p] \in {"restore", "unlock"} /\ call[p].op # "write" /\ Sure(call[p]) =>
            \A k \in DOMAIN Returned(call[p], temp[p]) :
                Returned(call[p], temp[p])[k] = cfg[call[p].dev][call[p].reg + k]

DataInv == FreshStack /\ Addressed /\ MassSoFar /\ ReadBeforeWrite /\ ReadOwn

RequestInv == PortInv /\ WindowLabels /\ (OneMmioProc => WindowInv) /\ DataInv

\* A request that has a good pointer lands on the registers it names.
LEMMA TargetNamed ==
    ASSUME PortInv, OneMmioProc => WindowInv, Addressed, NEW p \in Procs,
           pc[p] \in {"read", "write"}, ~BadPointer(p), Sure(call[p])
    PROVE  Target(p) = PortAddress(call[p], i[p])
<1>1. call[p] \in Calls /\ i[p] \in Slots BY DEF PortInv, TypeOK
<1>2. call[p].phy_base \in {"none", "ecam", "low", "cfc"}
  BY <1>1, CallType DEF lfdd_pcix_t
<1>3. CASE IsMmio(call[p])
  <2>1. phy2virt_mem # NULL
    BY <1>3, DriverAssumption DEF BadPointer
  <2>2. vmap[phy2virt_mem] = WindowOf(call[p])
    BY <1>3, <2>1 DEF WindowInv, OwnWindow, Critical, Sure
  <2>3. WindowOf(call[p]).dev = PortAddress(call[p], i[p]).dev
    BY DEF WindowOf, PortAddress
  <2>4. WindowOf(call[p]).reg + WindowOffset(call[p], i[p]) = PortAddress(call[p], i[p]).reg
    BY <1>1, WindowFacts
  <2>5. PortAddress(call[p], i[p]) =
          [dev |-> PortAddress(call[p], i[p]).dev, reg |-> PortAddress(call[p], i[p]).reg]
    BY DEF PortAddress
  <2> QED BY <1>3, <2>2, <2>3, <2>4, <2>5 DEF Target
<1>4. CASE Indexed(call[p])
  BY <1>4 DEF Addressed, Target, Indexed, IsMmio
<1>5. CASE call[p].phy_base = "cfc"
  <2>1. cf8 = KernelIdx
    BY <1>5 DEF PortInv, PortSaved, Critical, Indexed
  <2>2. /\ call[p].op # "mass" /\ call[p].dev = KernelIdx.dev
        /\ call[p].reg - (call[p].reg % 4) = KernelIdx.reg
    BY <1>1, <1>5, CallAssumption DEF WellFormed
  <2>3. PortAddress(call[p], i[p]) = [dev |-> KernelIdx.dev, reg |-> KernelIdx.reg]
    BY <2>2 DEF PortAddress
  <2>4. KernelIdx = [dev |-> KernelIdx.dev, reg |-> KernelIdx.reg]
    BY DriverAssumption DEF Address
  <2> QED BY <1>5, <2>1, <2>3, <2>4 DEF Target, IsMmio
<1> QED BY <1>2, <1>3, <1>4, <1>5 DEF IsMmio, Indexed

\* After its last access a request has what it will return.
LEMMA LastReadNamed ==
    ASSUME PortInv, OneMmioProc => WindowInv, WindowLabels, DataInv,
           NEW p \in Procs, pc[p] = "read", call[p].op # "write", Sure(call[p]),
           ReadDword(p) \/ (ReadMass(p) /\ pc'[p] # "addr" /\ pc'[p] # "read")
    PROVE  \A k \in DOMAIN Returned(call[p], temp'[p]) :
               Returned(call[p], temp'[p])[k] = cfg[call[p].dev][call[p].reg + k]
<1> DEFINE c == call[p]
           v == DwordAt(cfg, PortAddress(c, i[p]))
<1>1. /\ c \in Calls /\ i[p] \in Slots /\ i[p] % 4 = 0 /\ temp \in [Procs -> MassBuf]
      /\ cfg \in [Devs -> [Regs -> Bytes]] /\ pc \in [Procs -> Labels]
  BY DEF PortInv, TypeOK
<1>2. Lanes \subseteq Slots BY SizeAssumption DEF Lanes, Slots
<1>3. ~Rejected(c) BY DEF WindowLabels
<1>4. CASE ReadDword(p)
  <2>1. Target(p) = PortAddress(c, i[p]) /\ c.op # "mass"
    BY <1>4, TargetNamed DEF DataInv, ReadDword
  <2>2. c.op = "read" BY <1>1, <2>1, CallType
  <2>3. \A l \in Lanes : temp'[p][l] = v[l]
    BY <1>1, <1>2, <1>4, <2>1 DEF ReadDword
  <2>4. Returned(c, temp'[p]) = Extract(c, temp'[p]) BY <1>3, <2>2 DEF Returned
  <2>5. DOMAIN Extract(c, temp'[p]) = 0 .. c.width - 1 BY DEF Extract
  <2>6. ASSUME NEW k \in 0 .. c.width - 1
        PROVE  Extract(c, temp'[p])[k] = cfg[c.dev][c.reg + k]
    <3> HIDE DEF c
    <3> QED BY <1>1, <2>2, <2>3, ExtractNamed DEF v
  <2> QED BY <2>4, <2>5, <2>6
<1>5. CASE ReadMass(p) /\ pc'[p] # "addr" /\ pc'[p] # "read"
  <2>1. Target(p) = PortAddress(c, i[p]) /\ c.op = "mass"
    BY <1>5, TargetNamed DEF DataInv, ReadMass
  <2>2. i[p] + 4 >= MAP_SIZE
    BY <1>1, <1>5, SizeAssumption DEF ReadMass, goto, Slots
  <2>3. temp'[p] = [s \in Slots |-> IF s - i[p] \in Lanes THEN v[s - i[p]] ELSE temp[p][s]]
    BY <1>1, <1>5, <2>1 DEF ReadMass
  <2>4. ASSUME NEW s \in Slots PROVE temp'[p][s] = cfg[c.dev][c.reg + s]
    <3>1. CASE s < i[p]
      <4>1. s - i[p] \notin Lanes BY <1>1, <3>1, SizeAssumption DEF Slots, Lanes
      <4> QED BY <2>1, <2>3, <3>1, <4>1 DEF DataInv, MassSoFar
    <3>2. CASE s >= i[p]
      <4>1. s - i[p] \in Lanes
        <5> DEFINE k == i[p]
        <5>1. k \in Nat /\ s \in Nat /\ s < MAP_SIZE /\ MAP_SIZE \in Nat
          BY <1>1, SizeAssumption DEF Slots
        <5>2. k + 4 >= MAP_SIZE /\ s >= k BY <2>2, <3>2
        <5> HIDE DEF k
        <5> QED BY <5>1, <5>2 DEF Lanes, k
      <4>2. v[s - i[p]] = cfg[c.dev][PortAddress(c, i[p]).reg + (s - i[p])]
        <5> HIDE DEF c
        <5> QED BY <1>1, <4>1, DwordNamed DEF v
      <4>3. PortAddress(c, i[p]).reg + (s - i[p]) = c.reg + s
        <5>1. c.reg \in Nat /\ s \in Nat /\ i[p] \in Nat
          BY <1>1, CallType, SizeAssumption DEF Slots
        <5> QED BY <2>1, <5>1 DEF PortAddress
      <4> QED BY <2>3, <4>1, <4>2, <4>3
    <3> QED BY <1>1, <3>1, <3>2, SizeAssumption DEF Slots
  <2>5. Returned(c, temp'[p]) = temp'[p] BY <2>1 DEF Returned
  <2>6. DOMAIN temp'[p] = Slots BY <2>3
  <2> QED BY <2>4, <2>5, <2>6
<1> QED BY <1>4, <1>5

\* Every step keeps what the requests have read.
LEMMA DataStep ==
    ASSUME PortInv, OneMmioProc => WindowInv, WindowLabels, DataInv, [Next]_vars
    PROVE  DataInv'
<1>t. /\ TypeOK /\ call \in [Procs -> Calls] /\ i \in [Procs -> Slots]
      /\ temp \in [Procs -> MassBuf] /\ pc \in [Procs -> Labels]
      /\ cfg \in [Devs -> [Regs -> Bytes]]
      /\ \A p \in Procs : i[p] \in Nat /\ i[p] % 4 = 0
  BY SizeAssumption DEF PortInv, TypeOK, Slots
<1>0. Slots \subseteq Nat /\ Lanes \subseteq Slots /\ 0 \in Slots
  BY SizeAssumption DEF Slots, Lanes
<1>x. \A p, q \in Procs : pc[p] \in Critical /\ pc[q] \in Critical => p = q
  BY DEF PortInv, MutualExclusion
<1> USE DEF DataInv, FreshStack, Addressed, MassSoFar, ReadBeforeWrite, ReadOwn,
            goto, hw, cache, lock, stack
<1>1. CASE SpinLockInit \/ Reload BY <1>1 DEF SpinLockInit, Reload
<1>2. ASSUME NEW p \in Procs, Ioctl(p) PROVE DataInv'
  BY <1>2, <1>t DEF Ioctl
<1>3. ASSUME NEW p \in Procs, Lookup(p) PROVE DataInv'
  BY <1>3, <1>t DEF Lookup
<1>4. ASSUME NEW p \in Procs, Iounmap(p) PROVE DataInv'
  BY <1>4, <1>t DEF Iounmap
<1>5. ASSUME NEW p \in Procs, Ioremap(p) PROVE DataInv'
  BY <1>5, <1>t DEF Ioremap
<1>6. ASSUME NEW p \in Procs, SetStart(p) PROVE DataInv'
  BY <1>6, <1>t DEF SetStart
<1>7. ASSUME NEW p \in Procs, SpinLock(p) PROVE DataInv'
  BY <1>7, <1>t, <1>0 DEF SpinLock, FirstAccess, Indexed
<1>8. ASSUME NEW p \in Procs, SaveIdx(p) PROVE DataInv'
  BY <1>8, <1>t, <1>0 DEF SaveIdx
<1>9. ASSUME NEW p \in Procs, WriteIdx(p) PROVE DataInv'
  BY <1>9, <1>t, <1>x DEF WriteIdx, FirstAccess, Indexed, Critical
<1>10. ASSUME NEW p \in Procs, Oops(p) PROVE DataInv'
  BY <1>10, <1>t DEF Oops
<1>11. ASSUME NEW p \in Procs, ReadDword(p) PROVE DataInv'
  <2>1. Sure(call[p]) => Target(p) = PortAddress(call[p], i[p])
    BY <1>11, TargetNamed DEF ReadDword
  <2>2. Sure(call[p]) => \A l \in Lanes : temp'[p][l] = DwordAt(cfg, PortAddress(call[p], i[p]))[l]
    BY <1>11, <1>t, <1>0, <2>1 DEF ReadDword
  <2>3. call[p].op # "write" /\ Sure(call[p]) =>
          \A k \in DOMAIN Returned(call[p], temp'[p]) :
              Returned(call[p], temp'[p])[k] = cfg[call[p].dev][call[p].reg + k]
    BY <1>11, LastReadNamed DEF ReadDword
  <2>4. /\ UNCHANGED <<cfg, cf8, call, i>>
        /\ \A q \in Procs : q # p => pc'[q] = pc[q] /\ temp'[q] = temp[q]
        /\ call[p].op # "mass"
        /\ pc'[p] = IF call[p].op = "write" THEN "write" ELSE AfterAccess(call[p])
    BY <1>11, <1>t DEF ReadDword
  <2>5. pc[p] = "read" BY <1>11 DEF ReadDword
  <2>6. FreshStack' /\ Addressed' /\ MassSoFar'
    BY <1>t, <2>4, <2>5 DEF AfterAccess
  <2>7. ReadBeforeWrite'
    BY <1>t, <2>2, <2>4, <2>5 DEF AfterAccess
  <2>8. ReadOwn'
    BY <1>t, <2>3, <2>4, <2>5 DEF AfterAccess
  <2> QED BY <2>6, <2>7, <2>8
<1>12. ASSUME NEW p \in Procs, ReadMass(p) PROVE DataInv'
  <2>1. /\ call[p].op = "mass" /\ pc[p] = "read"
        /\ Sure(call[p]) => Target(p) = PortAddress(call[p], i[p])
    BY <1>12, TargetNamed DEF ReadMass
  <2>2. /\ UNCHANGED <<cfg, cf8, call>>
        /\ \A q \in Procs : q # p => pc'[q] = pc[q] /\ temp'[q] = temp[q] /\ i'[q] = i[q]
    BY <1>12, <1>t DEF ReadMass
  <2>3. CASE i[p] + 4 < MAP_SIZE
    <3> DEFINE c == call[p]
               v == DwordAt(cfg, PortAddress(c, i[p]))
    <3>1. i'[p] = i[p] + 4 /\ pc'[p] = IF Indexed(c) THEN "addr" ELSE "read"
      BY <1>12, <1>t, <2>3 DEF ReadMass
    <3>2. Sure(c) =>
            temp'[p] = [s \in Slots |-> IF s - i[p] \in Lanes THEN v[s - i[p]] ELSE temp[p][s]]
      BY <1>12, <1>t, <2>1 DEF ReadMass
    <3>3. ASSUME Sure(c), NEW s \in Slots, s < i[p] + 4
          PROVE  temp'[p][s] = cfg[c.dev][c.reg + s]
      <4>1. s \in Nat /\ i[p] \in Nat /\ c \in Calls /\ c.reg \in Nat
        BY <1>0, <1>t, CallType
      <4>2. CASE s < i[p]
        <5>1. s - i[p] \notin Lanes BY <4>1, <4>2 DEF Lanes
        <5> QED BY <2>1, <3>2, <3>3, <4>2, <5>1
      <4>3. CASE s >= i[p]
        <5>1. s - i[p] \in Lanes BY <3>3, <4>1, <4>3 DEF Lanes
        <5>2. v[s - i[p]] = cfg[c.dev][PortAddress(c, i[p]).reg + (s - i[p])]
          <6>1. i[p] \in Slots /\ i[p] % 4 = 0 /\ cfg \in [Devs -> [Regs -> Bytes]]
            BY <1>t
          <6> HIDE DEF c
          <6> QED BY <4>1, <5>1, <6>1, DwordNamed DEF v
        <5>3. PortAddress(c, i[p]).reg + (s - i[p]) = c.reg + s
          BY <2>1, <4>1 DEF PortAddress
        <5> QED BY <3>2, <3>3, <5>1, <5>2, <5>3
      <4> QED BY <4>1, <4>2, <4>3
    <3>4. \A q \in Procs : q # p => pc[q] \notin Critical
      BY <1>x, <2>1 DEF Critical
    <3> HIDE DEF v
    <3>5. call' = call /\ pc'[p] \in {"addr", "read"} /\ i'[p] = i[p] + 4
      BY <2>2, <3>1
    <3> HIDE DEF c
    <3>6. FreshStack' BY <1>t, <2>2, <3>5
    <3>7. Addressed'
      BY <1>t, <2>1, <2>2, <3>1, <3>4, <3>5 DEF Indexed, Critical, c
    <3>8. MassSoFar'
      <4>1. Sure(c) => \A s \in Slots : s < i[p] + 4 =>
                          temp'[p][s] = cfg[c.dev][c.reg + s]
        BY <3>3
      <4>2. \A q \in Procs : q # p =>
              (pc'[q] \in {"addr", "read"} /\ call'[q].op = "mass" /\ Sure(call'[q]) =>
                 \A s \in Slots : s < i'[q] =>
                    temp'[q][s] = cfg'[call'[q].dev][call'[q].reg + s])
        BY <2>2, <3>5
      <4>3. Sure(call'[p]) =>
              \A s \in Slots : s < i'[p] =>
                 temp'[p][s] = cfg'[call'[p].dev][call'[p].reg + s]
        BY <2>2, <3>5, <4>1 DEF c
      <4> QED BY <4>2, <4>3
    <3>9. ReadBeforeWrite' BY <1>t, <2>2, <3>5
    <3>10. ReadOwn' BY <1>t, <2>2, <3>5
    <3> QED BY <3>6, <3>7, <3>8, <3>9, <3>10
  <2>4. CASE ~(i[p] + 4 < MAP_SIZE)
    <3>1. pc'[p] = AfterAccess(call[p]) /\ i'[p] = i[p]
      BY <1>12, <1>t, <2>4 DEF ReadMass
    <3>2. Sure(call[p]) => \A k \in DOMAIN Returned(call[p], temp'[p]) :
            Returned(call[p], temp'[p])[k] = cfg[call[p].dev][call[p].reg + k]
      BY <1>12, <2>1, <3>1, LastReadNamed DEF AfterAccess
    <3> QED BY <1>t, <2>2, <3>1, <3>2 DEF AfterAccess
  <2> QED BY <2>3, <2>4
<1>13. ASSUME NEW p \in Procs, WriteDword(p) PROVE DataInv'
  <2>1. \A q \in Procs : q # p => pc[q] \notin Critical
    BY <1>13, <1>x DEF Critical, WriteDword
  <2>2. call[p].op = "write" BY <1>13 DEF WriteDword
  <2> QED BY <1>13, <1>t, <2>1, <2>2 DEF WriteDword, AfterAccess, Critical
<1>14. ASSUME NEW p \in Procs, RestoreIdx(p) PROVE DataInv'
  BY <1>14, <1>t, <1>x DEF RestoreIdx, Critical
<1>15. ASSUME NEW p \in Procs, SpinUnlock(p) PROVE DataInv'
  BY <1>15, <1>t DEF SpinUnlock
<1>16. ASSUME NEW p \in Procs, Return(p) PROVE DataInv'
  BY <1>16, <1>t DEF Return
<1>17. CASE UNCHANGED vars BY <1>17 DEF vars
<1> QED BY <1>1, <1>2, <1>3, <1>4, <1>5, <1>6, <1>7, <1>8, <1>9, <1>10, <1>11,
           <1>12, <1>13, <1>14, <1>15, <1>16, <1>17 DEF Next, Step

\* The driver is loaded with no window and no request.
LEMMA InitRequests == Init => PortInv /\ WindowInv /\ DataInv
<1> SUFFICES ASSUME Init PROVE PortInv /\ WindowInv /\ DataInv OBVIOUS
<1>1. PortInv BY InitPort
<1>2. WindowInv
  BY DEF Init, WindowInv, MmioCallers, WindowLabels, CacheCoherent, NoneMapped,
         OwnWindow, NoMappingLeak, FaultOnlyAfterFailedIoremap, Critical
<1>3. DataInv
  BY DEF Init, DataInv, FreshStack, Addressed, MassSoFar, ReadBeforeWrite, ReadOwn
<1> QED BY <1>1, <1>2, <1>3

\* With one process using MMIO the replacement of the cached window gives every
\* window back to iounmap, however the other requests, unloading and a failing
\* ioremap come in between (the phy2virt_mem paths of lfdd/libpci_x86.c).
THEOREM WindowsGivenBack ==
    ASSUME OneMmioProc
    PROVE  Spec => []NoMappingLeak
<1>1. Init => TypeOK /\ WindowInv BY InitType, InitRequests
<1>2. TypeOK /\ WindowInv /\ [Next]_vars => (TypeOK /\ WindowInv)'
  BY TypeStep, WindowStep
<1>3. TypeOK /\ WindowInv => NoMappingLeak BY DEF WindowInv
<1> QED BY <1>1, <1>2, <1>3, PTL DEF Spec

\* With one process using MMIO the driver never faults through a window that
\* was taken away after it was looked up: only the null pointer of a failed
\* ioremap, which no code tests, is left to fault on (lfdd/libpci_x86.c).
THEOREM FaultsOnlyOnNull ==
    ASSUME OneMmioProc
    PROVE  Spec => []FaultOnlyAfterFailedIoremap
<1>1. Init => TypeOK /\ WindowInv BY InitType, InitRequests
<1>2. TypeOK /\ WindowInv /\ [Next]_vars => (TypeOK /\ WindowInv)'
  BY TypeStep, WindowStep
<1>3. TypeOK /\ WindowInv => FaultOnlyAfterFailedIoremap BY DEF WindowInv
<1> QED BY <1>1, <1>2, <1>3, PTL DEF Spec

\* The port, the window and the data discipline together are inductive.
LEMMA RequestStep ==
    ASSUME ~EarlyCalls
    PROVE  RequestInv /\ [Next]_vars => RequestInv'
<1> SUFFICES ASSUME RequestInv, [Next]_vars PROVE RequestInv' OBVIOUS
<1>1. PortInv /\ WindowLabels /\ (OneMmioProc => WindowInv) /\ DataInv BY DEF RequestInv
<1>2. PortInv' BY <1>1, PortStep
<1>3. WindowLabels' BY <1>1, LabelStep DEF PortInv
<1>4. OneMmioProc => WindowInv' BY <1>1, WindowStep DEF PortInv
<1>5. DataInv' BY <1>1, DataStep
<1> QED BY <1>2, <1>3, <1>4, <1>5 DEF RequestInv, OneMmioProc

\* A request that leaves the critical section has read the registers it named
\* and no others: no request, of any number of processes and by any of the
\* three paths, changes what another one is given (lfdd/libpci_x86.c, libio.c).
THEOREM ReadsAreOwn ==
    ASSUME ~EarlyCalls, OneMmioProc
    PROVE  Spec => []ReturnsOwnRegisters
<1>1. Init => RequestInv BY InitRequests DEF RequestInv, WindowInv
<1>2. RequestInv /\ [Next]_vars => RequestInv' BY RequestStep
<1>3. RequestInv => ReturnsOwnRegisters
  BY DEF RequestInv, DataInv, ReadOwn, ReturnsOwnRegisters, Sure
<1> QED BY <1>1, <1>2, <1>3, PTL DEF Spec

\* ReturnsOwnRegisters for the requests that go through the ports.
PortsReturnOwnRegisters ==
    \A p \in Procs :
        pc[p] = "unlock" /\ call[p].op # "write" /\ ~IsMmio(call[p]) =>
            \A k \in DOMAIN Returned(call[p], temp[p]) :
                Returned(call[p], temp[p])[k] = cfg[call[p].dev][call[p].reg + k]

\* What the race for the cached window spoils is not what is read through the
\* ports: lfdd_lock is enough for them, however many processes use MMIO at once
\* (the port paths of lfdd/libpci_x86.c, libio.c).
THEOREM PortReadsAreOwn ==
    ASSUME ~EarlyCalls
    PROVE  Spec => []PortsReturnOwnRegisters
<1>1. Init => RequestInv BY InitRequests DEF RequestInv, WindowInv
<1>2. RequestInv /\ [Next]_vars => RequestInv' BY RequestStep
<1>3. RequestInv => PortsReturnOwnRegisters
  BY DEF RequestInv, DataInv, ReadOwn, PortsReturnOwnRegisters, Sure
<1> QED BY <1>1, <1>2, <1>3, PTL DEF Spec

-----------------------------------------------------------------------------
\* The driver implements ConfigSpace.

\* Storing a request's merged double word stores the bytes it names and leaves
\* every other as it was.
LEMMA StoreNamed ==
    ASSUME NEW m \in [Devs -> [Regs -> Bytes]],
           NEW c \in Calls, c.op = "write", ~Rejected(c),
           NEW k \in Slots, k % 4 = 0,
           NEW old, c.width # 4 =>
               \A l \in Lanes : old[l] = DwordAt(m, PortAddress(c, k))[l]
    PROVE  StoreDword(m, PortAddress(c, k), Merge(c, old)) = CS!Store(m, c)
<1> DEFINE a == PortAddress(c, k)
           r == c.reg % 4
           new == [n \in Regs |-> IF n \in c.reg .. c.reg + c.width - 1
                                  THEN c.buf[n - c.reg] ELSE m[c.dev][n]]
<1>1. c.reg \in Nat /\ c.width \in {1, 2, 4} /\ c.dev \in Devs BY CallType
<1>2. r \in 0 .. 3 /\ r <= c.reg BY <1>1
<1>3. WriteLane(c) = r /\ r + c.width <= 4 BY WriteFits
<1>4. a.dev = c.dev /\ a.reg = c.reg - r BY DEF PortAddress
<1> HIDE DEF r
<1>5. ASSUME NEW n \in Regs
      PROVE  (IF n - a.reg \in Lanes THEN Merge(c, old)[n - a.reg] ELSE m[c.dev][n]) = new[n]
  <2>1. n \in Nat BY SizeAssumption DEF Regs
  <2>2. CASE n - a.reg \notin Lanes
    <3>1. n \notin c.reg .. c.reg + c.width - 1
      BY <1>1, <1>2, <1>3, <1>4, <2>1, <2>2 DEF Lanes
    <3> QED BY <2>2, <3>1
  <2>3. CASE n - a.reg \in Lanes
    <3>1. Merge(c, old)[n - a.reg] =
            IF (n - a.reg) - r \in 0 .. c.width - 1
            THEN c.buf[(n - a.reg) - r] ELSE old[n - a.reg]
      BY <1>3, <2>3 DEF Merge
    <3>2. (n - a.reg) - r = n - c.reg BY <1>1, <1>2, <1>4, <2>1
    <3>3. CASE n \in c.reg .. c.reg + c.width - 1
      <4>1. n - c.reg \in 0 .. c.width - 1 BY <1>1, <2>1, <3>3
      <4> QED BY <2>3, <3>1, <3>2, <3>3, <4>1
    <3>4. CASE n \notin c.reg .. c.reg + c.width - 1
      <4>1. n - c.reg \notin 0 .. c.width - 1 BY <1>1, <2>1, <3>4
      <4>2. c.width # 4
        BY <1>1, <1>2, <1>3, <1>4, <2>1, <2>3, <3>4 DEF Lanes
      <4>3. old[n - a.reg] = m[c.dev][a.reg + (n - a.reg)]
        BY <2>3, <4>2, <1>4, DwordNamed
      <4>4. a.reg + (n - a.reg) = n BY <1>1, <1>2, <1>4, <2>1
      <4> QED BY <2>3, <3>1, <3>2, <3>4, <4>1, <4>3, <4>4
    <3> QED BY <3>3, <3>4
  <2> QED BY <2>2, <2>3
<1>6. StoreDword(m, a, Merge(c, old)) = [m EXCEPT ![c.dev] = new]
  <2> DEFINE put == [n \in Regs |-> IF n - a.reg \in Lanes
                                    THEN Merge(c, old)[n - a.reg] ELSE m[c.dev][n]]
  <2>1. StoreDword(m, a, Merge(c, old)) = [m EXCEPT ![c.dev] = put]
    BY <1>1, <1>4 DEF StoreDword
  <2>2. put = new BY <1>5
  <2> QED BY <2>1, <2>2
<1>7. CS!Store(m, c) = [m EXCEPT ![c.dev] = new]
  BY <1>1 DEF CS!Store, CS!Rejected, CS!Regs, Regs, Rejected
<1> QED BY <1>6, <1>7

\* A step that neither makes, finishes nor ends a request is a stutter.
LEMMA Stutter ==
    ASSUME UNCHANGED <<cfg, call>>,
           \A q \in Procs : /\ pc'[q] = "idle" <=> pc[q] = "idle"
                            /\ pc'[q] \in {"restore", "unlock", "return"}
                                  <=> pc[q] \in {"restore", "unlock", "return"}
                            /\ pc[q] \in {"restore", "unlock", "return"}
                                  => temp'[q] = temp[q]
    PROVE  UNCHANGED CS!vars
<1>1. UNCHANGED stBar BY DEF stBar, Done
<1>2. UNCHANGED rspBar BY DEF rspBar, Done
<1> QED BY <1>1, <1>2 DEF CS!vars

\* A step that brings a request to its end, with the right answer and the
\* right store, is the instant at which it takes effect.
LEMMA TakesEffect ==
    ASSUME NEW p \in Procs, UNCHANGED call,
           pc[p] \notin {"idle", "restore", "unlock", "return"},
           pc'[p] \in {"restore", "unlock", "return"},
           \A q \in Procs : q # p => pc'[q] = pc[q] /\ temp'[q] = temp[q],
           cfg' = CS!Store(cfg, call[p]),
           Returned(call[p], temp'[p]) = CS!Load(cfg, call[p])
    PROVE  CS!Apply(p)
<1>1. stBar[p] = "pending" /\ stBar' = [stBar EXCEPT ![p] = "done"]
  BY DEF stBar, Done
<1>2. rspBar' = [rspBar EXCEPT ![p] = CS!Load(cfg, call[p])]
  BY DEF rspBar, Done
<1> QED BY <1>1, <1>2 DEF CS!Apply

\* What a request that was not refused returns after its last access.
LEMMA LoadNamed ==
    ASSUME NEW c \in Calls, ~Rejected(c), c.op # "write", NEW v \in MassBuf,
           \A k \in DOMAIN Returned(c, v) : Returned(c, v)[k] = cfg[c.dev][c.reg + k]
    PROVE  Returned(c, v) = CS!Load(cfg, c)
<1>1. CASE c.op = "read"
  <2>1. Returned(c, v) = Extract(c, v) BY <1>1 DEF Returned
  <2>2. Extract(c, v) = [k \in 0 .. c.width - 1 |-> cfg[c.dev][c.reg + k]]
    BY <2>1 DEF Extract
  <2>3. CS!Load(cfg, c) = [k \in 0 .. c.width - 1 |-> cfg[c.dev][c.reg + k]]
    BY <1>1 DEF CS!Load, CS!Rejected, Rejected
  <2> QED BY <2>1, <2>2, <2>3
<1>2. CASE c.op = "mass"
  <2>1. Returned(c, v) = v BY <1>2 DEF Returned
  <2>2. v = [k \in Slots |-> cfg[c.dev][c.reg + k]]
    BY <2>1 DEF MassBuf
  <2>3. CS!Load(cfg, c) = [k \in Slots |-> cfg[c.dev][c.reg + k]]
    BY <1>2 DEF CS!Load, CS!Rejected, Rejected, CS!Slots, Slots
  <2> QED BY <2>1, <2>2, <2>3
<1> QED BY <1>1, <1>2, CallType

\* So is a request's beginning, and what belongs to no request is a stutter.
LEMMA ConfigBegin ==
    ASSUME TypeOK
    PROVE  /\ SpinLockInit \/ Reload \/ UNCHANGED vars => UNCHANGED CS!vars
           /\ \A p \in Procs : Ioctl(p) => CS!Begin(p)
<1>t. call \in [Procs -> Calls] /\ pc \in [Procs -> Labels] BY DEF TypeOK
<1> USE DEF goto, hw, cache, lock, stack
<1>1. ASSUME SpinLockInit \/ Reload \/ UNCHANGED vars PROVE UNCHANGED CS!vars
  <2>1. cfg' = cfg /\ call' = call /\ pc' = pc /\ temp' = temp
    BY <1>1 DEF SpinLockInit, Reload, vars
  <2>2. stBar' = stBar BY <2>1 DEF stBar, Done
  <2>3. rspBar' = rspBar BY <2>1 DEF rspBar, Done, Returned
  <2> QED BY <2>1, <2>2, <2>3 DEF CS!vars
<1>2. ASSUME NEW p \in Procs, Ioctl(p) PROVE CS!Begin(p)
  <2>1. stBar[p] = "idle" /\ stBar' = [stBar EXCEPT ![p] = "pending"]
    BY <1>2, <1>t DEF Ioctl, stBar, Done
  <2>2. UNCHANGED rspBar BY <1>2, <1>t DEF Ioctl, rspBar, Done
  <2> QED BY <1>2, <2>1, <2>2 DEF Ioctl, CS!Begin
<1> QED BY <1>1, <1>2

\* A step of a request that is sure to land where it should is a step of
\* ConfigSpace or a stutter.
LEMMA ConfigStep ==
    ASSUME RequestInv, NEW p \in Procs, Step(p), Sure(call[p]), [Next]_vars
    PROVE  CS!Apply(p) \/ CS!End(p) \/ UNCHANGED CS!vars
<1>0. PortInv /\ WindowLabels /\ (OneMmioProc => WindowInv) /\ DataInv BY DEF RequestInv
<1>t. /\ TypeOK /\ call \in [Procs -> Calls] /\ i \in [Procs -> Slots]
      /\ temp \in [Procs -> MassBuf] /\ pc \in [Procs -> Labels]
      /\ cfg \in [Devs -> [Regs -> Bytes]]
      /\ \A q \in Procs : i[q] % 4 = 0
  BY <1>0 DEF PortInv, TypeOK
<1> USE DEF goto, hw, cache, lock, stack
<1>1. CASE Lookup(p)
  <2>1. UNCHANGED <<cfg, call, temp>> /\ pc[p] = "map"
        /\ \A q \in Procs : q # p => pc'[q] = pc[q]
    BY <1>1, <1>t DEF Lookup
  <2>2. CASE Rejected(call[p])
    <3>1. pc'[p] = "return" BY <1>1, <1>t, <2>2 DEF Lookup
    <3>2. temp'[p] = RejectedTemp BY <1>0, <2>1 DEF DataInv, FreshStack
    <3>3. cfg' = CS!Store(cfg, call[p])
      BY <2>1, <2>2 DEF CS!Store, CS!Rejected, Rejected
    <3>4. Returned(call[p], temp'[p]) = CS!Load(cfg, call[p])
      BY <2>2, <3>2 DEF Returned, RejectedTemp, CS!Load, CS!Rejected, Rejected,
                        CS!Slots, Slots, CS!NoRsp
    <3>5. CS!Apply(p) BY <2>1, <3>1, <3>3, <3>4, TakesEffect
    <3> QED BY <3>5
  <2>3. CASE ~Rejected(call[p])
    <3>1. pc'[p] \in {"lock", "iounmap", "ioremap"} BY <1>1, <1>t, <2>3 DEF Lookup
    <3>2. UNCHANGED CS!vars BY <2>1, <3>1, Stutter
    <3> QED BY <3>2
  <2> QED BY <2>2, <2>3
<1>2. CASE Iounmap(p) \/ Ioremap(p) \/ SetStart(p) \/ SpinLock(p)
             \/ SaveIdx(p) \/ WriteIdx(p) \/ Oops(p)
  <2>1. /\ UNCHANGED <<cfg, call, temp>>
        /\ \A q \in Procs : q # p => pc'[q] = pc[q]
        /\ pc[p] \notin {"idle", "restore", "unlock", "return"}
        /\ pc'[p] \notin {"idle", "restore", "unlock", "return"}
    BY <1>2, <1>t DEF Iounmap, Ioremap, SetStart, SpinLock, SaveIdx, WriteIdx, Oops, FirstAccess
  <2> QED BY <2>1, Stutter
<1>3. CASE ReadDword(p) \/ ReadMass(p)
  <2>1. /\ UNCHANGED <<cfg, call>> /\ pc[p] = "read" /\ ~BadPointer(p)
        /\ \A q \in Procs : q # p => pc'[q] = pc[q] /\ temp'[q] = temp[q]
        /\ pc'[p] \in {"addr", "read", "write", "restore", "unlock"}
    BY <1>3, <1>t DEF ReadDword, ReadMass, AfterAccess
  <2>2. CASE pc'[p] \in {"addr", "read", "write"}
    BY <2>1, <2>2, Stutter
  <2>3. CASE pc'[p] \in {"restore", "unlock"}
    <3>1. call[p].op # "write" BY <1>3, <1>t, <2>3 DEF ReadDword, ReadMass
    <3>2. temp'[p] \in MassBuf
      <4>1. TypeOK' BY <1>t, TypeStep
      <4> QED BY <4>1 DEF TypeOK
    <3>3. call[p] \in Calls /\ ~Rejected(call[p])
      BY <1>0, <1>t, <2>1 DEF WindowLabels
    <3>4. \A k \in DOMAIN Returned(call[p], temp'[p]) :
            Returned(call[p], temp'[p])[k] = cfg[call[p].dev][call[p].reg + k]
      BY <1>0, <1>3, <2>1, <2>3, <3>1, LastReadNamed
    <3>5. Returned(call[p], temp'[p]) = CS!Load(cfg, call[p])
      BY <3>1, <3>2, <3>3, <3>4, LoadNamed
    <3>6. cfg' = CS!Store(cfg, call[p]) BY <2>1, <3>1 DEF CS!Store
    <3>7. CS!Apply(p) BY <2>1, <2>3, <3>5, <3>6, TakesEffect
    <3> QED BY <3>7
  <2> QED BY <2>1, <2>2, <2>3
<1>4. CASE WriteDword(p)
  <2>1. /\ UNCHANGED <<call, temp>> /\ pc[p] = "write" /\ ~BadPointer(p)
        /\ \A q \in Procs : q # p => pc'[q] = pc[q]
        /\ pc'[p] \in {"restore", "unlock"}
    BY <1>4, <1>t DEF WriteDword, AfterAccess
  <2>2. call[p] \in Calls /\ ~Rejected(call[p]) /\ call[p].op = "write"
    BY <1>0, <1>t, <2>1 DEF WindowLabels, DataInv, ReadBeforeWrite
  <2>3. Target(p) = PortAddress(call[p], i[p])
    BY <1>0, <2>1, TargetNamed DEF DataInv
  <2>4. call[p].width # 4 =>
          \A l \in Lanes : Kept(p)[l] = DwordAt(cfg, PortAddress(call[p], i[p]))[l]
    BY <1>0, <2>1, <2>3 DEF Kept, DataInv, ReadBeforeWrite
  <2>5. cfg' = StoreDword(cfg, PortAddress(call[p], i[p]), Merge(call[p], Kept(p)))
    BY <1>4, <2>3 DEF WriteDword
  <2>6. cfg' = CS!Store(cfg, call[p])
    BY <1>t, <2>2, <2>4, <2>5, StoreNamed
  <2>7. Returned(call[p], temp'[p]) = CS!Load(cfg, call[p])
    BY <2>2 DEF Returned, CS!Load, CS!NoRsp
  <2> QED BY <2>1, <2>6, <2>7, TakesEffect
<1>5. CASE RestoreIdx(p) \/ SpinUnlock(p)
  <2>1. /\ UNCHANGED <<cfg, call, temp>>
        /\ \A q \in Procs : q # p => pc'[q] = pc[q]
        /\ pc[p] \in {"restore", "unlock"} /\ pc'[p] \in {"unlock", "return"}
    BY <1>5, <1>t DEF RestoreIdx, SpinUnlock
  <2> QED BY <2>1, Stutter
<1>6. CASE Return(p)
  <2>1. stBar[p] = "done" /\ stBar' = [stBar EXCEPT ![p] = "idle"]
    BY <1>6, <1>t DEF Return, stBar, Done
  <2>2. rspBar' = [rspBar EXCEPT ![p] = <<>>]
    BY <1>6, <1>t DEF Return, rspBar, Done
  <2>3. CS!IdleCall = IdleCall BY DEF CS!IdleCall, IdleCall
  <2> QED BY <1>6, <2>1, <2>2, <2>3 DEF Return, CS!End, CS!NoRsp
<1> QED BY <1>1, <1>2, <1>3, <1>4, <1>5, <1>6 DEF Step

\* The driver implements ConfigSpace: a request takes effect on exactly the
\* bytes it names, at one instant between its call and its return, whichever
\* path it takes and whoever else is in the driver (lfdd/libpci_x86.c).
THEOREM RequestsAtomic ==
    ASSUME ~EarlyCalls, OneMmioProc
    PROVE  Spec => ImplementsConfigSpace
<1>1. Init => RequestInv BY InitRequests DEF RequestInv, WindowInv
<1>2. RequestInv /\ [Next]_vars => RequestInv' BY RequestStep
<1>3. Init => CS!Init
  BY DEF Init, CS!Init, stBar, rspBar, Done, CS!NoRsp, CS!IdleCall, IdleCall
<1>4. RequestInv /\ [Next]_vars => [CS!Next]_(CS!vars)
  BY ConfigBegin, ConfigStep DEF RequestInv, PortInv, Next, CS!Next, Sure
<1> QED BY <1>1, <1>2, <1>3, <1>4, PTL DEF Spec, ImplementsConfigSpace, CS!Spec

\* A step of a request through the ports is its whole effect on exactly the
\* bytes it names, its return, or nothing that ConfigSpace sees.
PortStepsAtomic ==
    [][\A p \in Procs : Step(p) /\ ~IsMmio(call[p]) =>
           CS!Apply(p) \/ CS!End(p) \/ UNCHANGED CS!vars]_vars

\* The requests through the ports stay atomic where the others do not: while any
\* number of processes race for the cached window, a write through the ports
\* still changes the bytes it names and no others (lfdd/libpci_x86.c, libio.c).
THEOREM PortRequestsAtomic ==
    ASSUME ~EarlyCalls
    PROVE  Spec => PortStepsAtomic
<1>1. Init => RequestInv BY InitRequests DEF RequestInv, WindowInv
<1>2. RequestInv /\ [Next]_vars => RequestInv' BY RequestStep
<1>3. RequestInv /\ [Next]_vars =>
        [\A p \in Procs : Step(p) /\ ~IsMmio(call[p]) =>
             CS!Apply(p) \/ CS!End(p) \/ UNCHANGED CS!vars]_vars
  BY ConfigStep DEF Sure
<1> QED BY <1>1, <1>2, <1>3, PTL DEF Spec, PortStepsAtomic

-----------------------------------------------------------------------------
\* What every request's return rests on.

\* Who takes the lock is on the way to spin_unlock; no other label is reached
\* with it.
LEMMA LockStep == TypeOK /\ LockInUse /\ [Next]_vars => LockInUse'
<1> SUFFICES ASSUME TypeOK, LockInUse, [Next]_vars PROVE LockInUse' OBVIOUS
<1>t. pc \in [Procs -> Labels] /\ lfdd_lock \in Procs \cup {NoProc} BY DEF TypeOK
<1> USE DEF LockInUse, Critical, goto, lock
<1>1. CASE SpinLockInit \/ Reload BY <1>1 DEF SpinLockInit, Reload
<1>2. ASSUME NEW p \in Procs, SpinLock(p) PROVE LockInUse'
  BY <1>2, <1>t DEF SpinLock, FirstAccess
<1>3. ASSUME NEW p \in Procs, SpinUnlock(p) PROVE LockInUse'
  BY <1>3 DEF SpinUnlock
<1>4. ASSUME NEW p \in Procs,
             Ioctl(p) \/ Lookup(p) \/ Iounmap(p) \/ Ioremap(p) \/ SetStart(p) \/ Return(p)
      PROVE  LockInUse'
  <2>1. /\ lfdd_lock' = lfdd_lock /\ pc[p] \notin Critical \cup {"oops"}
        /\ \A q \in Procs : q # p => pc'[q] = pc[q]
    BY <1>4, <1>t DEF Ioctl, Lookup, Iounmap, Ioremap, SetStart, Return
  <2> QED BY <2>1, <1>t
<1>5. ASSUME NEW p \in Procs,
             SaveIdx(p) \/ WriteIdx(p) \/ Oops(p) \/ ReadDword(p) \/ ReadMass(p)
                \/ WriteDword(p) \/ RestoreIdx(p)
      PROVE  LockInUse'
  <2>1. /\ lfdd_lock' = lfdd_lock /\ pc'[p] \in Critical \cup {"oops"}
        /\ \A q \in Procs : q # p => pc'[q] = pc[q]
    BY <1>5, <1>t DEF SaveIdx, WriteIdx, Oops, ReadDword, ReadMass, WriteDword,
                      RestoreIdx, FirstAccess, AfterAccess
  <2> QED BY <2>1, <1>t
<1>6. CASE UNCHANGED vars BY <1>6 DEF vars
<1> QED BY <1>1, <1>2, <1>3, <1>4, <1>5, <1>6 DEF Next, Step

\* No path through the driver leaves lfdd_lock taken, not even of a request that
\* came before the lock was initialised; only a fault does (libpci_x86.c).
THEOREM LockIsInUse == Spec => []LockInUse
<1>1. Init => TypeOK /\ LockInUse BY InitType DEF Init, LockInUse
<1>2. TypeOK /\ LockInUse /\ [Next]_vars => (TypeOK /\ LockInUse)'
  BY TypeStep, LockStep
<1> QED BY <1>1, <1>2, PTL DEF Spec

\* A request's own step counts down.
LEMMA OwnStep ==
    ASSUME TypeOK, NEW p \in Procs, Step(p)
    PROVE  0 <= Left(p)' /\ Left(p)' < Left(p)
<1>t. /\ pc \in [Procs -> Labels] /\ i \in [Procs -> Slots]
      /\ i[p] \in Nat /\ i[p] < MAP_SIZE /\ MAP_SIZE \in Nat
  BY SizeAssumption DEF TypeOK, Slots
<1> USE DEF goto, stack
<1>1. CASE Lookup(p)
  <2>1. pc[p] = "map" /\ pc'[p] \in {"return", "lock", "iounmap", "ioremap"}
    BY <1>1, <1>t DEF Lookup
  <2> QED BY <1>t, <2>1 DEF Left
<1>2. CASE Iounmap(p)
  <2>1. pc[p] = "iounmap" /\ pc'[p] = "ioremap" BY <1>2, <1>t DEF Iounmap
  <2> QED BY <1>t, <2>1 DEF Left
<1>3. CASE Ioremap(p)
  <2>1. pc[p] = "ioremap" /\ pc'[p] = "setstart" BY <1>3, <1>t DEF Ioremap
  <2> QED BY <1>t, <2>1 DEF Left
<1>4. CASE SetStart(p)
  <2>1. pc[p] = "setstart" /\ pc'[p] = "lock" BY <1>4, <1>t DEF SetStart
  <2> QED BY <1>t, <2>1 DEF Left
<1>5. CASE SpinLock(p)
  <2>1. pc[p] = "lock" /\ pc'[p] \in {"save", "read", "write"} /\ i' = i
    BY <1>5, <1>t DEF SpinLock, FirstAccess
  <2> QED BY <1>t, <2>1 DEF Left
<1>6. CASE SaveIdx(p)
  <2>1. pc[p] = "save" /\ pc'[p] = "addr" /\ i' = i BY <1>6, <1>t DEF SaveIdx
  <2> QED BY <1>t, <2>1 DEF Left
<1>7. CASE WriteIdx(p)
  <2>1. pc[p] = "addr" /\ pc'[p] \in {"read", "write"} /\ i' = i
    BY <1>7, <1>t DEF WriteIdx, FirstAccess
  <2> QED BY <1>t, <2>1 DEF Left
<1>8. CASE Oops(p)
  <2>1. pc[p] \in {"read", "write"} /\ pc'[p] = "oops" BY <1>8, <1>t DEF Oops
  <2> QED BY <1>t, <2>1 DEF Left
<1>9. CASE ReadDword(p)
  <2>1. pc[p] = "read" /\ pc'[p] \in {"write", "restore", "unlock"}
    BY <1>9, <1>t DEF ReadDword, AfterAccess
  <2> QED BY <1>t, <2>1 DEF Left
<1>10. CASE ReadMass(p)
  <2>1. pc[p] = "read" BY <1>10 DEF ReadMass
  <2>2. CASE i[p] + 4 < MAP_SIZE
    <3>1. pc'[p] \in {"addr", "read"} /\ i'[p] = i[p] + 4
      BY <1>10, <1>t, <2>2 DEF ReadMass
    <3> QED BY <1>t, <2>1, <2>2, <3>1 DEF Left
  <2>3. CASE ~(i[p] + 4 < MAP_SIZE)
    <3>1. pc'[p] \in {"restore", "unlock"}
      BY <1>10, <1>t, <2>3 DEF ReadMass, AfterAccess
    <3> QED BY <1>t, <2>1, <3>1 DEF Left
  <2> QED BY <2>2, <2>3
<1>11. CASE WriteDword(p)
  <2>1. pc[p] = "write" /\ pc'[p] \in {"restore", "unlock"}
    BY <1>11, <1>t DEF WriteDword, AfterAccess
  <2>2. Left(p) = 4 BY <2>1 DEF Left
  <2>3. Left(p)' \in {2, 3} BY <2>1 DEF Left
  <2> QED BY <2>2, <2>3
<1>12. CASE RestoreIdx(p)
  <2>1. pc[p] = "restore" /\ pc'[p] = "unlock" BY <1>12, <1>t DEF RestoreIdx
  <2> QED BY <1>t, <2>1 DEF Left
<1>13. CASE SpinUnlock(p)
  <2>1. pc[p] = "unlock" /\ pc'[p] = "return" BY <1>13, <1>t DEF SpinUnlock
  <2> QED BY <1>t, <2>1 DEF Left
<1>14. CASE Return(p)
  <2>1. pc[p] = "return" /\ pc'[p] = "idle" BY <1>14, <1>t DEF Return
  <2> QED BY <1>t, <2>1 DEF Left
<1> QED BY <1>1, <1>2, <1>3, <1>4, <1>5, <1>6, <1>7, <1>8, <1>9, <1>10, <1>11,
           <1>12, <1>13, <1>14 DEF Step

\* Nobody else's step moves it.
LEMMA OthersStep ==
    ASSUME TypeOK, NEW p \in Procs, pc[p] # "idle", [Next]_vars, ~Step(p)
    PROVE  UNCHANGED <<pc[p], call[p], i[p]>>
<1>t. /\ pc \in [Procs -> Labels] /\ call \in [Procs -> Calls] /\ i \in [Procs -> Slots]
  BY DEF TypeOK
<1> USE DEF goto, stack
<1>1. CASE SpinLockInit \/ Reload BY <1>1 DEF SpinLockInit, Reload
<1>2. ASSUME NEW q \in Procs, Ioctl(q) PROVE UNCHANGED <<pc[p], call[p], i[p]>>
  BY <1>2, <1>t DEF Ioctl
<1>3. ASSUME NEW q \in Procs, Step(q) PROVE UNCHANGED <<pc[p], call[p], i[p]>>
  <2>1. q # p BY <1>3
  <2>2. /\ \E l : pc' = [pc EXCEPT ![q] = l]
        /\ call' = call \/ \E c : call' = [call EXCEPT ![q] = c]
        /\ i' = i \/ \E k : i' = [i EXCEPT ![q] = k]
    BY <1>3 DEF Step, Lookup, Iounmap, Ioremap, SetStart, SpinLock, SaveIdx, WriteIdx,
                Oops, ReadDword, ReadMass, WriteDword, RestoreIdx, SpinUnlock, Return
  <2> QED BY <1>t, <2>1, <2>2
<1>4. CASE UNCHANGED vars BY <1>4 DEF vars
<1> QED BY <1>1, <1>2, <1>3, <1>4 DEF Next

\* A request is at most 2 * MAP_SIZE + 10 of its own steps from its return, and
\* no step of its own or of another process takes it back (libpci_x86.c).
THEOREM RequestsGoOn == Spec => RequestAdvances
<1>1. Init => TypeOK BY InitType
<1>2. TypeOK /\ [Next]_vars => TypeOK' BY TypeStep
<1>3. TypeOK /\ [Next]_vars =>
        [\A p \in Procs : pc[p] # "idle" =>
             \/ 0 <= Left(p)' /\ Left(p)' < Left(p)
             \/ UNCHANGED <<pc[p], call[p], i[p]>>]_vars
  BY OwnStep, OthersStep
<1> QED BY <1>1, <1>2, <1>3, PTL DEF Spec, RequestAdvances

=============================================================================
