------------------------------ MODULE LfddPci -------------------------------
(***************************************************************************)
(* The PCI operations of the lfdd kernel module (lfdd/libpci_x86.c behind  *)
(* lfdd_ioctl in lfdd/lfdd.c).  Any number of processes may be inside      *)
(* unlocked_ioctl at once.  A request either goes through the CF8/CFC      *)
(* ports, saving and restoring CF8 under lfdd_lock, or through one cached  *)
(* ioremap window (phy2virt_mem, phy_map_start_addr), which is looked up   *)
(* and replaced before the lock is taken, or is a port request that finds  *)
(* CFC as CF8 lets it.  Each access to shared state is a step of its own,  *)
(* and the module may be unloaded and loaded again.                        *)
(***************************************************************************)
EXTENDS PciCalls, FiniteSets

CONSTANTS
    VAddrs,        \* kernel virtual addresses ioremap can hand out
    NULL,          \* the null pointer
    NoWindow,      \* no physical window
    NoProc,        \* nobody
    IoremapFails,  \* whether ioremap may return NULL
    EarlyCalls,    \* whether /dev/lfdd is opened before lfdd_init is done
    MaxLost        \* unloading ends once so many mappings were left behind

VARIABLES
    cfg,                 \* the devices' configuration registers (hardware)
    cf8,                 \* the CF8 address port (hardware)
    vmap,                \* which window each virtual address maps
    lost,                \* those that were mapped when the module was unloaded
    lock_ready,          \* spin_lock_init has run
    lfdd_lock,           \* the holder of the spin lock
    phy2virt_mem,        \* the cached mapping ...
    phy_map_start_addr,  \* ... and the physical address it starts at
    pc, call, orig_idx, temp, i   \* the caller's stack

vars == <<cfg, cf8, vmap, lost, lock_ready, lfdd_lock, phy2virt_mem,
          phy_map_start_addr, pc, call, orig_idx, temp, i>>

hw == <<cfg, cf8>>
cache == <<vmap, lost, phy2virt_mem, phy_map_start_addr>>
lock == <<lock_ready, lfdd_lock>>
stack == <<call, orig_idx, temp, i>>

\* A register address, as CF8 holds it and as a window starts at.
Address == [dev : Devs, reg : Nat]

Labels == {"idle", "map", "iounmap", "ioremap", "setstart", "lock", "save",
           "addr", "read", "write", "restore", "unlock", "return", "oops"}

ASSUME DriverAssumption ==
    /\ KernelIdx \in Address
    /\ NULL \notin VAddrs /\ NoWindow \notin Address /\ NoProc \notin Procs
    /\ IoremapFails \in BOOLEAN /\ EarlyCalls \in BOOLEAN /\ MaxLost \in Nat

-----------------------------------------------------------------------------
\* Addresses and double words.

\* addr_aligh_buf, or addr itself in read_256byte.
WindowOf(c) ==
    [dev |-> c.dev,
     reg |-> IF c.op = "mass" THEN c.reg ELSE c.reg - (c.reg % MAP_SIZE)]

\* Slip: the end of the window is taken to be inside it.
out_range_OffByOne(c, start) ==
    \/ start = NoWindow
    \/ c.dev # start.dev
    \/ c.reg < start.reg
    \/ c.reg > start.reg + MAP_SIZE

out_range(c, start) ==
    \/ start = NoWindow
    \/ c.dev # start.dev
    \/ c.reg < start.reg
    \/ c.reg >= start.reg + MAP_SIZE

\* The byte offset into the window: (off & ~3), or the loop index.
WindowOffset(c, k) ==
    IF c.op = "mass" THEN k
    ELSE LET off == c.reg - WindowOf(c).reg IN off - (off % 4)

\* What the operation puts into CF8: addr & ~3, or addr + i.
PortAddress(c, k) ==
    [dev |-> c.dev, reg |-> IF c.op = "mass" THEN c.reg + k ELSE c.reg - (c.reg % 4)]

\* The double word at a, all ones where no register answers.
DwordAt(m, a) ==
    [l \in Lanes |-> IF a.reg + l \in Regs THEN m[a.dev][a.reg + l] ELSE Ones]

StoreDword(m, a, v) ==
    [m EXCEPT ![a.dev] = [r \in Regs |-> IF r - a.reg \in Lanes THEN v[r - a.reg] ELSE @[r]]]

\* Slip: the word mask is (addr & 1), so every word goes to the low half.
WriteLane_OddMask(c) == IF c.width = 1 THEN c.reg % 4 ELSE 0

\* The first lane a write replaces: word writes use (addr & 2).
WriteLane(c) == CASE c.width = 1 -> c.reg % 4
                  [] c.width = 2 -> (c.reg % 4) - (c.reg % 2)
                  [] c.width = 4 -> 0

\* temp &= ~mask; temp |= value
Merge(c, old) ==
    [l \in Lanes |-> IF l - WriteLane(c) \in 0 .. c.width - 1
                     THEN c.buf[l - WriteLane(c)] ELSE old[l]]

\* value >>= (addr & 3) * 8, cut to the width of the read.
Extract(c, v) == [k \in 0 .. c.width - 1 |-> v[(c.reg % 4) + k]]

\* The early returns: all ones for a read; the ioctl cleared mass_buf.
RejectedTemp == [s \in Slots |-> Zero]

\* What is copied back to the caller of request c with result v.
Returned(c, v) ==
    CASE c.op = "read"  -> IF Rejected(c) THEN [k \in 0 .. c.width - 1 |-> Ones]
                           ELSE Extract(c, v)
      [] c.op = "mass"  -> v
      [] c.op = "write" -> <<>>

-----------------------------------------------------------------------------
Init ==
    /\ cfg \in BootCfg
    /\ cf8 = KernelIdx
    /\ vmap = [v \in VAddrs |-> NoWindow]
    /\ lost = {}
    /\ lock_ready = FALSE
    /\ lfdd_lock = NoProc
    /\ phy2virt_mem = NULL
    /\ phy_map_start_addr = NoWindow
    /\ pc = [p \in Procs |-> "idle"]
    /\ call = [p \in Procs |-> IdleCall]
    /\ orig_idx = [p \in Procs |-> KernelIdx]
    /\ temp = [p \in Procs |-> RejectedTemp]
    /\ i = [p \in Procs |-> 0]

goto(p, l) == pc' = [pc EXCEPT ![p] = l]

\* lfdd_init: misc_register has published the device, the lock comes after.
SpinLockInit ==
    /\ ~lock_ready
    /\ lock_ready' = TRUE
    /\ lfdd_lock' = NoProc
    /\ UNCHANGED <<hw, cache, pc, stack>>

\* lfdd_exit, then insmod up to misc_register: an open device keeps the module
\* in the kernel, the module's variables start anew, its mapping stays.
Reload ==
    /\ Cardinality(lost) < MaxLost /\ lock_ready
    /\ \A p \in Procs : pc[p] = "idle"
    /\ lost' = lost \cup ({phy2virt_mem} \ {NULL})
    /\ phy2virt_mem' = NULL
    /\ phy_map_start_addr' = NoWindow
    /\ lock_ready' = FALSE
    /\ lfdd_lock' = NoProc
    /\ UNCHANGED <<hw, vmap, pc, stack>>

\* ioctl entry: copy_from_user, memset of mass_buf.
Ioctl(p) ==
    /\ lock_ready \/ EarlyCalls
    /\ pc[p] = "idle"
    /\ \E c \in Calls :
          /\ IsMmio(c) => p \in MmioProcs
          /\ call' = [call EXCEPT ![p] = c]
    /\ temp' = [temp EXCEPT ![p] = RejectedTemp]
    /\ i' = [i EXCEPT ![p] = 0]
    /\ goto(p, "map")
    /\ UNCHANGED <<hw, cache, lock, orig_idx>>

\* Slip: a window out of range is replaced without iounmap.
Lookup_NoUnmap(p) ==
    /\ pc[p] = "map"
    /\ goto(p, IF Rejected(call[p]) THEN "return"
               ELSE IF ~IsMmio(call[p]) THEN "lock"
               ELSE IF phy2virt_mem = NULL \/ out_range(call[p], phy_map_start_addr)
                    THEN "ioremap" ELSE "lock")
    /\ UNCHANGED <<hw, cache, lock, stack>>

\* The tests on phy_base, phy2virt_mem and phy_map_start_addr.
Lookup(p) ==
    /\ pc[p] = "map"
    /\ goto(p, CASE Rejected(call[p])     -> "return"
                 [] ~Rejected(call[p]) /\ ~IsMmio(call[p]) -> "lock"
                 [] ~Rejected(call[p]) /\ IsMmio(call[p]) ->
                      IF phy2virt_mem = NULL THEN "ioremap"
                      ELSE IF out_range(call[p], phy_map_start_addr) THEN "iounmap"
                      ELSE "lock")
    /\ UNCHANGED <<hw, cache, lock, stack>>

\* Slip: the old window is given back and no new one is mapped.
Iounmap_NoRemap(p) ==
    /\ pc[p] = "iounmap"
    /\ vmap' = [v \in VAddrs |-> IF v = phy2virt_mem THEN NoWindow ELSE vmap[v]]
    /\ goto(p, "setstart")
    /\ UNCHANGED <<hw, lock, lost, phy2virt_mem, phy_map_start_addr, stack>>

Iounmap(p) ==
    /\ pc[p] = "iounmap"
    /\ vmap' = [v \in VAddrs |-> IF v = phy2virt_mem THEN NoWindow ELSE vmap[v]]
    /\ goto(p, "ioremap")
    /\ UNCHANGED <<hw, lock, lost, phy2virt_mem, phy_map_start_addr, stack>>

Ioremap(p) ==
    /\ pc[p] = "ioremap"
    /\ \/ \E v \in VAddrs :
             /\ vmap[v] = NoWindow
             /\ vmap' = [vmap EXCEPT ![v] = WindowOf(call[p])]
             /\ phy2virt_mem' = v
       \/ /\ IoremapFails \/ \A v \in VAddrs : vmap[v] # NoWindow
          /\ phy2virt_mem' = NULL
          /\ UNCHANGED vmap
    /\ goto(p, "setstart")
    /\ UNCHANGED <<hw, lock, lost, phy_map_start_addr, stack>>

SetStart(p) ==
    /\ pc[p] = "setstart"
    /\ phy_map_start_addr' = WindowOf(call[p])
    /\ goto(p, "lock")
    /\ UNCHANGED <<hw, lock, vmap, lost, phy2virt_mem, stack>>

\* The first data access of a double word write, and of outb, is its store.
FirstAccess(c) ==
    IF c.op = "write" /\ (c.width = 4 \/ c.phy_base = "cfc") THEN "write" ELSE "read"

\* Slip: the lock is taken without waiting for it.
SpinLock_NoWait(p) ==
    /\ pc[p] = "lock"
    /\ lfdd_lock' = p
    /\ goto(p, IF Indexed(call[p]) THEN "save" ELSE FirstAccess(call[p]))
    /\ UNCHANGED <<hw, cache, lock_ready, stack>>

SpinLock(p) ==
    /\ pc[p] = "lock"
    /\ lfdd_lock = NoProc
    /\ lfdd_lock' = p
    /\ goto(p, IF Indexed(call[p]) THEN "save" ELSE FirstAccess(call[p]))
    /\ UNCHANGED <<hw, cache, lock_ready, stack>>

\* Save original PCI address
SaveIdx(p) ==
    /\ pc[p] = "save"
    /\ orig_idx' = [orig_idx EXCEPT ![p] = cf8]
    /\ goto(p, "addr")
    /\ UNCHANGED <<hw, cache, lock, call, temp, i>>

\* Write new address
WriteIdx(p) ==
    /\ pc[p] = "addr"
    /\ cf8' = PortAddress(call[p], i[p])
    /\ goto(p, FirstAccess(call[p]))
    /\ UNCHANGED <<cfg, cache, lock, stack>>

\* Where inl/outl(CFC) or readl/writel land.
Target(p) ==
    IF IsMmio(call[p])
    THEN [dev |-> vmap[phy2virt_mem].dev,
          reg |-> vmap[phy2virt_mem].reg + WindowOffset(call[p], i[p])]
    ELSE cf8

\* readl/writel through a null or unmapped pointer.
BadPointer(p) ==
    IsMmio(call[p]) /\ phy2virt_mem \notin {v \in VAddrs : vmap[v] # NoWindow}

Oops(p) ==
    /\ pc[p] \in {"read", "write"}
    /\ BadPointer(p)
    /\ goto(p, "oops")
    /\ UNCHANGED <<hw, cache, lock, stack>>

\* Slip: only the port paths unlock.
AfterAccess_KeepsLock(c) == IF Indexed(c) THEN "restore" ELSE "return"

AfterAccess(c) == IF Indexed(c) THEN "restore" ELSE "unlock"

\* A single inl or readl, or the inb of CFC to CFF.
ReadDword(p) ==
    /\ pc[p] = "read"
    /\ call[p].op # "mass"
    /\ ~BadPointer(p)
    /\ temp' = [temp EXCEPT ![p] = [s \in Slots |->
                   IF s \in Lanes THEN DwordAt(cfg, Target(p))[s] ELSE @[s]]]
    /\ goto(p, IF call[p].op = "write" THEN "write" ELSE AfterAccess(call[p]))
    /\ UNCHANGED <<hw, cache, lock, call, orig_idx, i>>

\* Slip: one turn of the loop too many.
ReadMass_OneMore(p) ==
    /\ pc[p] = "read"
    /\ call[p].op = "mass"
    /\ ~BadPointer(p)
    /\ IF i[p] + 4 <= MAP_SIZE
       THEN /\ i' = [i EXCEPT ![p] = @ + 4]
            /\ goto(p, IF Indexed(call[p]) THEN "addr" ELSE "read")
       ELSE /\ goto(p, AfterAccess(call[p]))
            /\ UNCHANGED i
    /\ UNCHANGED <<hw, cache, lock, call, orig_idx, temp>>

\* Slip: the loop forgets to advance.
ReadMass_Stuck(p) ==
    /\ pc[p] = "read"
    /\ call[p].op = "mass"
    /\ ~BadPointer(p)
    /\ goto(p, IF Indexed(call[p]) THEN "addr" ELSE "read")
    /\ UNCHANGED <<hw, cache, lock, stack>>

\* One turn of read_256byte's loop.
ReadMass(p) ==
    /\ pc[p] = "read"
    /\ call[p].op = "mass"
    /\ ~BadPointer(p)
    /\ temp' = [temp EXCEPT ![p] = [s \in Slots |->
                   IF s - i[p] \in Lanes THEN DwordAt(cfg, Target(p))[s - i[p]] ELSE @[s]]]
    /\ IF i[p] + 4 < MAP_SIZE
       THEN /\ i' = [i EXCEPT ![p] = @ + 4]
            /\ goto(p, IF Indexed(call[p]) THEN "addr" ELSE "read")
       ELSE /\ goto(p, AfterAccess(call[p]))
            /\ UNCHANGED i
    /\ UNCHANGED <<hw, cache, lock, call, orig_idx>>

\* What a store puts into the lanes the request does not name: outb leaves
\* them alone, outl and writel write back what was read.
Kept(p) == IF call[p].phy_base = "cfc" THEN DwordAt(cfg, Target(p)) ELSE temp[p]

\* outl(temp, CFC), writel, or outb
WriteDword(p) ==
    /\ pc[p] = "write"
    /\ ~BadPointer(p)
    /\ cfg' = StoreDword(cfg, Target(p), Merge(call[p], Kept(p)))
    /\ goto(p, AfterAccess(call[p]))
    /\ UNCHANGED <<cf8, cache, lock, stack>>

\* Restore original PCI address
RestoreIdx(p) ==
    /\ pc[p] = "restore"
    /\ cf8' = orig_idx[p]
    /\ goto(p, "unlock")
    /\ UNCHANGED <<cfg, cache, lock, stack>>

SpinUnlock(p) ==
    /\ pc[p] = "unlock"
    /\ lfdd_lock' = NoProc
    /\ goto(p, "return")
    /\ UNCHANGED <<hw, cache, lock_ready, stack>>

\* copy_to_user of Returned(call[p], temp[p]), then the stack is gone.
Return(p) ==
    /\ pc[p] = "return"
    /\ goto(p, "idle")
    /\ call' = [call EXCEPT ![p] = IdleCall]
    /\ temp' = [temp EXCEPT ![p] = RejectedTemp]
    /\ orig_idx' = [orig_idx EXCEPT ![p] = KernelIdx]
    /\ i' = [i EXCEPT ![p] = 0]
    /\ UNCHANGED <<hw, cache, lock>>

\* The steps of a request once it is made.
Step(p) ==
    \/ Lookup(p) \/ Iounmap(p) \/ Ioremap(p) \/ SetStart(p)
    \/ SpinLock(p) \/ SaveIdx(p) \/ WriteIdx(p) \/ Oops(p)
    \/ ReadDword(p) \/ ReadMass(p) \/ WriteDword(p)
    \/ RestoreIdx(p) \/ SpinUnlock(p) \/ Return(p)

Next == SpinLockInit \/ Reload \/ \E p \in Procs : Ioctl(p) \/ Step(p)

Spec == Init /\ [][Next]_vars

\* A process in the kernel keeps running, and the queued spin lock serves its
\* waiters in turn, so one that waits is not passed over for ever.
Fairness ==
    \A p \in Procs : WF_vars(Step(p)) /\ SF_vars(SpinLock(p))

FairSpec == Spec /\ Fairness

-----------------------------------------------------------------------------
\* Properties.

\* Every variable holds a value of its type; the loop index stays in mass_buf.
TypeOK ==
    /\ cfg \in [Devs -> [Regs -> Bytes]]
    /\ cf8 \in Address
    /\ vmap \in [VAddrs -> Address \cup {NoWindow}]
    /\ lost \subseteq VAddrs
    /\ lock_ready \in BOOLEAN
    /\ lfdd_lock \in Procs \cup {NoProc}
    /\ phy2virt_mem \in VAddrs \cup {NULL}
    /\ phy_map_start_addr \in Address \cup {NoWindow}
    /\ pc \in [Procs -> Labels]
    /\ call \in [Procs -> Calls]
    /\ orig_idx \in [Procs -> Address]
    /\ temp \in [Procs -> MassBuf]
    /\ i \in [Procs -> Slots]
    /\ \A p \in Procs : i[p] % 4 = 0

Critical == {"save", "addr", "read", "write", "restore", "unlock"}

\* "Save/Restore original PCI address": whenever no request is between its
\* spin_lock and its spin_unlock, the CF8 port holds what the rest of the
\* kernel had put there, whatever requests ran before and however they were
\* interleaved (libpci_x86.c, every port path).
PortRestored == (\A p \in Procs : pc[p] \notin Critical) => cf8 = KernelIdx

\* When a request is about to leave the critical section, what it is going to
\* return is the content of the registers it named: neither another process's
\* CF8 value nor another device's window came in between.  A port request for
\* CFC is given the registers the kernel's CF8 names, not those of a request
\* that has CF8 in use (libio.c, libpci_x86.c).
ReturnsOwnRegisters ==
    \A p \in Procs :
        pc[p] = "unlock" /\ call[p].op # "write" =>
            \A k \in DOMAIN Returned(call[p], temp[p]) :
                Returned(call[p], temp[p])[k] = cfg[call[p].dev][call[p].reg + k]

\* A mapping that is not the cached one has been given back to iounmap: the
\* cache's replacement order loses no window, and lfdd_exit only the last one.
NoMappingLeak ==
    \A v \in VAddrs : vmap[v] # NoWindow => v = phy2virt_mem \/ v \in lost

\* With one process that uses MMIO, the driver faults only on the pointer that a
\* failed ioremap left behind: replacing the cached window leaves it no other bad
\* one.  Two of them can also fault through a window that one looked up and the
\* other took away since (libpci_x86.c:96-104).
FaultOnlyAfterFailedIoremap ==
    \A p \in Procs : pc[p] = "oops" => phy2virt_mem = NULL

\* lfdd_lock is never left behind: whoever holds it is on its way to
\* spin_unlock, unless it has faulted before (every path of libpci_x86.c).
LockInUse == lfdd_lock # NoProc => pc[lfdd_lock] \in Critical \cup {"oops"}

\* The most steps a request has yet to make.
Left(p) ==
    CASE pc[p] = "map"      -> 2 * MAP_SIZE + 10
      [] pc[p] = "iounmap"  -> 2 * MAP_SIZE + 9
      [] pc[p] = "ioremap"  -> 2 * MAP_SIZE + 8
      [] pc[p] = "setstart" -> 2 * MAP_SIZE + 7
      [] pc[p] = "lock"     -> 2 * MAP_SIZE + 6
      [] pc[p] = "save"     -> 2 * MAP_SIZE + 5
      [] pc[p] = "addr"     -> 2 * (MAP_SIZE - i[p]) + 4
      [] pc[p] = "read"     -> 2 * (MAP_SIZE - i[p]) + 3
      [] pc[p] = "write"    -> 4
      [] pc[p] = "restore"  -> 3
      [] pc[p] = "unlock"   -> 2
      [] pc[p] = "return"   -> 1
      [] OTHER              -> 0

\* Whatever the others in the driver do, a request is never led back, kept in
\* its loop or exchanged for another: each step either leaves it where it is or
\* brings it nearer to its return (every path of libpci_x86.c).
RequestAdvances ==
    [][\A p \in Procs : pc[p] # "idle" =>
           \/ 0 <= Left(p)' /\ Left(p)' < Left(p)
           \/ UNCHANGED <<pc[p], call[p], i[p]>>]_vars

\* Every request returns, unless a failed ioremap has stopped the process that
\* makes it or one that holds the lock.
EveryCallReturns ==
    \A p \in Procs :
        pc[p] # "idle" ~> (pc[p] = "idle" \/ \E q \in Procs : pc[q] = "oops")

-----------------------------------------------------------------------------
\* The driver implements ConfigSpace: a request takes effect at its last data
\* access, or at the test that refuses it.

Done(p) == pc[p] \in {"restore", "unlock", "return"}

stBar == [p \in Procs |-> IF pc[p] = "idle" THEN "idle"
                          ELSE IF Done(p) THEN "done" ELSE "pending"]

rspBar == [p \in Procs |-> IF Done(p) THEN Returned(call[p], temp[p]) ELSE <<>>]

CS == INSTANCE ConfigSpace WITH st <- stBar, req <- call, rsp <- rspBar

\* Every request of every process takes effect atomically on exactly the
\* bytes it names, although it is a sequence of port or window accesses.
ImplementsConfigSpace == CS!Spec

=============================================================================
