------------------------------- MODULE PciScan -------------------------------
(***************************************************************************)
(* lfdk's scan for PCI functions, the choice of an MMIO base before it,    *)
(* and its test for PCIe (pci_scan_init, ScanPCIDevice, AssignMMIOBase,    *)
(* lfdk/lib_pci_scan.c).  A step is a request to the driver, or two that   *)
(* always follow each other.  Devices and functions of a bus are its slots.*)
(***************************************************************************)
EXTENDS PciIds, Mcfg, FiniteSets

CONSTANTS
    BUSES,           \* LFDK_MAX_PCIBUS, the values an unsigned char bus takes
    SLOTS,           \* 32 devices of 8 functions
    maxpcibus,       \* -b
    LFDK_MAX_PCIBUF, \* records of lfdd_pci_list
    WALK_LIMIT,
    Regs,            \* registers that a capability pointer names; 0 is one
    CAP_ID_PCIE,
    Boots            \* the machines, and what lfdk is started with

VARIABLES
    machine,         \* what is in the slots
    given,           \* -B, the MCFG table, pci.ids and where RAM ends
    pcix_mmio_base,  \* 0 for none
    pc, bus, slot,
    phy_base,        \* lfdd_pci_data.phy_base, 0 for the ports
    reg,             \* lfdd_pci_data.reg
    cap,             \* cap_id and cap_next
    walk_limit,
    tmp_buf,         \* register 0 as read through the ports
    lfdd_pci_list    \* the first pci_list_len records

vars == <<machine, given, pcix_mmio_base, pc, bus, slot, phy_base, reg, cap,
          walk_limit, tmp_buf, lfdd_pci_list>>

Slots == (0 .. BUSES - 1) \X (0 .. SLOTS - 1)

\* An empty slot answers with ones.  A function has its vendor and device ID
\* through the ports, and what stands at its place above the MMIO base; the
\* capability pointer, and the two bytes at each register a pointer may lead to.
Absent == [there |-> FALSE]
Function == [there : {TRUE}, id : Nat \X Nat, ecam : Nat \X Nat, first : Regs,
             word : [Regs -> [id : Nat, next : Regs]]]

\* main refuses -b 256 and above, and -B from 4G on.
ASSUME ScanAssumption ==
    /\ BUSES \in 1 .. 256 /\ SLOTS \in 1 .. 256 /\ maxpcibus < BUSES /\ maxpcibus \in Nat
    /\ LFDK_MAX_PCIBUF \in Nat \ {0}
    /\ BUSES * 256 * ECAM_SIZE <= FOUR_GB
    /\ Regs \subseteq 0 .. 255 /\ 0 \in Regs
    /\ WALK_LIMIT \in Nat /\ Cardinality(Regs) <= WALK_LIMIT
    /\ \A b \in Boots :
          /\ b.machine \in [Slots -> Function \cup {Absent}]
          /\ b.option \in 0 .. FOUR_GB - 1 /\ b.mcfg \in Table
          /\ b.ids \in Seq(Line) /\ Sorted(b.ids)
          /\ b.high_memory \in Nat

\* What a request reaches: the driver's address, as the machine reads it.  A
\* request that the driver refuses is answered with ones.
Answer(base) ==
    LET addr == lfdd_cal_pcix_addr(bus, slot, reg, base)
        at == FunctionAt(addr, base)
    IN  IF at \in Slots /\ ~Refused(addr, base, given.high_memory) THEN machine[at] ELSE Absent

\* What answers by the base that is left in the request
Here == Answer(phy_base)

NoCap == [id |-> 0, next |-> 0]

Init ==
    /\ \E b \in Boots :
          /\ machine = b.machine
          /\ given = [option |-> b.option, mcfg |-> b.mcfg, ids |-> b.ids,
                      high_memory |-> b.high_memory]
    /\ pcix_mmio_base = 0
    /\ pc = "init"
    /\ bus = 0 /\ slot = 0
    /\ phy_base = 0 /\ reg = 0 /\ cap = NoCap
    /\ walk_limit = WALK_LIMIT /\ tmp_buf = <<0, 0>>
    /\ lfdd_pci_list = <<>>

Goto(l) == pc' = l

\* pci_scan_init; the scan itself begins with the window's first paint.
PciScanInit ==
    /\ pc = "init"
    /\ pcix_mmio_base' \in Bases(given.option, given.mcfg)
    /\ Goto(IF maxpcibus > 0 THEN "probe" ELSE "done")
    /\ UNCHANGED <<machine, given, bus, slot, phy_base, reg, cap, walk_limit, tmp_buf,
                   lfdd_pci_list>>

\* Slip: each bus but the first starts with its second slot.
NextSlot_SkipsFirst ==
    IF slot + 1 < SLOTS
    THEN slot' = slot + 1 /\ UNCHANGED bus /\ Goto("probe")
    ELSE /\ slot' = 1 /\ bus' = (bus + 1) % BUSES
         /\ Goto(IF bus' < maxpcibus THEN "probe" ELSE "done")

\* The three loops of ScanPCIDevice
NextSlot ==
    IF slot + 1 < SLOTS
    THEN slot' = slot + 1 /\ UNCHANGED bus /\ Goto("probe")
    ELSE /\ slot' = 0 /\ bus' = (bus + 1) % BUSES
         /\ Goto(IF bus' < maxpcibus THEN "probe" ELSE "done")

\* The vendor ID
ProbeBy(base) ==
    /\ pc = "probe"
    /\ reg' = 0 /\ phy_base' = base
    /\ IF Answer(base).there THEN Goto("read_id") /\ UNCHANGED <<bus, slot>> ELSE NextSlot
    /\ UNCHANGED <<machine, given, pcix_mmio_base, cap, walk_limit, tmp_buf, lfdd_pci_list>>

\* Slip: the base that the function before it was tried by is left in the request.
Probe_KeepsBase == ProbeBy(phy_base)

Probe == ProbeBy(0)

Texts == GetVendorAndDeviceTexts(given.ids, Here.id[1], Here.id[2])

Record(base) ==
    lfdd_pci_list' = Append(lfdd_pci_list,
        [bus |-> bus, slot |-> slot, ventxt |-> Texts.ventxt, devtxt |-> Texts.devtxt,
         phy_base |-> base])

\* Slip: the test for a full list comes one record late.
MoveToNext_Late(base) ==
    /\ Record(base)
    /\ IF Len(lfdd_pci_list') > LFDK_MAX_PCIBUF
       THEN Goto("done") /\ UNCHANGED <<bus, slot>>
       ELSE NextSlot

\* Move to next record, unless the list is full: then the scan stops.
MoveToNext(base) ==
    /\ Record(base)
    /\ IF Len(lfdd_pci_list') >= LFDK_MAX_PCIBUF
       THEN Goto("done") /\ UNCHANGED <<bus, slot>>
       ELSE NextSlot

\* The device ID, and if there is a base the capability pointer; the rest
\* is AssignMMIOBase.
ReadId ==
    /\ pc = "read_id"
    /\ IF pcix_mmio_base = 0
       THEN MoveToNext(0) /\ UNCHANGED <<reg, walk_limit>>
       ELSE /\ Goto("first_cap") /\ walk_limit' = WALK_LIMIT
            /\ reg' = Here.first
            /\ UNCHANGED <<bus, slot, lfdd_pci_list>>
    /\ UNCHANGED <<machine, given, pcix_mmio_base, phy_base, cap, tmp_buf>>

\* The word at reg: a capability's ID and the pointer to the next one.  A
\* pointer of 0 is followed once, so register 0 is taken for a capability.
ReadCap ==
    /\ cap' = Here.word[reg]
    /\ Goto("walk")
    /\ UNCHANGED <<machine, given, pcix_mmio_base, bus, slot, phy_base, reg, tmp_buf, lfdd_pci_list>>

FirstCap == pc = "first_cap" /\ ReadCap /\ UNCHANGED walk_limit

\* Slip: the walk is not counted.
WalkOn_Uncounted ==
    /\ pc = "walk" /\ walk_limit > 0 /\ cap.next # 0 /\ cap.id # CAP_ID_PCIE
    /\ cap' = Here.word[cap.next] /\ reg' = cap.next
    /\ UNCHANGED <<machine, given, pcix_mmio_base, pc, bus, slot, phy_base, walk_limit, tmp_buf,
                   lfdd_pci_list>>

\* The body of the while loop
WalkOn ==
    /\ pc = "walk" /\ walk_limit > 0 /\ cap.next # 0 /\ cap.id # CAP_ID_PCIE
    /\ walk_limit' = walk_limit - 1
    /\ cap' = Here.word[cap.next] /\ reg' = cap.next
    /\ UNCHANGED <<machine, given, pcix_mmio_base, pc, bus, slot, phy_base, tmp_buf, lfdd_pci_list>>

\* Slip: a list that ends in the PCIe capability is given up.
WalkEnds_LastLost ==
    /\ pc = "walk" /\ (walk_limit = 0 \/ cap.next = 0 \/ cap.id = CAP_ID_PCIE)
    /\ reg' = 0
    /\ IF cap.id = CAP_ID_PCIE /\ cap.next # 0
       THEN Goto("compare_port") /\ UNCHANGED <<bus, slot, lfdd_pci_list>>
       ELSE MoveToNext(0)
    /\ UNCHANGED <<machine, given, pcix_mmio_base, phy_base, cap, walk_limit, tmp_buf>>

\* Its end; if the last capability read is not PCI Express, so is the function.
WalkEnds ==
    /\ pc = "walk" /\ (walk_limit = 0 \/ cap.next = 0 \/ cap.id = CAP_ID_PCIE)
    /\ reg' = 0
    /\ IF cap.id = CAP_ID_PCIE
       THEN Goto("compare_port") /\ UNCHANGED <<bus, slot, lfdd_pci_list>>
       ELSE MoveToNext(0)
    /\ UNCHANGED <<machine, given, pcix_mmio_base, phy_base, cap, walk_limit, tmp_buf>>

\* Registers 0..3 through the ports; zero is no proof of anything.
ComparePort ==
    /\ pc = "compare_port"
    /\ tmp_buf' = Answer(0).id
    /\ phy_base' = 0
    /\ IF Answer(0).id = <<0, 0>>
       THEN MoveToNext(0)
       ELSE Goto("compare_mmio") /\ UNCHANGED <<bus, slot, lfdd_pci_list>>
    /\ UNCHANGED <<machine, given, pcix_mmio_base, reg, cap, walk_limit>>

\* Whether MMIO shows what the ports showed.
Confirmed(base) == Answer(base).there /\ Answer(base).ecam = tmp_buf

\* Slip: the base is kept whatever it shows.
CompareMmio_Unconfirmed ==
    /\ pc = "compare_mmio"
    /\ phy_base' = pcix_mmio_base
    /\ MoveToNext(pcix_mmio_base)
    /\ UNCHANGED <<machine, given, pcix_mmio_base, reg, cap, walk_limit, tmp_buf>>

\* The same through the base: only a base that shows the same is kept.
CompareMmio ==
    /\ pc = "compare_mmio"
    /\ phy_base' = pcix_mmio_base
    /\ MoveToNext(IF Confirmed(pcix_mmio_base) THEN pcix_mmio_base ELSE 0)
    /\ UNCHANGED <<machine, given, pcix_mmio_base, reg, cap, walk_limit, tmp_buf>>

Done == pc = "done" /\ UNCHANGED vars

Next ==
    \/ PciScanInit \/ Probe \/ ReadId \/ FirstCap \/ WalkOn \/ WalkEnds
    \/ ComparePort \/ CompareMmio \/ Done

Spec == Init /\ [][Next]_vars

\* Nothing the scan does waits for anything but the driver's answer.
FairSpec == Spec /\ WF_vars(Next)

-----------------------------------------------------------------------------
\* The reference: where the capability pointers of f lead, in the smallest set
\* of registers that they do not lead out of, and without a counter.
Closed(f, set) ==
    \A r \in set : f.word[r].next # 0 /\ f.word[r].id # CAP_ID_PCIE => f.word[r].next \in set

Reached(f) ==
    {r \in Regs : \A set \in SUBSET Regs : f.first \in set /\ Closed(f, set) => r \in set}

IsPcie(f) == \E r \in Reached(f) : f.word[r].id = CAP_ID_PCIE

\* The order of the loops
Before(s, t) == s[1] < t[1] \/ (s[1] = t[1] /\ s[2] < t[2])

Present(upto) == {s \in Slots : s[1] < upto /\ machine[s].there}

Listed == {<<lfdd_pci_list[n].bus, lfdd_pci_list[n].slot>> : n \in DOMAIN lfdd_pci_list}

\* Every variable holds a value of its type; the list never outgrows its array.
TypeOK ==
    /\ bus \in 0 .. BUSES - 1 /\ slot \in 0 .. SLOTS - 1
    /\ reg \in Regs /\ cap.next \in Regs /\ walk_limit \in 0 .. WALK_LIMIT
    /\ Len(lfdd_pci_list) <= LFDK_MAX_PCIBUF
    /\ phy_base \in {0, pcix_mmio_base}

\* What is listed is there, is listed once, and no function before it in the
\* order of the loops is left out; and a scan that ends with room in the list has
\* listed every function of the buses below maxpcibus, whatever base the function
\* before it was tried by (ScanPCIDevice).  Of bus maxpcibus itself, which the
\* usage text includes and the loop does not, this says nothing.
ListComplete ==
    /\ Listed \subseteq Present(BUSES)
    /\ Cardinality(Listed) = Len(lfdd_pci_list)
    /\ \A s \in Listed, t \in Present(BUSES) : Before(t, s) => t \in Listed
    /\ pc = "done" => \/ Present(maxpcibus) \subseteq Listed
                      \/ Len(lfdd_pci_list) = LFDK_MAX_PCIBUF

\* The 256 bytes that hold the first registers of record r lie above RAM and
\* below 4G, wherever -B has the range start.
Reachable(r) ==
    LET start == pcix_mmio_base + (r.bus * 256 + r.slot) * 4096
        window == start - (start % 256)
    IN  given.high_memory < window + 256 /\ window + 256 < FOUR_GB

FunctionOf(r) == machine[<<r.bus, r.slot>>]

\* A PCI Express function that shows above the base as it does through the ports
ShownPcie(f) == IsPcie(f) /\ f.id # <<0, 0>> /\ f.ecam = f.id


\* Of the functions that have capabilities those get a base (the '*' of the list)
\* whose pointers, followed however far they go, lead to PCI Express, that show
\* above the base as through the ports, and that the driver lets MMIO reach.
\* The pointers may form a cycle; the walk of 64 still decides (AssignMMIOBase).
\* A function without any is left out: its vendor ID is read as a capability.
StarIffShown ==
    \A n \in DOMAIN lfdd_pci_list :
        LET r == lfdd_pci_list[n]
            f == FunctionOf(r)
        IN  f.first # 0 =>
                (r.phy_base # 0 <=> pcix_mmio_base # 0 /\ Reachable(r) /\ ShownPcie(f))

\* The scan tries MMIO on the first registers of a function only.  That is
\* enough: each page of 256 that the editor can turn to in the 4K of a function
\* with a star is then answered, and by that function (lfdd_cal_pcix_addr).
StarsServed ==
    \A n \in DOMAIN lfdd_pci_list, page \in {256 * k : k \in 0 .. 15} :
        LET r == lfdd_pci_list[n]
            addr == lfdd_cal_pcix_addr(r.bus, r.slot, page, r.phy_base)
        IN  r.phy_base \in EcamBases =>
                /\ FunctionAt(addr, r.phy_base) = <<r.bus, r.slot>>
                /\ ~Refused(addr, r.phy_base, given.high_memory)

\* The scan ends, even where the capability pointers form a cycle.
ScanEnds == <>(pc = "done")

\* How far the scan is: the slots behind it, each worth the longest way through
\* a slot, and the way made in this one.
Stage ==
    CASE pc = "probe" -> 0
      [] pc = "read_id" -> 1
      [] pc = "first_cap" -> 2
      [] pc = "walk" -> 3 + WALK_LIMIT - walk_limit
      [] pc = "compare_port" -> 4 + WALK_LIMIT
      [] OTHER -> 5 + WALK_LIMIT

Longest == 6 + WALK_LIMIT

Progress ==
    CASE pc = "init" -> 0
      [] pc = "done" -> 1 + maxpcibus * SLOTS * Longest
      [] OTHER -> 1 + (bus * SLOTS + slot) * Longest + Stage

\* No step leads back, whatever the machine answers: the scan is over after at
\* most as many steps as there are slots times the longest way through one, and
\* it is the counter of the walk that bounds that way (ScanPCIDevice).
ScanAdvances == [][Progress < Progress' /\ Progress' <= 1 + maxpcibus * SLOTS * Longest]_vars

\* lfdk goes by the base it was given, or by that of a table whose length is what
\* was read of it.  One case is left in which part of the base was never read, a
\* length that ends inside it (find_mmio_in_MCFG).
BaseWasRead ==
    LET t == given.mcfg
    IN  pcix_mmio_base # 0 /\ pcix_mmio_base # given.option =>
            /\ t.length = byte_count(t)
            /\ \/ pcix_mmio_base = t.base
               \/ byte_count(t) \in HEADER + 1 .. HEADER + 7 /\ pcix_mmio_base \in Garbage

\* A function that pci.ids names in plain lines is listed by those names, in
\* whichever section they stand.
NamesFound ==
    \A n \in DOMAIN lfdd_pci_list :
        LET r == lfdd_pci_list[n]
            id == FunctionOf(r).id
        IN  \A m \in VendorLines(given.ids, id[1]), d \in DeviceLines(given.ids, id[1], id[2]) :
                given.ids[m].sharp = "nowhere" /\ given.ids[d].sharp = "nowhere" =>
                    r.ventxt = given.ids[m].text /\ r.devtxt = given.ids[d].text

\* A function is listed by no name but one that pci.ids has for its numbers: the
\* vendor's from a line of the vendor, the device's from a line of that device
\* below one of the vendor's, though it may be in another section.
NamesRead ==
    \A n \in DOMAIN lfdd_pci_list :
        LET r == lfdd_pci_list[n]
            id == FunctionOf(r).id
            ids == given.ids
        IN  /\ r.ventxt # NoText => \E m \in VendorLines(ids, id[1]) : r.ventxt = ids[m].text
            /\ r.devtxt # NoText =>
                  \E m \in VendorLines(ids, id[1]), d \in DOMAIN ids :
                      /\ m < d /\ IsDevice(ids[d]) /\ ids[d].id = id[2]
                      /\ r.devtxt = ids[d].text

\* The names of a function are right in both directions: what can be found is
\* found, and nothing else is shown (GetVendorAndDeviceTexts).
NamesRight == NamesFound /\ NamesRead

\* pci.ids: a device's lines stand below their vendor's, so a function is only
\* listed by the name its own vendor gives it.
NamesOwn ==
    \A n \in DOMAIN lfdd_pci_list :
        LET r == lfdd_pci_list[n]
            id == FunctionOf(r).id
        IN  r.devtxt # NoText =>
                \E d \in DeviceLines(given.ids, id[1], id[2]) : r.devtxt = given.ids[d].text

=============================================================================
