---------------------------- MODULE PciScan_proofs ----------------------------
(***************************************************************************)
(* Proofs about the scan, for every machine, every MCFG table and file of  *)
(* names, every number of buses and every size of the list.                *)
(***************************************************************************)
EXTENDS PciScan, PciAddress_proofs, FiniteSetTheorems, WellFoundedInduction

-----------------------------------------------------------------------------
\* The list and the slots.

\* What Append does to the list.
LEMMA AppendFacts ==
    ASSUME NEW S, NEW s \in Seq(S), NEW r
    PROVE  /\ Len(s) \in Nat /\ DOMAIN s = 1 .. Len(s)
           /\ Append(s, r) \in Seq(S \cup {r})
           /\ Len(Append(s, r)) = Len(s) + 1
           /\ DOMAIN Append(s, r) = 1 .. Len(s) + 1
           /\ \A n \in 1 .. Len(s) : Append(s, r)[n] = s[n]
           /\ Append(s, r)[Len(s) + 1] = r
<1>1. s \in Seq(S \cup {r}) /\ r \in S \cup {r} OBVIOUS
<1>2. Append(s, r) \in Seq(S \cup {r}) BY <1>1
<1> QED BY <1>1, <1>2

\* A request through the ports reaches the slot that is being scanned.
LEMMA HereIsSlot ==
    ASSUME bus \in 0 .. BUSES - 1, slot \in 0 .. SLOTS - 1, reg \in Regs
    PROVE  /\ <<bus, slot>> \in Slots /\ Answer(0) = machine[<<bus, slot>>]
           /\ phy_base = 0 => Here = machine[<<bus, slot>>]
<1>1. bus \in Byte /\ slot \in Byte /\ reg \in Byte
  BY ScanAssumption DEF Byte
<1>2. FunctionAt(lfdd_cal_pcix_addr(bus, slot, reg, 0), 0) = <<bus, slot>>
  BY <1>1, AnswersForItself
<1>3. <<bus, slot>> \in Slots BY DEF Slots
<1>4. ~Refused(lfdd_cal_pcix_addr(bus, slot, reg, 0), 0, given.high_memory) BY DEF Refused
<1>5. Answer(0) = machine[<<bus, slot>>] BY <1>2, <1>3, <1>4 DEF Answer
<1> QED BY <1>3, <1>5 DEF Here

-----------------------------------------------------------------------------
\* The inductive invariant.

\* The machine and what lfdk was started with do not change.
BootInv ==
    \E b \in Boots :
        /\ machine = b.machine
        /\ given = [option |-> b.option, mcfg |-> b.mcfg, ids |-> b.ids,
                    high_memory |-> b.high_memory]

InFunction == {"read_id", "first_cap", "walk", "compare_port", "compare_mmio"}

ScanTypeInv ==
    /\ bus \in 0 .. BUSES - 1 /\ slot \in 0 .. SLOTS - 1
    /\ reg \in Regs /\ cap \in [id : Nat, next : Regs] /\ walk_limit \in 0 .. WALK_LIMIT
    /\ phy_base \in {0, pcix_mmio_base}
    /\ pc \in {"init", "probe", "done"} \cup InFunction

\* Between the probe and the record there is a function in the slot, and the
\* ports are asked for it.
StageInv ==
    /\ pc = "init" => bus = 0 /\ slot = 0
    /\ pc \notin {"probe", "done"} => phy_base = 0
    /\ pc \in InFunction => machine[<<bus, slot>>].there

\* The functions that the loops have passed.
Scanned ==
    {s \in Slots : machine[s].there /\ (s[1] < bus \/ (s[1] = bus /\ s[2] < slot))}

\* They are the ones listed, and there is room for the next; when the list is
\* full the scan stops at the last one listed.
ListInv ==
    /\ \E S : lfdd_pci_list \in Seq(S)
    /\ IsFiniteSet(Listed) /\ Cardinality(Listed) = Len(lfdd_pci_list)
    /\ Len(lfdd_pci_list) <= LFDK_MAX_PCIBUF
    /\ Listed \subseteq Present(BUSES)
    /\ pc # "done" => Len(lfdd_pci_list) < LFDK_MAX_PCIBUF /\ Listed = Scanned
    /\ pc \notin {"init", "done"} => bus < maxpcibus
    /\ Listed \in {Scanned, Scanned \cup {<<bus, slot>>}}
    /\ pc = "done" => Listed = Present(maxpcibus) \/ Len(lfdd_pci_list) = LFDK_MAX_PCIBUF

ScanInv == BootInv /\ ScanTypeInv /\ StageInv /\ ListInv

LEMMA MachineType ==
    ASSUME BootInv
    PROVE  machine \in [Slots -> Function \cup {Absent}]
BY ScanAssumption DEF BootInv

\* What is read of a function has its type.
LEMMA FunctionFacts ==
    ASSUME BootInv, ScanTypeInv, machine[<<bus, slot>>].there, phy_base = 0
    PROVE  /\ Here = machine[<<bus, slot>>] /\ <<bus, slot>> \in Slots
           /\ Here.first \in Regs /\ Here.id \in Nat \X Nat
           /\ \A r \in Regs : Here.word[r] \in [id : Nat, next : Regs]
<1>1. <<bus, slot>> \in Slots /\ Here = machine[<<bus, slot>>]
  BY HereIsSlot DEF ScanTypeInv
<1>2. Here \in Function \cup {Absent} /\ Here.there BY <1>1, MachineType
<1>3. Here # Absent BY <1>2 DEF Absent
<1>4. Here \in Function BY <1>2, <1>3
<1> QED BY <1>1, <1>4 DEF Function

\* The loops of ScanPCIDevice lead to the next slot and never past the last bus
\* that is scanned, so that bus, an unsigned char, does not wrap.
LEMMA NextSlotFacts ==
    ASSUME ScanTypeInv, bus < maxpcibus, NextSlot
    PROVE  /\ bus' \in 0 .. BUSES - 1 /\ slot' \in 0 .. SLOTS - 1
           /\ pc' \in {"probe", "done"}
           /\ pc' = "probe" => bus' < maxpcibus
           /\ pc' = "done" => bus' = maxpcibus /\ slot' = 0
           /\ \A s \in Slots :
                 s[1] < bus' \/ (s[1] = bus' /\ s[2] < slot')
                   <=> s[1] < bus \/ (s[1] = bus /\ s[2] < slot) \/ s = <<bus, slot>>
<1>1. /\ bus \in Nat /\ slot \in Nat /\ maxpcibus \in Nat /\ BUSES \in Nat /\ SLOTS \in Nat
      /\ bus < BUSES /\ slot < SLOTS /\ maxpcibus < BUSES
  BY ScanAssumption DEF ScanTypeInv
<1>2. \A s \in Slots : /\ s = <<s[1], s[2]>> /\ s[1] \in Nat /\ s[2] \in Nat /\ s[2] < SLOTS
  BY <1>1 DEF Slots
<1>3. CASE slot + 1 < SLOTS
  <2>1. slot' = slot + 1 /\ bus' = bus /\ pc' = "probe" BY <1>3 DEF NextSlot, Goto
  <2>2. ASSUME NEW s \in Slots
        PROVE  s[1] < bus' \/ (s[1] = bus' /\ s[2] < slot')
                 <=> s[1] < bus \/ (s[1] = bus /\ s[2] < slot) \/ s = <<bus, slot>>
    <3>1. s = <<s[1], s[2]>> /\ s[1] \in Nat /\ s[2] \in Nat BY <1>2
    <3>2. s = <<bus, slot>> <=> s[1] = bus /\ s[2] = slot BY <3>1
    <3> QED BY <1>1, <2>1, <3>1, <3>2
  <2> QED BY <1>1, <1>3, <2>1, <2>2
<1>4. CASE ~(slot + 1 < SLOTS)
  <2>1. slot' = 0 /\ bus' = (bus + 1) % BUSES
        /\ pc' = IF bus' < maxpcibus THEN "probe" ELSE "done"
    BY <1>4 DEF NextSlot, Goto
  <2>2. bus + 1 < BUSES /\ bus + 1 <= maxpcibus BY <1>1
  <2>3. bus' = bus + 1
    <3>1. \A a, b \in Nat : a < b => a % b = a OBVIOUS
    <3> QED BY <1>1, <2>1, <2>2, <3>1
  <2>4. ASSUME NEW s \in Slots
        PROVE  s[1] < bus' \/ (s[1] = bus' /\ s[2] < slot')
                 <=> s[1] < bus \/ (s[1] = bus /\ s[2] < slot) \/ s = <<bus, slot>>
    <3>1. s = <<s[1], s[2]>> /\ s[1] \in Nat /\ s[2] \in Nat /\ s[2] < SLOTS BY <1>2
    <3>2. s = <<bus, slot>> <=> s[1] = bus /\ s[2] = slot BY <3>1
    <3> QED BY <1>1, <1>4, <2>1, <2>3, <3>1, <3>2
  <2> QED BY <1>1, <2>1, <2>2, <2>3, <2>4
<1> QED BY <1>3, <1>4

\* Leaving a slot without a function, and leaving one with.
LEMMA SkipKeeps ==
    ASSUME BootInv, ScanTypeInv, ListInv, pc \notin {"init", "done"},
           ~machine[<<bus, slot>>].there, <<bus, slot>> \in Slots,
           NextSlot, UNCHANGED <<machine, lfdd_pci_list>>
    PROVE  ListInv'
<1>1. /\ bus < maxpcibus /\ Listed = Scanned BY DEF ListInv
<1>2. /\ pc' \in {"probe", "done"} /\ (pc' = "probe" => bus' < maxpcibus)
      /\ pc' = "done" => bus' = maxpcibus /\ slot' = 0
      /\ \A s \in Slots :
            s[1] < bus' \/ (s[1] = bus' /\ s[2] < slot')
              <=> s[1] < bus \/ (s[1] = bus /\ s[2] < slot) \/ s = <<bus, slot>>
  BY <1>1, NextSlotFacts
<1>3. Listed' = Listed /\ Present(BUSES)' = Present(BUSES) /\ Present(maxpcibus)' = Present(maxpcibus)
  BY DEF Listed, Present
<1>4. Scanned' = Scanned BY <1>2 DEF Scanned
<1>5. pc' = "done" => Listed' = Present(maxpcibus)'
  <2> SUFFICES ASSUME pc' = "done" PROVE Scanned' = Present(maxpcibus)'
    BY <1>1, <1>3, <1>4
  <2>1. bus' = maxpcibus /\ slot' = 0 BY <1>2
  <2>2. \A s \in Slots : s[2] \in Nat BY DEF Slots
  <2>3. \A s \in Slots : ~(s[2] < 0) BY <2>2
  <2> QED BY <2>1, <2>3 DEF Scanned, Present
<1>6. Len(lfdd_pci_list)' = Len(lfdd_pci_list) OBVIOUS
<1> QED BY <1>1, <1>2, <1>3, <1>4, <1>5, <1>6 DEF ListInv

LEMMA RecordFacts ==
    ASSUME BootInv, ScanTypeInv, ListInv, pc \in InFunction,
           machine[<<bus, slot>>].there, UNCHANGED machine, NEW b, Record(b)
    PROVE  /\ Listed' = Scanned \cup {<<bus, slot>>}
           /\ \E S : lfdd_pci_list' \in Seq(S)
           /\ IsFiniteSet(Listed') /\ Cardinality(Listed') = Len(lfdd_pci_list')
           /\ Len(lfdd_pci_list') \in Nat /\ Len(lfdd_pci_list') <= LFDK_MAX_PCIBUF
           /\ Listed' \subseteq Present(BUSES)'
<1> DEFINE r == [bus |-> bus, slot |-> slot, ventxt |-> Texts.ventxt, devtxt |-> Texts.devtxt,
                 phy_base |-> b]
           s == lfdd_pci_list
<1>1. lfdd_pci_list' = Append(s, r) BY DEF Record
<1>2. r.bus = bus /\ r.slot = slot OBVIOUS
<1>3. PICK S : s \in Seq(S) BY DEF ListInv
<1>4. /\ IsFiniteSet(Listed) /\ Cardinality(Listed) = Len(s) /\ Listed \subseteq Present(BUSES)
      /\ Len(s) < LFDK_MAX_PCIBUF /\ Listed = Scanned /\ LFDK_MAX_PCIBUF \in Nat
  BY ScanAssumption DEF ListInv, InFunction
<1>5. <<bus, slot>> \in Slots BY HereIsSlot DEF ScanTypeInv
<1> HIDE DEF r
<1>6. /\ Len(s) \in Nat /\ DOMAIN s = 1 .. Len(s)
      /\ Append(s, r) \in Seq(S \cup {r})
      /\ Len(Append(s, r)) = Len(s) + 1
      /\ DOMAIN Append(s, r) = 1 .. Len(s) + 1
      /\ \A n \in 1 .. Len(s) : Append(s, r)[n] = s[n]
      /\ Append(s, r)[Len(s) + 1] = r
  BY <1>3, AppendFacts
<1>7. Listed' = Listed \cup {<<bus, slot>>}
  <2> DEFINE t == lfdd_pci_list'
             k == Len(s)
  <2>1. Listed' = {<<t[n].bus, t[n].slot>> : n \in DOMAIN t} BY DEF Listed
  <2>2. Listed = {<<s[n].bus, s[n].slot>> : n \in DOMAIN s} BY DEF Listed
  <2>3. /\ k \in Nat /\ DOMAIN s = 1 .. k /\ DOMAIN t = 1 .. k + 1
        /\ \A n \in 1 .. k : t[n] = s[n]
        /\ t[k + 1] = r
    BY <1>1, <1>6
  <2> HIDE DEF s, t, k
  <2>4. 1 .. k + 1 = 1 .. k \cup {k + 1} BY <2>3
  <2> QED BY <1>2, <2>1, <2>2, <2>3, <2>4
<1>8. <<bus, slot>> \notin Listed
  <2>1. ~(bus < bus) /\ ~(slot < slot) BY DEF ScanTypeInv
  <2> QED BY <1>4, <2>1 DEF Scanned
<1>9. IsFiniteSet(Listed') /\ Cardinality(Listed') = Cardinality(Listed) + 1
  BY <1>4, <1>7, <1>8, FS_AddElement
<1>10. <<bus, slot>> \in Present(BUSES)
  <2>0. BUSES \in Nat /\ bus \in 0 .. BUSES - 1 BY ScanAssumption DEF ScanTypeInv
  <2>1. bus < BUSES BY <2>0
  <2> QED BY <1>5, <2>1 DEF Present
<1>11. Present(BUSES)' = Present(BUSES) BY DEF Present
<1>12. Len(lfdd_pci_list') = Len(s) + 1 BY <1>1, <1>6
<1>13. Len(lfdd_pci_list') \in Nat /\ Len(lfdd_pci_list') <= LFDK_MAX_PCIBUF
  <2> DEFINE k == Len(s)
             m == Len(lfdd_pci_list')
  <2>1. m = k + 1 /\ k \in Nat /\ k < LFDK_MAX_PCIBUF /\ LFDK_MAX_PCIBUF \in Nat
    BY <1>4, <1>6, <1>12
  <2> HIDE DEF k, m
  <2>2. m \in Nat /\ m <= LFDK_MAX_PCIBUF BY <2>1
  <2> QED BY <2>2 DEF m
<1>14. \E T : lfdd_pci_list' \in Seq(T) BY <1>1, <1>6
<1> QED BY <1>4, <1>7, <1>9, <1>10, <1>11, <1>12, <1>13, <1>14

LEMMA MoveKeeps ==
    ASSUME BootInv, ScanTypeInv, ListInv, pc \in InFunction,
           machine[<<bus, slot>>].there, UNCHANGED machine, NEW b, MoveToNext(b)
    PROVE  /\ ListInv' /\ pc' \in {"probe", "done"}
           /\ bus' \in 0 .. BUSES - 1 /\ slot' \in 0 .. SLOTS - 1
<1> DEFINE k == Len(lfdd_pci_list')
<1>1. /\ Listed' = Scanned \cup {<<bus, slot>>}
      /\ \E S : lfdd_pci_list' \in Seq(S)
      /\ IsFiniteSet(Listed') /\ Cardinality(Listed') = k
      /\ k \in Nat /\ k <= LFDK_MAX_PCIBUF
      /\ Listed' \subseteq Present(BUSES)'
  BY RecordFacts DEF MoveToNext
<1>2. bus < maxpcibus /\ <<bus, slot>> \in Slots /\ LFDK_MAX_PCIBUF \in Nat
  BY HereIsSlot, ScanAssumption DEF ListInv, InFunction, ScanTypeInv
<1>3. CASE k >= LFDK_MAX_PCIBUF
  <2>1. pc' = "done" /\ UNCHANGED <<bus, slot>> BY <1>3 DEF MoveToNext, Goto
  <2>2. k = LFDK_MAX_PCIBUF
    <3> HIDE DEF k
    <3> QED BY <1>1, <1>2, <1>3
  <2>3. Scanned' = Scanned BY <2>1 DEF Scanned
  <2> QED BY <1>1, <2>1, <2>2, <2>3 DEF ListInv, ScanTypeInv
<1>4. CASE ~(k >= LFDK_MAX_PCIBUF)
  <2>0. NextSlot BY <1>4 DEF MoveToNext
  <2>1. /\ pc' \in {"probe", "done"} /\ (pc' = "probe" => bus' < maxpcibus)
        /\ bus' \in 0 .. BUSES - 1 /\ slot' \in 0 .. SLOTS - 1
        /\ pc' = "done" => bus' = maxpcibus /\ slot' = 0
        /\ \A s \in Slots :
              s[1] < bus' \/ (s[1] = bus' /\ s[2] < slot')
                <=> s[1] < bus \/ (s[1] = bus /\ s[2] < slot) \/ s = <<bus, slot>>
    BY <1>2, <2>0, NextSlotFacts
  <2>2. Listed' = Scanned'
    <3>1. \A s \in Slots : s \in Scanned' <=> s \in Scanned \/ s = <<bus, slot>>
      BY <2>1 DEF Scanned
    <3>2. Scanned \subseteq Slots /\ Scanned' \subseteq Slots BY DEF Scanned
    <3> QED BY <1>1, <1>2, <3>1, <3>2
  <2>3. pc' = "done" => Listed' = Present(maxpcibus)'
    <3> SUFFICES ASSUME pc' = "done" PROVE Scanned' = Present(maxpcibus)'
      BY <2>2
    <3>1. bus' = maxpcibus /\ slot' = 0 BY <2>1
    <3>2. \A s \in Slots : s[2] \in Nat BY DEF Slots
    <3>3. \A s \in Slots : ~(s[2] < 0) BY <3>2
    <3> QED BY <3>1, <3>3 DEF Scanned, Present
  <2>4. k < LFDK_MAX_PCIBUF
    <3> HIDE DEF k
    <3> QED BY <1>1, <1>2, <1>4
  <2> QED BY <1>1, <2>1, <2>2, <2>3, <2>4 DEF ListInv
<1> QED BY <1>3, <1>4

\* A step inside a function leaves the list and the slot alone.
LEMMA StayKeeps ==
    ASSUME ListInv, pc \in InFunction, pc' \in InFunction,
           UNCHANGED <<machine, bus, slot, lfdd_pci_list>>
    PROVE  ListInv'
<1>1. /\ Listed' = Listed /\ Scanned' = Scanned /\ Present(BUSES)' = Present(BUSES)
      /\ Len(lfdd_pci_list)' = Len(lfdd_pci_list)
  BY DEF Listed, Scanned, Present
<1> QED BY <1>1 DEF ListInv, InFunction

LEMMA ScanStep ==
    ASSUME ScanInv, [Next]_vars
    PROVE  ScanInv'
<1>1. BootInv /\ ScanTypeInv /\ StageInv /\ ListInv BY DEF ScanInv
<1>2. UNCHANGED <<machine, given>> BY DEF Next, vars, PciScanInit, Probe, ProbeBy, ReadId, FirstCap,
        ReadCap, WalkOn, WalkEnds, ComparePort, CompareMmio, Done
<1>3. BootInv' BY <1>1, <1>2 DEF BootInv
<1>4. 0 \in Regs /\ WALK_LIMIT \in Nat BY ScanAssumption
<1>5. pc \in InFunction =>
        /\ Here.first \in Regs /\ machine[<<bus, slot>>].there
        /\ \A r \in Regs : Here.word[r] \in [id : Nat, next : Regs]
  BY <1>1, FunctionFacts DEF StageInv, InFunction
<1>6. ASSUME NEW b, MoveToNext(b), pc \in InFunction
      PROVE  /\ ListInv' /\ pc' \in {"probe", "done"}
             /\ bus' \in 0 .. BUSES - 1 /\ slot' \in 0 .. SLOTS - 1
  BY <1>1, <1>2, <1>5, <1>6, MoveKeeps
<1>7. CASE PciScanInit
  <2>1. /\ pc = "init" /\ pc' = IF maxpcibus > 0 THEN "probe" ELSE "done"
        /\ UNCHANGED <<machine, bus, slot, phy_base, reg, cap, walk_limit, lfdd_pci_list>>
    BY <1>7 DEF PciScanInit, Goto
  <2>2. /\ bus = 0 /\ slot = 0 /\ phy_base = 0 BY <1>1, <2>1 DEF StageInv
  <2>3. ScanTypeInv' BY <1>1, <2>1, <2>2 DEF ScanTypeInv
  <2>4. StageInv' BY <2>1 DEF StageInv, InFunction
  <2>5. /\ Listed' = Listed /\ Scanned' = Scanned /\ Present(BUSES)' = Present(BUSES)
        /\ Present(maxpcibus)' = Present(maxpcibus)
        /\ Len(lfdd_pci_list)' = Len(lfdd_pci_list)
    BY <2>1 DEF Listed, Scanned, Present
  <2>6. ~(maxpcibus > 0) => Listed = Present(maxpcibus)
    <3> SUFFICES ASSUME ~(maxpcibus > 0) PROVE Scanned = Present(maxpcibus)
      BY <1>1, <2>1 DEF ListInv
    <3>1. maxpcibus = 0 BY ScanAssumption
    <3>2. \A s \in Slots : s[1] \in Nat /\ s[2] \in Nat BY DEF Slots
    <3>3. \A s \in Slots : ~(s[1] < 0) /\ ~(s[2] < 0) BY <3>2
    <3> QED BY <2>2, <3>1, <3>3 DEF Scanned, Present
  <2>7. maxpcibus > 0 => 0 < maxpcibus BY ScanAssumption
  <2>8. ListInv' BY <1>1, <2>1, <2>2, <2>5, <2>6, <2>7 DEF ListInv
  <2> QED BY <1>3, <2>3, <2>4, <2>8 DEF ScanInv
<1>8. CASE Probe
  <2>1. /\ pc = "probe" /\ reg' = 0 /\ phy_base' = 0
        /\ UNCHANGED <<machine, pcix_mmio_base, cap, walk_limit, lfdd_pci_list>>
    BY <1>8 DEF Probe, ProbeBy
  <2>2. <<bus, slot>> \in Slots /\ Answer(0) = machine[<<bus, slot>>]
    BY <1>1, HereIsSlot DEF ScanTypeInv
  <2>3. CASE Answer(0).there
    <3>1. pc' = "read_id" /\ UNCHANGED <<bus, slot>> BY <1>8, <2>3 DEF Probe, ProbeBy, Goto
    <3>2. ScanTypeInv' BY <1>1, <1>4, <2>1, <3>1 DEF ScanTypeInv, InFunction
    <3>3. StageInv' BY <2>1, <2>2, <2>3, <3>1 DEF StageInv
    <3>4. /\ Listed' = Listed /\ Scanned' = Scanned /\ Present(BUSES)' = Present(BUSES)
          /\ Len(lfdd_pci_list)' = Len(lfdd_pci_list)
      BY <2>1, <3>1 DEF Listed, Scanned, Present
    <3>5. ListInv' BY <1>1, <2>1, <3>1, <3>4 DEF ListInv
    <3> QED BY <1>3, <3>2, <3>3, <3>5 DEF ScanInv
  <2>4. CASE ~Answer(0).there
    <3>1. NextSlot BY <1>8, <2>4 DEF Probe, ProbeBy
    <3>2. ListInv' BY <1>1, <2>1, <2>2, <2>4, <3>1, SkipKeeps
    <3>3. bus < maxpcibus BY <1>1, <2>1 DEF ListInv
    <3>4. /\ bus' \in 0 .. BUSES - 1 /\ slot' \in 0 .. SLOTS - 1
          /\ pc' \in {"probe", "done"}
      BY <1>1, <3>1, <3>3, NextSlotFacts
    <3>5. ScanTypeInv' BY <1>1, <1>4, <2>1, <3>4 DEF ScanTypeInv
    <3>6. StageInv' BY <3>4 DEF StageInv, InFunction
    <3> QED BY <1>3, <3>2, <3>5, <3>6 DEF ScanInv
  <2> QED BY <2>3, <2>4
\* A step inside a function either stays in it, or records it and moves on.
<1>9. ASSUME pc \in InFunction,
             reg' \in Regs, cap' \in [id : Nat, next : Regs], walk_limit' \in 0 .. WALK_LIMIT,
             phy_base' \in {0, pcix_mmio_base}, UNCHANGED pcix_mmio_base,
             \/ /\ pc' \in InFunction /\ UNCHANGED <<bus, slot, lfdd_pci_list>>
                /\ phy_base' = 0
             \/ \E b : MoveToNext(b)
      PROVE  ScanInv'
  <2>1. CASE /\ pc' \in InFunction /\ UNCHANGED <<bus, slot, lfdd_pci_list>>
             /\ phy_base' = 0
    <3>1. ListInv' BY <1>1, <1>2, <1>9, <2>1, StayKeeps
    <3>2. ScanTypeInv' BY <1>1, <1>9, <2>1 DEF ScanTypeInv
    <3>3. StageInv' BY <1>2, <1>5, <1>9, <2>1 DEF StageInv, InFunction
    <3> QED BY <1>3, <3>1, <3>2, <3>3 DEF ScanInv
  <2>2. ASSUME NEW b, MoveToNext(b) PROVE ScanInv'
    <3>1. /\ ListInv' /\ pc' \in {"probe", "done"}
          /\ bus' \in 0 .. BUSES - 1 /\ slot' \in 0 .. SLOTS - 1
      BY <1>6, <1>9, <2>2
    <3>2. ScanTypeInv' BY <1>9, <3>1 DEF ScanTypeInv
    <3>3. StageInv' BY <3>1 DEF StageInv, InFunction
    <3> QED BY <1>3, <3>1, <3>2, <3>3 DEF ScanInv
  <2> QED BY <1>9, <2>1, <2>2
<1>10. /\ reg \in Regs /\ cap \in [id : Nat, next : Regs] /\ walk_limit \in 0 .. WALK_LIMIT
       /\ phy_base \in {0, pcix_mmio_base} /\ WALK_LIMIT \in 0 .. WALK_LIMIT
       /\ pc \in InFunction => phy_base = 0
  BY <1>1, <1>4 DEF ScanTypeInv, StageInv, InFunction
<1>11. CASE ReadId
  <2>1. /\ pc \in InFunction /\ UNCHANGED <<pcix_mmio_base, phy_base, cap>>
    BY <1>11 DEF ReadId, InFunction
  <2>2. CASE pcix_mmio_base = 0
    <3>1. MoveToNext(0) /\ UNCHANGED <<reg, walk_limit>> BY <1>11, <2>2 DEF ReadId
    <3> QED BY <1>9, <1>10, <2>1, <3>1
  <2>3. CASE pcix_mmio_base # 0
    <3>1. /\ pc' = "first_cap" /\ walk_limit' = WALK_LIMIT /\ reg' = Here.first
          /\ UNCHANGED <<bus, slot, lfdd_pci_list>>
      BY <1>11, <2>3 DEF ReadId, Goto
    <3>2. pc' \in InFunction BY <3>1 DEF InFunction
    <3> QED BY <1>5, <1>9, <1>10, <2>1, <3>1, <3>2
  <2> QED BY <2>2, <2>3
<1>12. CASE FirstCap
  <2>1. /\ pc \in InFunction /\ pc' \in InFunction /\ cap' = Here.word[reg]
        /\ UNCHANGED <<pcix_mmio_base, phy_base, reg, walk_limit, bus, slot, lfdd_pci_list>>
    BY <1>12 DEF FirstCap, ReadCap, Goto, InFunction
  <2> QED BY <1>5, <1>9, <1>10, <2>1
<1>13. CASE WalkOn
  <2>1. /\ pc \in InFunction /\ pc' \in InFunction /\ cap' = Here.word[cap.next]
        /\ reg' = cap.next /\ walk_limit > 0 /\ walk_limit' = walk_limit - 1
        /\ UNCHANGED <<pcix_mmio_base, phy_base, bus, slot, lfdd_pci_list>>
    BY <1>13 DEF WalkOn, InFunction
  <2>2. cap.next \in Regs BY <1>10
  <2>3. walk_limit' \in 0 .. WALK_LIMIT BY <1>4, <1>10, <2>1
  <2> QED BY <1>5, <1>9, <1>10, <2>1, <2>2, <2>3
<1>14. CASE WalkEnds
  <2>1. /\ pc \in InFunction /\ reg' = 0
        /\ UNCHANGED <<pcix_mmio_base, phy_base, cap, walk_limit>>
    BY <1>14 DEF WalkEnds, InFunction
  <2>2. \/ pc' \in InFunction /\ UNCHANGED <<bus, slot, lfdd_pci_list>>
        \/ MoveToNext(0)
    BY <1>14 DEF WalkEnds, Goto, InFunction
  <2> QED BY <1>4, <1>9, <1>10, <2>1, <2>2
<1>15. CASE ComparePort
  <2>1. /\ pc \in InFunction /\ phy_base' = 0
        /\ UNCHANGED <<pcix_mmio_base, reg, cap, walk_limit>>
    BY <1>15 DEF ComparePort, InFunction
  <2>2. \/ pc' \in InFunction /\ UNCHANGED <<bus, slot, lfdd_pci_list>>
        \/ MoveToNext(0)
    BY <1>15 DEF ComparePort, Goto, InFunction
  <2> QED BY <1>9, <1>10, <2>1, <2>2
<1>16. CASE CompareMmio
  <2>1. /\ pc \in InFunction /\ phy_base' = pcix_mmio_base
        /\ UNCHANGED <<pcix_mmio_base, reg, cap, walk_limit>>
        /\ \E b : MoveToNext(b)
    BY <1>16 DEF CompareMmio, InFunction
  <2> QED BY <1>9, <1>10, <2>1
<1>17. CASE UNCHANGED vars
  <2>1. /\ Listed' = Listed /\ Scanned' = Scanned /\ Present(BUSES)' = Present(BUSES)
        /\ Present(maxpcibus)' = Present(maxpcibus)
        /\ Len(lfdd_pci_list)' = Len(lfdd_pci_list)
    BY <1>17 DEF vars, Listed, Scanned, Present
  <2>2. ScanTypeInv' /\ StageInv' BY <1>1, <1>17 DEF vars, ScanTypeInv, StageInv
  <2>3. ListInv' BY <1>1, <1>17, <2>1 DEF vars, ListInv
  <2> QED BY <1>3, <2>2, <2>3 DEF ScanInv
<1> QED BY <1>7, <1>8, <1>11, <1>12, <1>13, <1>14, <1>15, <1>16, <1>17 DEF Next, Done

LEMMA ScanInit == Init => ScanInv
<1> SUFFICES ASSUME Init PROVE ScanInv OBVIOUS
<1>1. BootInv BY DEF Init, BootInv
<1>2. /\ pc = "init" /\ bus = 0 /\ slot = 0 /\ phy_base = 0 /\ reg = 0
      /\ cap = [id |-> 0, next |-> 0] /\ walk_limit = WALK_LIMIT /\ lfdd_pci_list = <<>>
  BY DEF Init, NoCap
<1>3. ScanTypeInv BY <1>2, ScanAssumption DEF ScanTypeInv
<1>4. StageInv BY <1>2 DEF StageInv, InFunction
<1>5. Len(lfdd_pci_list) = 0 /\ DOMAIN lfdd_pci_list = {} /\ lfdd_pci_list \in Seq({})
  BY <1>2
<1>6. Listed = {} BY <1>5 DEF Listed
<1>7. Scanned = {}
  <2>1. \A s \in Slots : s[1] \in Nat /\ s[2] \in Nat BY DEF Slots
  <2>2. \A s \in Slots : ~(s[1] < 0) /\ ~(s[2] < 0) BY <2>1
  <2> QED BY <1>2, <2>2 DEF Scanned
<1>8. ListInv
  <2>1. LFDK_MAX_PCIBUF \in Nat \ {0} BY ScanAssumption
  <2>2. 0 < LFDK_MAX_PCIBUF /\ 0 <= LFDK_MAX_PCIBUF BY <2>1
  <2>3. IsFiniteSet(Listed) /\ Cardinality(Listed) = 0 BY <1>6, FS_EmptySet
  <2> QED BY <1>2, <1>5, <1>6, <1>7, <2>2, <2>3 DEF ListInv
<1> QED BY <1>1, <1>3, <1>4, <1>8 DEF ScanInv

LEMMA ScanInvariant == Spec => []ScanInv
<1> QED BY ScanInit, ScanStep, PTL DEF Spec

\* TypeOK: the list fits its array, and what the scan reads of a function keeps
\* its variables in their types (lfdk/lib_pci_scan.c:180-340).
THEOREM ScanTypeCorrect == Spec => []TypeOK
<1>1. ScanInv => TypeOK BY DEF ScanInv, ScanTypeInv, ListInv, TypeOK
<1> QED BY <1>1, ScanInvariant, PTL

\* The scanned slots are all those before some slot.
LEMMA ScannedInOrder ==
    ASSUME ScanTypeInv, Listed \in {Scanned, Scanned \cup {<<bus, slot>>}},
           NEW s \in Listed, NEW t \in Present(BUSES), Before(t, s)
    PROVE  t \in Listed
<1>1. bus \in Nat /\ slot \in Nat
  <2>1. BUSES \in Nat /\ SLOTS \in Nat BY ScanAssumption
  <2> QED BY <2>1 DEF ScanTypeInv
<1>2. t \in Slots /\ machine[t].there /\ t[1] \in Nat /\ t[2] \in Nat BY DEF Present, Slots
<1>3. CASE s = <<bus, slot>>
  <2>1. s[1] = bus /\ s[2] = slot BY <1>3
  <2> QED BY <1>2, <2>1 DEF Before, Scanned
<1>4. CASE s \in Scanned
  <2>1. s[1] \in Nat /\ s[2] \in Nat /\ (s[1] < bus \/ (s[1] = bus /\ s[2] < slot))
    BY <1>4 DEF Scanned, Slots
  <2>2. t[1] < bus \/ (t[1] = bus /\ t[2] < slot) BY <1>1, <1>2, <2>1 DEF Before
  <2> QED BY <1>2, <2>2 DEF Scanned
<1> QED BY <1>3, <1>4

\* ListComplete: the scan lists the functions in the order of its loops and skips
\* none, down to the last bus below maxpcibus or to the record that fills the list;
\* bus, an unsigned char, never wraps.
THEOREM ScanListsAll == Spec => []ListComplete
<1>1. ScanInv => ListComplete
  <2> SUFFICES ASSUME ScanInv PROVE ListComplete OBVIOUS
  <2>1. ScanTypeInv /\ ListInv BY DEF ScanInv
  <2>2. \A s \in Listed, t \in Present(BUSES) : Before(t, s) => t \in Listed
    BY <2>1, ScannedInOrder DEF ListInv
  <2>3. pc = "done" => Present(maxpcibus) \subseteq Listed \/ Len(lfdd_pci_list) = LFDK_MAX_PCIBUF
    BY <2>1 DEF ListInv
  <2> QED BY <2>1, <2>2, <2>3 DEF ListInv, ListComplete
<1> QED BY <1>1, ScanInvariant, PTL

-----------------------------------------------------------------------------
\* The base.

\* The base that pci_scan_init finds in a table was read from it, unless the table
\* ends within the eight bytes of the base.
LEMMA BasesFound ==
    ASSUME NEW option, NEW t \in Table, NEW b \in Bases(option, t), b # 0, b # option
    PROVE  /\ t.length = byte_count(t)
           /\ b = t.base \/ (byte_count(t) \in HEADER + 1 .. HEADER + 7 /\ b \in Garbage)
<1>1. option = 0 BY DEF Bases
<1>2. b \in find_mmio_in_MCFG(t) BY <1>1 DEF Bases
<1>3. Valid(t) /\ byte_count(t) # HEADER BY <1>2 DEF find_mmio_in_MCFG
<1>4. byte_count(t) >= HEADER /\ t.length = byte_count(t) /\ byte_count(t) \in Nat
  BY <1>3 DEF Valid, Table
<1>5. CASE byte_count(t) < HEADER + 8
  <2>1. b \in Garbage BY <1>2, <1>3, <1>5 DEF find_mmio_in_MCFG
  <2>2. byte_count(t) \in HEADER + 1 .. HEADER + 7
    <3>1. PICK n \in Nat : n = byte_count(t) BY <1>4
    <3>2. n >= 44 /\ n # 44 /\ n < 52 BY <1>3, <1>4, <1>5, <3>1 DEF HEADER
    <3> QED BY <3>1, <3>2 DEF HEADER
  <2> QED BY <1>4, <2>1, <2>2
<1>6. CASE ~(byte_count(t) < HEADER + 8)
  <2>1. b = t.base BY <1>2, <1>3, <1>6 DEF find_mmio_in_MCFG
  <2> QED BY <1>4, <2>1
<1> QED BY <1>5, <1>6

\* BaseWasRead: whatever length the table gives and however much of it is in the
\* file, lfdk goes by no base that it did not read, but for a length that ends
\* within the base (find_mmio_in_MCFG).
THEOREM BaseIsRead == Spec => []BaseWasRead
<1>1. Init => BaseWasRead BY DEF Init, BaseWasRead
<1>2. ASSUME BootInv, BaseWasRead, [Next]_vars PROVE BaseWasRead'
  <2>1. CASE PciScanInit
    <3>1. PICK b \in Boots :
              given = [option |-> b.option, mcfg |-> b.mcfg, ids |-> b.ids,
                       high_memory |-> b.high_memory]
      BY <1>2 DEF BootInv
    <3>2. given.option = b.option /\ given.mcfg = b.mcfg BY <3>1
    <3>3. given.mcfg \in Table BY <3>2, ScanAssumption
    <3>4. pcix_mmio_base' \in Bases(given.option, given.mcfg) /\ given' = given
      BY <2>1 DEF PciScanInit
    <3> QED BY <3>3, <3>4, BasesFound DEF BaseWasRead
  <2>2. CASE UNCHANGED <<given, pcix_mmio_base>> BY <1>2, <2>2 DEF BaseWasRead
  <2> QED BY <1>2, <2>1, <2>2 DEF Next, vars, Probe, ProbeBy, ReadId, FirstCap, ReadCap, WalkOn,
        WalkEnds, ComparePort, CompareMmio, Done
<1>3. ScanInv => BootInv BY DEF ScanInv
<1> QED BY <1>1, <1>2, <1>3, ScanInvariant, PTL DEF Spec

-----------------------------------------------------------------------------
\* The walk along the capability pointers.

\* In lfdk's arithmetic the base is a number of 32 bits.
LEMMA BaseBelow ==
    ASSUME NEW option \in 0 .. FOUR_GB - 1, NEW t \in Table, NEW b \in Bases(option, t)
    PROVE  b \in 0 .. FOUR_GB - 1
<1>1. CASE option # 0 BY <1>1 DEF Bases
<1>2. CASE option = 0
  <2>1. find_mmio_in_MCFG(t) \subseteq Nat
    <3>1. t.base \in Nat BY DEF Table
    <3>2. find_mmio_in_MCFG(t) \in {{0}, Garbage, {t.base}} BY DEF find_mmio_in_MCFG
    <3>3. Garbage \subseteq Nat BY McfgAssumption
    <3>4. {0} \subseteq Nat /\ {t.base} \subseteq Nat BY <3>1
    <3> QED BY <3>2, <3>3, <3>4
  <2>2. PICK c \in find_mmio_in_MCFG(t) : b = IF c >= FOUR_GB THEN 0 ELSE c
    BY <1>2 DEF Bases
  <2>3. c \in Nat /\ FOUR_GB \in Nat \ {0} BY <2>1, AddressAssumption
  <2> QED BY <2>2, <2>3
<1> QED BY <1>1, <1>2

\* A request for the first register through a base of MMIO: it reaches the slot
\* it names unless the sum has more than 32 bits, and then no slot at all.
LEMMA MmioFacts ==
    ASSUME NEW b \in 0 .. BUSES - 1, NEW s \in 0 .. SLOTS - 1, NEW base \in 1 .. FOUR_GB - 1,
           NEW ram \in Nat
    PROVE  LET start == base + (b * 256 + s) * 4096
               window == start - (start % 256)
               addr == lfdd_cal_pcix_addr(b, s, 0, base)
           IN  /\ start < FOUR_GB => FunctionAt(addr, base) = <<b, s>>
               /\ start >= FOUR_GB => FunctionAt(addr, base) \notin Slots
               /\ start < FOUR_GB =>
                     (~Refused(addr, base, ram) <=> ram < window + 256 /\ window + 256 < FOUR_GB)
               /\ start >= FOUR_GB => ~(window + 256 < FOUR_GB)
<1> DEFINE n == b * 256 + s
           G == FOUR_GB
           start == base + n * 4096
           window == start - (start % 256)
           addr == lfdd_cal_pcix_addr(b, s, 0, base)
<1>1. /\ b \in Nat /\ s \in Nat /\ s < 256 /\ b < BUSES /\ BUSES \in Nat
      /\ BUSES * 256 * 4096 <= G /\ base \in Nat /\ base # 0 /\ base < G
  BY ScanAssumption, AddressAssumption DEF ECAM_SIZE
<1>2. G \in Nat \ {0} /\ G % 4096 = 0 BY AddressAssumption DEF ECAM_SIZE
<1>3. addr = (n * 4096 + base) % G
  <2>1. 0 % 4096 = 0 /\ \A z \in Nat : z + 0 + base = z + base BY <1>1
  <2>2. addr = (n * 4096 + (0 % 4096) + base) % G
    BY <1>1 DEF lfdd_cal_pcix_addr, FunctionNumber, ECAM_SIZE
  <2>3. n * 4096 \in Nat BY <1>1
  <2> QED BY <2>1, <2>2, <2>3
<1>4. n \in Nat /\ n * 4096 < G /\ n \div 256 = b /\ n % 256 = s
  <2>1. n \in Nat /\ n \div 256 = b /\ n % 256 = s BY <1>1
  <2>2. n + 1 <= BUSES * 256 BY <1>1
  <2>3. n * 4096 < BUSES * 256 * 4096
    <3> HIDE DEF n
    <3> QED BY <1>1, <2>1, <2>2
  <2>4. BUSES * 256 * 4096 \in Nat /\ n * 4096 \in Nat /\ G \in Nat
    <3> HIDE DEF n, G
    <3> QED BY <1>1, <1>2, <2>1
  <2> QED BY <1>1, <2>1, <2>3, <2>4
<1> HIDE DEF n, G
<1>5. start \in Nat /\ start < 2 * G /\ n * 4096 + base = start BY <1>1, <1>2, <1>4
<1>6. /\ start < G => addr = start
      /\ start >= G => addr = start - G
  <2>1. addr = start % G BY <1>3, <1>5
  <2> HIDE DEF start
  <2>2. \A z \in Nat : z < G => z % G = z /\ (z + G) % G = z BY <1>2
  <2>3. CASE start < G BY <1>2, <1>5, <2>1, <2>2, <2>3
  <2>4. CASE start >= G
    <3>1. start - G \in Nat /\ start - G < G /\ start = (start - G) + G
      BY <1>2, <1>5, <2>4
    <3> QED BY <1>2, <1>5, <2>1, <2>2, <2>4, <3>1
  <2> QED BY <1>2, <1>5, <2>3, <2>4
<1> DEFINE k == (addr - base) \div 4096
<1>7. FunctionAt(addr, base) = <<k \div 256, k % 256>>
  BY <1>1 DEF FunctionAt, ECAM_SIZE
<1>8. start < G => FunctionAt(addr, base) = <<b, s>>
  <2> SUFFICES ASSUME start < G PROVE FunctionAt(addr, base) = <<b, s>> OBVIOUS
  <2>1. addr - base = n * 4096 BY <1>1, <1>4, <1>6
  <2>2. (n * 4096) \div 4096 = n BY <1>4
  <2>3. k = n BY <2>1, <2>2
  <2> QED BY <1>4, <1>7, <2>3
<1>9. start >= G => FunctionAt(addr, base) \notin Slots
  <2> SUFFICES ASSUME start >= G PROVE FunctionAt(addr, base) \notin Slots OBVIOUS
  <2>1. PICK K \in Nat : G = 4096 * K
    <3>1. \A z \in Nat : z % 4096 = 0 => z = 4096 * (z \div 4096) /\ z \div 4096 \in Nat OBVIOUS
    <3> QED BY <1>2, <3>1
  <2>2. addr - base = n * 4096 - G BY <1>1, <1>2, <1>4, <1>6
  <2>3. n < K BY <1>4, <2>1
  <2>4. addr - base = 4096 * (n - K) BY <1>4, <2>1, <2>2
  <2>5. \A z \in Int : (4096 * z) \div 4096 = z OBVIOUS
  <2>6. k = n - K BY <1>4, <2>4, <2>5
  <2>7. \A z \in Int : z < 0 => z \div 256 < 0 OBVIOUS
  <2>8. k \div 256 < 0 BY <1>4, <2>3, <2>6, <2>7
  <2>9. FunctionAt(addr, base)[1] < 0 BY <1>7, <2>8
  <2>10. \A q \in Slots : q[1] \in Nat BY DEF Slots
  <2>11. \A z \in Nat : ~(z < 0) OBVIOUS
  <2> QED BY <2>9, <2>10, <2>11
<1>10. window \in Nat /\ window % 256 = 0 /\ window <= start /\ start < window + 256
  <2> HIDE DEF start
  <2> QED BY <1>5
<1>11. G % 256 = 0 BY <1>2
<1>12. start < G => (~Refused(addr, base, ram) <=> ram < window + 256 /\ window + 256 < G)
  <2> SUFFICES ASSUME start < G
               PROVE  ~Refused(addr, base, ram) <=> ram < window + 256 /\ window + 256 < G
    OBVIOUS
  <2>1. Refused(addr, base, ram) <=> (window + 256) % G <= ram
    BY <1>1, <1>6 DEF Refused, Aligned, G
  <2> HIDE DEF window, start
  <2>2. window + 256 <= G BY <1>2, <1>5, <1>10, <1>11
  <2>3. CASE window + 256 < G
    <3>1. \A z \in Nat : z < G => z % G = z BY <1>2
    <3>2. (window + 256) % G = window + 256 BY <1>2, <1>10, <2>3, <3>1
    <3> QED BY <1>10, <2>1, <2>3, <3>2
  <2>4. CASE window + 256 = G
    <3>1. G % G = 0 BY <1>2
    <3> QED BY <1>2, <2>1, <2>4, <3>1
  <2> QED BY <1>2, <1>10, <2>2, <2>3, <2>4
<1>13. start >= G => ~(window + 256 < G)
  <2> HIDE DEF window, start
  <2> QED BY <1>2, <1>5, <1>10
<1> QED BY <1>8, <1>9, <1>12, <1>13 DEF n, G

\* The registers that the walk has been at: its pointers led to all of them, and
\* but for the one it is at they hold capabilities that led on.  There is one
\* more of them than steps, until the walk is in a cycle.
Visited(f, V) ==
    /\ V \in SUBSET Reached(f) /\ f.first \in V /\ reg \in V
    /\ \A v \in V \ {reg} : f.word[v].id # CAP_ID_PCIE /\ f.word[v].next \in V
    /\ \/ Cardinality(V) = WALK_LIMIT - walk_limit + 1
       \/ f.word[reg].id # CAP_ID_PCIE /\ f.word[reg].next \in V

\* What is known of the function in the slot, stage by stage.
WalkInv ==
    LET f == machine[<<bus, slot>>]
    IN  /\ pc \in InFunction \ {"read_id"} => pcix_mmio_base # 0
        /\ pc = "first_cap" => reg = f.first /\ walk_limit = WALK_LIMIT
        /\ pc = "walk" => cap = f.word[reg] /\ \E V : Visited(f, V)
        /\ pc \in {"compare_port", "compare_mmio"} => reg = 0 /\ IsPcie(f)
        /\ pc = "compare_mmio" => tmp_buf = f.id /\ f.id # <<0, 0>>

\* What decides a star, for one record; pointer 0 is followed as the code does it.
Starred(r) ==
    LET f == machine[<<r.bus, r.slot>>]
    IN  r.phy_base # 0 <=>
            /\ pcix_mmio_base # 0 /\ Reachable(r)
            /\ IsPcie(f) /\ f.id # <<0, 0>> /\ f.ecam = f.id

Records == {lfdd_pci_list[n] : n \in DOMAIN lfdd_pci_list}

\* Append adds its record to them.
LEMMA RecordsGrow ==
    ASSUME ListInv, NEW r, lfdd_pci_list' = Append(lfdd_pci_list, r)
    PROVE  Records' = Records \cup {r}
<1> DEFINE s == lfdd_pci_list
           t == lfdd_pci_list'
           k == Len(s)
<1>1. PICK S : s \in Seq(S) BY DEF ListInv
<1>2. /\ k \in Nat /\ DOMAIN s = 1 .. k /\ DOMAIN t = 1 .. k + 1
      /\ \A n \in 1 .. k : t[n] = s[n]
      /\ t[k + 1] = r
  BY <1>1, AppendFacts
<1>3. Records' = {t[n] : n \in DOMAIN t} /\ Records = {s[n] : n \in DOMAIN s}
  BY DEF Records
<1> HIDE DEF s, t, k
<1>4. 1 .. k + 1 = 1 .. k \cup {k + 1} BY <1>2
<1> QED BY <1>2, <1>3, <1>4

StarInv ==
    /\ pcix_mmio_base \in 0 .. FOUR_GB - 1
    /\ pc = "init" => Records = {}
    /\ \A r \in Records : Starred(r)

\* The registers are finitely many.
LEMMA RegsFinite == IsFiniteSet(Regs) /\ Cardinality(Regs) \in Nat
<1>1. IsFiniteSet(0 .. 255)
  <2>1. 0 \in Int /\ 255 \in Int OBVIOUS
  <2> QED BY <2>1, FS_Interval
<1>2. Regs \in SUBSET (0 .. 255) BY ScanAssumption
<1> QED BY <1>1, <1>2, FS_Subset, FS_CardinalityType

LEMMA ReachedSubset ==
    ASSUME NEW f, NEW V \in SUBSET Reached(f)
    PROVE  V \in SUBSET Regs /\ IsFiniteSet(V) /\ Cardinality(V) \in Nat
           /\ Cardinality(V) <= Cardinality(Regs)
<1>1. V \in SUBSET Regs BY DEF Reached
<1> QED BY <1>1, RegsFinite, FS_Subset, FS_CardinalityType

\* The walk begins at the first pointer.
LEMMA WalkBegins ==
    ASSUME NEW f, f.first \in Regs, reg' = f.first, walk_limit' = WALK_LIMIT
    PROVE  Visited(f, {f.first})'
<1>1. {f.first} \in SUBSET Reached(f) BY DEF Reached
<1>2. Cardinality({f.first}) = 1 BY FS_Singleton
<1>3. WALK_LIMIT - walk_limit' + 1 = 1 BY ScanAssumption
<1> QED BY <1>1, <1>2, <1>3 DEF Visited, Reached, Closed

\* A step of the walk visits one more register, or finds a cycle.
LEMMA WalkGoesOn ==
    ASSUME ScanTypeInv, NEW f, NEW V, Visited(f, V), WALK_LIMIT \in Nat,
           \A r \in Regs : f.word[r].next \in Regs,
           NEW n, n = f.word[reg].next, n # 0, f.word[reg].id # CAP_ID_PCIE,
           walk_limit > 0, walk_limit' = walk_limit - 1, reg' = n
    PROVE  Visited(f, V \cup {n})'
<1> DEFINE W == V \cup {n}
<1>1. V \in SUBSET Regs /\ IsFiniteSet(V) /\ Cardinality(V) \in Nat /\ V \in SUBSET Reached(f)
  BY ReachedSubset DEF Visited
<1>2. n \in Reached(f)
  <2>1. n \in Regs /\ reg \in Reached(f) BY DEF Visited, ScanTypeInv
  <2>2. ASSUME NEW set \in SUBSET Regs, f.first \in set, Closed(f, set) PROVE n \in set
    BY <2>1, <2>2 DEF Reached, Closed
  <2> QED BY <2>1, <2>2 DEF Reached
<1>3. W \in SUBSET Reached(f) BY <1>1, <1>2
<1>4. f.first \in W /\ reg' \in W /\ reg' = n BY DEF Visited
<1>5. \A v \in V : f.word[v].id # CAP_ID_PCIE /\ f.word[v].next \in W BY DEF Visited
<1>6. \A v \in W \ {n} : f.word[v].id # CAP_ID_PCIE /\ f.word[v].next \in W BY <1>5
<1>7. \/ Cardinality(W) = WALK_LIMIT - walk_limit' + 1
      \/ f.word[n].id # CAP_ID_PCIE /\ f.word[n].next \in W
  <2>1. CASE n \in V BY <1>5, <2>1
  <2>2. CASE n \notin V
    <3>1. Cardinality(V) = WALK_LIMIT - walk_limit + 1
      <4> SUFFICES ASSUME f.word[reg].next \in V PROVE FALSE BY DEF Visited
      <4> QED BY <2>2
    <3>2. Cardinality(W) = Cardinality(V) + 1 BY <1>1, <2>2, FS_AddElement
    <3>3. WALK_LIMIT - walk_limit' + 1 = (WALK_LIMIT - walk_limit + 1) + 1
      <4>1. walk_limit \in Nat BY DEF ScanTypeInv
      <4> QED BY <4>1
    <3> QED BY <3>1, <3>2, <3>3
  <2> QED BY <2>1, <2>2
<1> QED BY <1>3, <1>4, <1>6, <1>7 DEF Visited, Reached, Closed

\* Where the walk ends, the last register tells: the limit is not reached before
\* a cycle is closed, for there are no more registers than steps.
LEMMA WalkDecides ==
    ASSUME ScanTypeInv, NEW f, NEW V, Visited(f, V),
           walk_limit = 0 \/ f.word[reg].next = 0 \/ f.word[reg].id = CAP_ID_PCIE
    PROVE  f.word[reg].id = CAP_ID_PCIE <=> IsPcie(f)
<1>1. V \in SUBSET Regs /\ Cardinality(V) \in Nat /\ Cardinality(V) <= Cardinality(Regs)
  BY ReachedSubset DEF Visited
<1>2. CASE f.word[reg].id = CAP_ID_PCIE
  <2>1. reg \in Reached(f) BY DEF Visited
  <2> QED BY <1>2, <2>1 DEF IsPcie
<1>3. CASE f.word[reg].id # CAP_ID_PCIE
  <2>1. \A v \in V : f.word[v].id # CAP_ID_PCIE BY <1>3 DEF Visited
  <2>2. Closed(f, V)
    <3>1. CASE f.word[reg].next = 0 BY <3>1 DEF Visited, Closed
    <3>2. CASE walk_limit = 0
      <4>1. Cardinality(V) # WALK_LIMIT - walk_limit + 1
        <5>1. /\ WALK_LIMIT \in Nat /\ Cardinality(Regs) <= WALK_LIMIT /\ Cardinality(Regs) \in Nat
          BY ScanAssumption, RegsFinite
        <5> QED BY <1>1, <3>2, <5>1
      <4> QED BY <4>1 DEF Visited, Closed
    <3> QED BY <1>3, <3>1, <3>2
  <2>3. f.first \in V BY DEF Visited
  <2>4. Reached(f) \subseteq V BY <1>1, <2>2, <2>3 DEF Reached
  <2> QED BY <1>3, <2>1, <2>4 DEF IsPcie
<1> QED BY <1>2, <1>3

\* Starred for a record of the slot being scanned.
HereStarred(b) ==
    LET f == machine[<<bus, slot>>]
    IN  b # 0 <=>
            /\ pcix_mmio_base # 0 /\ Reachable([bus |-> bus, slot |-> slot])
            /\ IsPcie(f) /\ f.id # <<0, 0>> /\ f.ecam = f.id

LEMMA MoveStar ==
    ASSUME ScanInv, StarInv, pc \in InFunction, NEW b, MoveToNext(b), HereStarred(b),
           UNCHANGED <<machine, given, pcix_mmio_base>>
    PROVE  WalkInv' /\ StarInv'
<1> DEFINE r == [bus |-> bus, slot |-> slot, ventxt |-> Texts.ventxt, devtxt |-> Texts.devtxt,
                 phy_base |-> b]
           s == lfdd_pci_list
<1>1. BootInv /\ ScanTypeInv /\ StageInv /\ ListInv BY DEF ScanInv
<1>2. machine[<<bus, slot>>].there BY <1>1 DEF StageInv
<1>3. pc' \in {"probe", "done"} BY <1>1, <1>2, MoveKeeps
<1>4. WalkInv' BY <1>3 DEF WalkInv, InFunction
<1>5. lfdd_pci_list' = Append(s, r) BY DEF MoveToNext, Record
<1>6. r.bus = bus /\ r.slot = slot /\ r.phy_base = b OBVIOUS
<1>7. \A q : Starred(q)' <=> Starred(q) BY DEF Starred, Reachable
<1> HIDE DEF r
<1>8. Starred(r) BY <1>6 DEF Starred, HereStarred, Reachable
<1>11. Records' = Records \cup {r} BY <1>1, <1>5, RecordsGrow
<1>12. ASSUME NEW q \in Records' PROVE Starred(q)'
  BY <1>7, <1>8, <1>11 DEF StarInv
<1> QED BY <1>3, <1>4, <1>12 DEF StarInv

\* What MMIO shows of a function that is known to be PCI Express decides its star.
LEMMA ConfirmDecides ==
    ASSUME BootInv, ScanTypeInv, pcix_mmio_base \in 1 .. FOUR_GB - 1, reg = 0,
           NEW f, f = machine[<<bus, slot>>], f.there, IsPcie(f),
           tmp_buf = f.id, f.id # <<0, 0>>,
           NEW b, b = IF Confirmed(pcix_mmio_base) THEN pcix_mmio_base ELSE 0
    PROVE  HereStarred(b)
<1> DEFINE base == pcix_mmio_base
           start == base + (bus * 256 + slot) * 4096
           window == start - (start % 256)
           addr == lfdd_cal_pcix_addr(bus, slot, 0, base)
<1>1. given.high_memory \in Nat BY ScanAssumption DEF BootInv
<1>2. bus \in 0 .. BUSES - 1 /\ slot \in 0 .. SLOTS - 1 BY DEF ScanTypeInv
<1>3. /\ start < FOUR_GB => FunctionAt(addr, base) = <<bus, slot>>
      /\ start >= FOUR_GB => FunctionAt(addr, base) \notin Slots
      /\ start < FOUR_GB =>
            (~Refused(addr, base, given.high_memory)
               <=> given.high_memory < window + 256 /\ window + 256 < FOUR_GB)
      /\ start >= FOUR_GB => ~(window + 256 < FOUR_GB)
  BY <1>1, <1>2, MmioFacts
<1>4. start \in Nat /\ FOUR_GB \in Nat
  BY <1>2, ScanAssumption, AddressAssumption
<1>5. Reachable([bus |-> bus, slot |-> slot])
        <=> given.high_memory < window + 256 /\ window + 256 < FOUR_GB
  BY DEF Reachable
<1>6. Confirmed(base) <=> Answer(base).there /\ Answer(base).ecam = f.id
  BY DEF Confirmed
<1>7. Answer(base) = IF FunctionAt(addr, base) \in Slots /\ ~Refused(addr, base, given.high_memory)
                     THEN machine[FunctionAt(addr, base)] ELSE Absent
  BY DEF Answer
<1>8. <<bus, slot>> \in Slots BY <1>2 DEF Slots
<1> HIDE DEF start, window, addr
<1>9. Confirmed(base) <=> Reachable([bus |-> bus, slot |-> slot]) /\ f.ecam = f.id
  <2>1. CASE start < FOUR_GB /\ ~Refused(addr, base, given.high_memory)
    <3>1. Answer(base) = f BY <1>3, <1>7, <1>8, <2>1
    <3> QED BY <1>3, <1>5, <1>6, <2>1, <3>1
  <2>2. CASE start >= FOUR_GB \/ Refused(addr, base, given.high_memory)
    <3>1. Answer(base) = Absent BY <1>3, <1>7, <2>2
    <3>2. ~Answer(base).there BY <3>1 DEF Absent
    <3>3. ~Reachable([bus |-> bus, slot |-> slot]) BY <1>3, <1>4, <1>5, <2>2
    <3> QED BY <1>6, <3>2, <3>3
  <2> QED BY <1>4, <2>1, <2>2
<1>10. base # 0 OBVIOUS
<1> QED BY <1>9, <1>10 DEF HereStarred

\* A step that adds no record leaves the stars alone.
LEMMA StayStar ==
    ASSUME StarInv, pc' # "init", UNCHANGED <<machine, given, pcix_mmio_base, lfdd_pci_list>>
    PROVE  StarInv'
<1>1. \A q : Starred(q)' <=> Starred(q) BY DEF Starred, Reachable
<1>2. Records' = Records BY DEF Records
<1> QED BY <1>1, <1>2 DEF StarInv

LEMMA StarStep ==
    ASSUME ScanInv, WalkInv, StarInv, [Next]_vars
    PROVE  WalkInv' /\ StarInv'
<1>1. BootInv /\ ScanTypeInv /\ StageInv /\ ListInv BY DEF ScanInv
<1>2. PICK f : f = machine[<<bus, slot>>] OBVIOUS
<1>3. WALK_LIMIT \in Nat BY ScanAssumption
<1>4. pc \in InFunction =>
        /\ f.there /\ Here = f /\ f.first \in Regs
        /\ \A r \in Regs : f.word[r] \in [id : Nat, next : Regs]
  BY <1>1, <1>2, FunctionFacts DEF StageInv, InFunction
<1>5. ASSUME pc' \in {"probe", "done"} PROVE WalkInv'
  BY <1>5 DEF WalkInv, InFunction
<1>6. ASSUME pc \in InFunction, UNCHANGED <<machine, given, pcix_mmio_base>>,
             NEW b, MoveToNext(b), HereStarred(b)
      PROVE  WalkInv' /\ StarInv'
  BY <1>6, MoveStar
<1>7. CASE PciScanInit
  <2>1. PICK b \in Boots :
            given = [option |-> b.option, mcfg |-> b.mcfg, ids |-> b.ids,
                     high_memory |-> b.high_memory]
    BY <1>1 DEF BootInv
  <2>2. given.option = b.option /\ given.mcfg = b.mcfg BY <2>1
  <2>3. given.option \in 0 .. FOUR_GB - 1 /\ given.mcfg \in Table BY <2>2, ScanAssumption
  <2>4. pcix_mmio_base' \in 0 .. FOUR_GB - 1
    <3>1. PICK c \in Bases(given.option, given.mcfg) : pcix_mmio_base' = c
      BY <1>7 DEF PciScanInit
    <3> QED BY <2>3, <3>1, BaseBelow
  <2>5. pc = "init" /\ pc' \in {"probe", "done"} /\ lfdd_pci_list' = lfdd_pci_list
    BY <1>7 DEF PciScanInit, Goto
  <2>6. Records' = {} BY <2>5 DEF StarInv, Records
  <2> QED BY <1>5, <2>4, <2>5, <2>6 DEF StarInv
<1>8. CASE Probe
  <2>1. /\ UNCHANGED <<machine, given, pcix_mmio_base, lfdd_pci_list>>
        /\ pc' \in {"read_id", "probe", "done"}
    BY <1>8 DEF Probe, ProbeBy, NextSlot, Goto
  <2>2. WalkInv' BY <2>1 DEF WalkInv, InFunction
  <2> QED BY <2>1, <2>2, StayStar
<1>9. CASE ReadId
  <2>1. pc = "read_id" /\ UNCHANGED <<machine, given, pcix_mmio_base>> BY <1>9 DEF ReadId
  <2>2. CASE pcix_mmio_base = 0
    <3>1. MoveToNext(0) BY <1>9, <2>2 DEF ReadId
    <3>2. HereStarred(0) BY <2>2 DEF HereStarred
    <3> QED BY <1>6, <2>1, <3>1, <3>2 DEF InFunction
  <2>3. CASE pcix_mmio_base # 0
    <3>1. /\ pc' = "first_cap" /\ walk_limit' = WALK_LIMIT /\ reg' = Here.first
          /\ UNCHANGED <<bus, slot, lfdd_pci_list>>
      BY <1>9, <2>3 DEF ReadId, Goto
    <3>2. reg' = f.first BY <1>4, <2>1, <3>1 DEF InFunction
    <3>3. WalkInv' BY <1>2, <2>1, <2>3, <3>1, <3>2 DEF WalkInv, InFunction
    <3>4. StarInv' BY <2>1, <3>1, StayStar
    <3> QED BY <3>3, <3>4
  <2> QED BY <2>2, <2>3
<1>10. CASE FirstCap
  <2>1. /\ pc = "first_cap" /\ pc' = "walk" /\ cap' = Here.word[reg]
        /\ UNCHANGED <<machine, given, pcix_mmio_base, bus, slot, reg, walk_limit, lfdd_pci_list>>
    BY <1>10 DEF FirstCap, ReadCap, Goto
  <2>2. /\ pcix_mmio_base # 0 /\ reg = f.first /\ walk_limit = WALK_LIMIT
        /\ Here = f /\ f.first \in Regs
    BY <1>2, <1>4, <2>1 DEF WalkInv, InFunction
  <2>3. Visited(f, {f.first})' BY <2>1, <2>2, WalkBegins
  <2>4. cap' = f.word[reg'] /\ machine'[<<bus', slot'>>] = f BY <1>2, <2>1, <2>2
  <2>5. WalkInv'
    <3>1. (\E V : Visited(f, V))' BY <2>3
    <3> QED BY <2>1, <2>2, <2>4, <3>1 DEF WalkInv
  <2>6. StarInv' BY <2>1, StayStar
  <2> QED BY <2>5, <2>6
<1>11. CASE WalkOn
  <2>1. /\ pc = "walk" /\ pc' = "walk" /\ walk_limit > 0 /\ cap.next # 0 /\ cap.id # CAP_ID_PCIE
        /\ walk_limit' = walk_limit - 1 /\ cap' = Here.word[cap.next] /\ reg' = cap.next
        /\ UNCHANGED <<machine, given, pcix_mmio_base, bus, slot, lfdd_pci_list>>
    BY <1>11 DEF WalkOn
  <2>2. /\ pcix_mmio_base # 0 /\ cap = f.word[reg] /\ Here = f
        /\ \A r \in Regs : f.word[r].next \in Regs
    BY <1>2, <1>4, <2>1 DEF WalkInv, InFunction
  <2>3. PICK V : Visited(f, V) BY <1>2, <2>1 DEF WalkInv
  <2>4. PICK n : n = f.word[reg].next OBVIOUS
  <2>5. Visited(f, V \cup {n})'
    BY <1>1, <1>3, <2>1, <2>2, <2>3, <2>4, WalkGoesOn
  <2>6. cap' = f.word[reg'] /\ machine'[<<bus', slot'>>] = f BY <1>2, <2>1, <2>2
  <2>7. WalkInv'
    <3>1. (\E W : Visited(f, W))' BY <2>5
    <3> QED BY <2>1, <2>2, <2>6, <3>1 DEF WalkInv
  <2>8. StarInv' BY <2>1, StayStar
  <2> QED BY <2>7, <2>8
<1>12. CASE WalkEnds
  <2>1. /\ pc = "walk" /\ reg' = 0
        /\ walk_limit = 0 \/ cap.next = 0 \/ cap.id = CAP_ID_PCIE
        /\ UNCHANGED <<machine, given, pcix_mmio_base>>
    BY <1>12 DEF WalkEnds
  <2>2. pcix_mmio_base # 0 /\ cap = f.word[reg] BY <1>2, <2>1 DEF WalkInv, InFunction
  <2>3. PICK V : Visited(f, V) BY <1>2, <2>1 DEF WalkInv
  <2>4. cap.id = CAP_ID_PCIE <=> IsPcie(f) BY <1>1, <2>1, <2>2, <2>3, WalkDecides
  <2>5. CASE cap.id = CAP_ID_PCIE
    <3>1. pc' = "compare_port" /\ UNCHANGED <<bus, slot, lfdd_pci_list>>
      BY <1>12, <2>5 DEF WalkEnds, Goto
    <3>2. machine'[<<bus', slot'>>] = f BY <1>2, <2>1, <3>1
    <3>3. WalkInv' BY <2>1, <2>2, <2>4, <2>5, <3>1, <3>2 DEF WalkInv
    <3>4. StarInv' BY <2>1, <3>1, StayStar
    <3> QED BY <3>3, <3>4
  <2>6. CASE cap.id # CAP_ID_PCIE
    <3>1. MoveToNext(0) BY <1>12, <2>6 DEF WalkEnds
    <3>2. HereStarred(0) BY <1>2, <2>4, <2>6 DEF HereStarred
    <3> QED BY <1>6, <2>1, <3>1, <3>2 DEF InFunction
  <2> QED BY <2>5, <2>6
<1>13. CASE ComparePort
  <2>0. phy_base = 0 BY <1>1, <1>13 DEF ComparePort, StageInv
  <2>1. /\ pc = "compare_port" /\ tmp_buf' = Here.id
        /\ UNCHANGED <<machine, given, pcix_mmio_base, reg>>
    BY <1>13, <2>0 DEF ComparePort, Here
  <2>2. /\ pcix_mmio_base # 0 /\ reg = 0 /\ IsPcie(f) /\ Here = f
    BY <1>2, <1>4, <2>1 DEF WalkInv, InFunction
  <2>3. CASE Here.id = <<0, 0>>
    <3>1. MoveToNext(0) BY <1>13, <2>0, <2>3 DEF ComparePort, Here
    <3>2. HereStarred(0) BY <1>2, <2>2, <2>3 DEF HereStarred
    <3> QED BY <1>6, <2>1, <3>1, <3>2 DEF InFunction
  <2>4. CASE Here.id # <<0, 0>>
    <3>1. pc' = "compare_mmio" /\ UNCHANGED <<bus, slot, lfdd_pci_list>>
      BY <1>13, <2>0, <2>4 DEF ComparePort, Goto, Here
    <3>2. machine'[<<bus', slot'>>] = f BY <1>2, <2>1, <3>1
    <3>3. WalkInv' BY <2>1, <2>2, <2>4, <3>1, <3>2 DEF WalkInv
    <3>4. StarInv' BY <2>1, <3>1, StayStar
    <3> QED BY <3>3, <3>4
  <2> QED BY <2>3, <2>4
<1>14. CASE CompareMmio
  <2>1. /\ pc = "compare_mmio" /\ UNCHANGED <<machine, given, pcix_mmio_base>>
        /\ MoveToNext(IF Confirmed(pcix_mmio_base) THEN pcix_mmio_base ELSE 0)
    BY <1>14 DEF CompareMmio
  <2>2. /\ pcix_mmio_base # 0 /\ reg = 0 /\ IsPcie(f) /\ tmp_buf = f.id /\ f.id # <<0, 0>>
        /\ f.there
    BY <1>2, <1>4, <2>1 DEF WalkInv, InFunction
  <2>3. pcix_mmio_base \in 1 .. FOUR_GB - 1
    <3>1. FOUR_GB \in Nat /\ pcix_mmio_base \in 0 .. FOUR_GB - 1
      BY AddressAssumption DEF StarInv
    <3> QED BY <2>2, <3>1
  <2>4. PICK b : b = IF Confirmed(pcix_mmio_base) THEN pcix_mmio_base ELSE 0 OBVIOUS
  <2>5. HereStarred(b) BY <1>1, <1>2, <2>2, <2>3, <2>4, ConfirmDecides
  <2> QED BY <1>6, <2>1, <2>4, <2>5 DEF InFunction
<1>15. CASE UNCHANGED vars
  <2>1. Records' = Records /\ (\A q : Starred(q)' <=> Starred(q))
    BY <1>15 DEF vars, Records, Starred, Reachable
  <2>2. StarInv' BY <1>15, <2>1 DEF vars, StarInv
  <2>3. \A V : Visited(f, V)' <=> Visited(f, V) BY <1>15 DEF vars, Visited
  <2>4. machine'[<<bus', slot'>>] = f BY <1>2, <1>15 DEF vars
  <2>5. WalkInv' BY <1>2, <1>15, <2>3, <2>4 DEF vars, WalkInv
  <2> QED BY <2>2, <2>5
<1> QED BY <1>7, <1>8, <1>9, <1>10, <1>11, <1>12, <1>13, <1>14, <1>15 DEF Next, Done

LEMMA StarInvariant == Spec => [](WalkInv /\ StarInv)
<1>1. Init => WalkInv /\ StarInv
  <2> SUFFICES ASSUME Init PROVE WalkInv /\ StarInv OBVIOUS
  <2>1. pc = "init" /\ pcix_mmio_base = 0 /\ lfdd_pci_list = <<>> BY DEF Init
  <2>2. WalkInv BY <2>1 DEF WalkInv, InFunction
  <2>3. Records = {}
    <3>1. DOMAIN lfdd_pci_list = {} BY <2>1
    <3> QED BY <3>1 DEF Records
  <2>4. 0 \in 0 .. FOUR_GB - 1 BY AddressAssumption
  <2> QED BY <2>1, <2>2, <2>3, <2>4 DEF StarInv
<1> QED BY <1>1, StarStep, ScanInvariant, PTL DEF Spec

\* StarIffShown: the walk of so many steps as there are registers tells just
\* whether the pointers lead to the PCI Express capability, cycles included, and
\* a base is kept just where MMIO can reach the function and shows the same.
THEOREM StarsAreRight == Spec => []StarIffShown
<1>1. StarInv => StarIffShown
  BY DEF StarInv, StarIffShown, Records, Starred, ShownPcie, FunctionOf
<1> QED BY <1>1, StarInvariant, PTL

\* A record has the base the scan goes by, or none, and lies below the limit.
BaseInv ==
    /\ pc = "init" => Records = {}
    /\ \A r \in Records : r.phy_base \in {0, pcix_mmio_base} /\ r.bus < maxpcibus

LEMMA BaseStep ==
    ASSUME ScanInv, BaseInv, [Next]_vars
    PROVE  BaseInv'
<1>1. BootInv /\ ScanTypeInv /\ StageInv /\ ListInv BY DEF ScanInv
<1>2. CASE PciScanInit
  <2>1. Records' = Records /\ Records = {} BY <1>2 DEF PciScanInit, Records, BaseInv
  <2> QED BY <2>1 DEF BaseInv
<1>3. CASE UNCHANGED <<pc, lfdd_pci_list, pcix_mmio_base>>
  <2>1. Records' = Records BY <1>3 DEF Records
  <2> QED BY <1>3, <2>1 DEF BaseInv
<1>4. CASE pc' # "init" /\ UNCHANGED <<lfdd_pci_list, pcix_mmio_base>>
  <2>1. Records' = Records BY <1>4 DEF Records
  <2> QED BY <1>4, <2>1 DEF BaseInv
<1>5. ASSUME pc \in InFunction, UNCHANGED <<machine, pcix_mmio_base>>,
             NEW b \in {0, pcix_mmio_base}, MoveToNext(b)
      PROVE  BaseInv'
  <2> DEFINE r == [bus |-> bus, slot |-> slot, ventxt |-> Texts.ventxt,
                   devtxt |-> Texts.devtxt, phy_base |-> b]
  <2>1. lfdd_pci_list' = Append(lfdd_pci_list, r) BY <1>5 DEF MoveToNext, Record
  <2>2. r.bus = bus /\ r.phy_base = b OBVIOUS
  <2> HIDE DEF r
  <2>3. Records' = Records \cup {r} BY <1>1, <2>1, RecordsGrow
  <2>4. bus < maxpcibus BY <1>1, <1>5 DEF ListInv, InFunction
  <2>5. pc' # "init" BY <1>5 DEF MoveToNext, NextSlot, Goto
  <2> QED BY <1>5, <2>2, <2>3, <2>4, <2>5 DEF BaseInv
<1>6. \/ PciScanInit \/ UNCHANGED <<pc, lfdd_pci_list, pcix_mmio_base>>
      \/ pc' # "init" /\ UNCHANGED <<lfdd_pci_list, pcix_mmio_base>>
      \/ /\ pc \in InFunction /\ UNCHANGED <<machine, pcix_mmio_base>>
         /\ \E b \in {0, pcix_mmio_base} : MoveToNext(b)
  BY DEF Next, vars, Probe, ProbeBy, ReadId, FirstCap, ReadCap, WalkOn, WalkEnds, ComparePort,
         CompareMmio, Done, Goto, NextSlot, InFunction
<1> QED BY <1>2, <1>3, <1>4, <1>5, <1>6

\* The pages of a function follow its first one, and none of them wraps.
LEMMA PageFacts ==
    ASSUME NEW b \in Byte, b < 255, NEW s \in Byte, NEW base \in EcamBases,
           NEW k \in 0 .. 15, NEW ram \in Nat,
           LET start == base + (b * 256 + s) * 4096
           IN  ram < (start - (start % 256)) + 256
    PROVE  LET addr == lfdd_cal_pcix_addr(b, s, 256 * k, base)
           IN  FunctionAt(addr, base) = <<b, s>> /\ ~Refused(addr, base, ram)
<1> DEFINE n == b * 256 + s
           addr == lfdd_cal_pcix_addr(b, s, 256 * k, base)
<1>1. 256 * k \in Register BY DEF Register
<1>2. FunctionAt(addr, base) = <<b, s>> BY <1>1, AnswersForItself
<1>3. addr = n * 4096 + 256 * k + base BY <1>1, NoWrap
<1>4. n \in Nat /\ n <= 65279 BY DEF Byte
<1>5. base \in Nat /\ base # 0 /\ base % 256 = 0 /\ base + 268435456 <= FOUR_GB
  BY DEF EcamBases, ECAM_SIZE
<1>6. PICK j \in Nat : base = 256 * j BY <1>5
<1>7. (base + n * 4096) % 256 = 0
  <2>1. base + n * 4096 = 256 * (j + n * 16) /\ j + n * 16 \in Nat BY <1>4, <1>6
  <2> QED BY <2>1
<1>8. addr % 256 = 0 /\ addr \in Nat
  <2>1. addr = 256 * (n * 16 + k + j) /\ n * 16 + k + j \in Nat BY <1>3, <1>4, <1>6
  <2> HIDE DEF addr
  <2> QED BY <2>1
<1> HIDE DEF n, addr
<1>9. Aligned(addr) = addr BY <1>8 DEF Aligned
<1>10. addr + 256 < FOUR_GB /\ FOUR_GB \in Nat BY <1>3, <1>4, <1>5, AddressAssumption
<1>11. (addr + 256) % FOUR_GB = addr + 256 BY <1>8, <1>10
<1>12. ram < addr + 256 BY <1>3, <1>4, <1>5, <1>7 DEF n
<1>13. ~Refused(addr, base, ram) BY <1>8, <1>9, <1>11, <1>12 DEF Refused
<1> QED BY <1>2, <1>13 DEF addr

\* StarsServed: what the scan found out by one request through MMIO holds for all
\* that the editor will make (AssignMMIOBase, lfdd_cal_pcix_addr).
THEOREM StarsAreServed == Spec => []StarsServed
<1>1. Init => BaseInv
  <2> SUFFICES ASSUME Init PROVE Records = {} BY DEF BaseInv
  <2>1. DOMAIN lfdd_pci_list = {} BY DEF Init
  <2> QED BY <2>1 DEF Records
<1>2. ScanInv /\ BaseInv /\ StarInv => StarsServed
  <2> SUFFICES ASSUME ScanInv, BaseInv, StarInv,
                      NEW m \in DOMAIN lfdd_pci_list, NEW k \in 0 .. 15,
                      lfdd_pci_list[m].phy_base \in EcamBases
               PROVE  LET r == lfdd_pci_list[m]
                          addr == lfdd_cal_pcix_addr(r.bus, r.slot, 256 * k, r.phy_base)
                      IN  /\ FunctionAt(addr, r.phy_base) = <<r.bus, r.slot>>
                          /\ ~Refused(addr, r.phy_base, given.high_memory)
    BY DEF StarsServed
  <2> DEFINE r == lfdd_pci_list[m]
  <2>1. BootInv /\ ListInv BY DEF ScanInv
  <2>2. given.high_memory \in Nat BY <2>1, ScanAssumption DEF BootInv
  <2>3. r.phy_base = pcix_mmio_base /\ r.phy_base # 0 /\ r.bus < maxpcibus
    BY DEF BaseInv, Records, EcamBases
  <2>4. Reachable(r) BY <2>3 DEF StarInv, Starred, Records
  <2>5. r.bus \in 0 .. BUSES - 1 /\ r.slot \in 0 .. SLOTS - 1
    <3>1. <<r.bus, r.slot>> \in Slots BY <2>1 DEF ListInv, Listed, Present
    <3> QED BY <3>1 DEF Slots
  <2> HIDE DEF r
  <2>6. r.bus \in Byte /\ r.bus < 255 /\ r.slot \in Byte
    BY <2>3, <2>5, ScanAssumption DEF Byte
  <2>7. LET start == r.phy_base + (r.bus * 256 + r.slot) * 4096
        IN  given.high_memory < (start - (start % 256)) + 256
    BY <2>3, <2>4 DEF Reachable
  <2>8. r.phy_base \in EcamBases BY DEF r
  <2>9. LET addr == lfdd_cal_pcix_addr(r.bus, r.slot, 256 * k, r.phy_base)
        IN  /\ FunctionAt(addr, r.phy_base) = <<r.bus, r.slot>>
            /\ ~Refused(addr, r.phy_base, given.high_memory)
    BY <2>2, <2>6, <2>7, <2>8, PageFacts
  <2> QED BY <2>9 DEF r
<1> QED BY <1>1, <1>2, BaseStep, ScanInvariant, StarInvariant, PTL DEF Spec

-----------------------------------------------------------------------------
\* The names: what the loop over the lines of pci.ids finds, for every file.

\* A set of numbers that has 0 and each of its members' successors has them all.
LEMMA Induction ==
    ASSUME NEW T, 0 \in T, \A n \in Nat : n \in T => n + 1 \in T
    PROVE  Nat \subseteq T
<1> SUFFICES ASSUME Nat \ T # {} PROVE FALSE
  OBVIOUS
<1> DEFINE R == OpToRel(<, Nat)
<1>1. \E x \in Nat \ T : \A y \in Nat \ T : ~(<<y, x>> \in R)
  <2>1. IsWellFoundedOn(R, Nat) BY NatLessThanWellFounded
  <2> HIDE DEF R
  <2> QED BY <2>1, WFMin
<1>2. PICK x \in Nat \ T : \A y \in Nat \ T : ~(<<y, x>> \in R)
  BY <1>1
<1>3. x \in Nat /\ x # 0 /\ x \notin T
  OBVIOUS
<1>4. x - 1 \in Nat /\ x - 1 < x /\ (x - 1) + 1 = x BY <1>3
<1>5. <<x - 1, x>> \in R BY <1>3, <1>4 DEF OpToRel
<1>6. x - 1 \in T BY <1>2, <1>4, <1>5
<1> QED BY <1>3, <1>4, <1>6

\* The loop reads line after line, from its start.
LEMMA LinesReadFacts ==
    ASSUME NEW file, Len(file) \in Nat, NEW ven, NEW dev
    PROVE  /\ LinesRead(file, ven, dev)[0] = Start
           /\ \A n \in 1 .. Len(file) :
                 LinesRead(file, ven, dev)[n]
                   = Parse(LinesRead(file, ven, dev)[n - 1], file[n], ven, dev)
<1> DEFINE P(s, l) == Parse(s, l, ven, dev)
           Loop(g, k) == g = [n \in 0 .. k |-> IF n = 0 THEN Start ELSE P(g[n - 1], file[n])]
           T == {k \in Nat : \E g : Loop(g, k)}
           last == Len(file)
           f == LinesRead(file, ven, dev)
<1>1. 0 \in T
  <2>1. Loop([n \in 0 .. 0 |-> Start], 0)
    <3> HIDE DEF P
    <3> QED OBVIOUS
  <2> HIDE DEF Loop
  <2> QED BY <2>1
<1>2. ASSUME NEW k \in Nat, k \in T PROVE k + 1 \in T
  <2>1. PICK g : Loop(g, k) BY <1>2
  <2> DEFINE h == [n \in 0 .. k + 1 |-> IF n = k + 1 THEN P(g[k], file[k + 1]) ELSE g[n]]
  <2>2. Loop(h, k + 1)
    <3> HIDE DEF P
    <3>1. ASSUME NEW n \in 0 .. k + 1
          PROVE  h[n] = IF n = 0 THEN Start ELSE P(h[n - 1], file[n])
      <4>1. CASE n = k + 1
        <5>1. h[n] = P(g[k], file[k + 1]) /\ n # 0 BY <4>1
        <5>2. n - 1 = k /\ n - 1 # k + 1 /\ n - 1 \in 0 .. k + 1 BY <4>1
        <5>3. h[n - 1] = g[k] BY <5>2
        <5> QED BY <4>1, <5>1, <5>3
      <4>2. CASE n # k + 1
        <5>1. n \in 0 .. k /\ h[n] = g[n] BY <4>2
        <5>2. g[n] = IF n = 0 THEN Start ELSE P(g[n - 1], file[n]) BY <2>1, <5>1
        <5>3. n # 0 => n - 1 \in 0 .. k + 1 /\ n - 1 # k + 1 BY <5>1
        <5>4. n # 0 => h[n - 1] = g[n - 1] BY <5>3
        <5> QED BY <5>1, <5>2, <5>4
      <4> QED BY <4>1, <4>2
    <3> DEFINE h1 == [n \in 0 .. k + 1 |-> IF n = 0 THEN Start ELSE P(h[n - 1], file[n])]
    <3>2. \A n \in 0 .. k + 1 : h[n] = h1[n] BY <3>1
    <3>3. h = h1
      <4> QED BY <3>2
    <3> QED BY <3>3
  <2> HIDE DEF Loop, h
  <2> QED BY <2>2
<1>3. last \in T
  <2> HIDE DEF T
  <2> QED BY <1>1, <1>2, Induction
<1>4. PICK g : Loop(g, last) BY <1>3
<1>5. f = CHOOSE s : Loop(s, last) BY DEF LinesRead
<1>6. Loop(f, last)
  <2> HIDE DEF Loop, f
  <2> QED BY <1>4, <1>5
<1>7. f[0] = Start /\ \A n \in 1 .. last : f[n] = P(f[n - 1], file[n])
  <2>1. last \in Nat OBVIOUS
  <2> HIDE DEF f, P, last
  <2>2. 0 \in 0 .. last /\ \A n \in 1 .. last : n \in 0 .. last /\ n # 0 BY <2>1
  <2> QED BY <1>6, <2>2
<1> QED BY <1>7

\* A vendor's or a device's line that the loop finds, as it has no '#'.
Plain(l, tabs, id) == l.sharp = "nowhere" /\ l.tabs = tabs /\ l.id = id

\* What the loop may have found, by the type of its fields.
Result == [findven : BOOLEAN, done : BOOLEAN, ventxt : STRING \cup {NoText},
           devtxt : STRING \cup {NoText}]

Found(findven, done, ventxt, devtxt) ==
    [findven |-> findven, done |-> done, ventxt |-> ventxt, devtxt |-> devtxt]

LineType(file) ==
    \A n \in 1 .. Len(file) : file[n].tabs \in 0 .. 2 /\ file[n].text \in STRING

\* Two of them that agree in each field are one.
LEMMA SameRecord ==
    ASSUME NEW S, NEW a \in [findven : BOOLEAN, done : BOOLEAN, ventxt : S, devtxt : S],
           NEW b \in [findven : BOOLEAN, done : BOOLEAN, ventxt : S, devtxt : S],
           a.findven = b.findven, a.done = b.done, a.ventxt = b.ventxt, a.devtxt = b.devtxt
    PROVE  a = b
OBVIOUS

LEMMA SameFields ==
    ASSUME NEW a \in Result, NEW b \in Result,
           a.findven = b.findven, a.done = b.done, a.ventxt = b.ventxt, a.devtxt = b.devtxt
    PROVE  a = b
BY SameRecord, Zenon DEF Result

\* What each line does to the state of the loop: nothing once it is done, ...
LEMMA ParseDone ==
    ASSUME NEW s, s.done, NEW l, NEW ven, NEW dev
    PROVE  Parse(s, l, ven, dev) = s
BY DEF Parse, Result

\* ... the vendor's line, ...
LEMMA ParseVendor ==
    ASSUME NEW s \in Result, ~s.done, NEW l, NEW ven, NEW dev, Plain(l, 0, ven),
           l.text \in STRING
    PROVE  Parse(s, l, ven, dev)
             = Found(TRUE, FALSE, l.text, s.devtxt)
<1> DEFINE a == [s EXCEPT !.ventxt = l.text, !.findven = TRUE]
           b == Found(TRUE, FALSE, l.text, s.devtxt)
<1>1. Parse(s, l, ven, dev) = a BY DEF Parse, ReadLine, Plain
<1>2. a \in Result /\ b \in Result BY DEF Result, Found
<1>3. a.findven = b.findven /\ a.done = b.done BY DEF Result, Found
<1>4. a.ventxt = b.ventxt /\ a.devtxt = b.devtxt BY DEF Result, Found
<1> HIDE DEF a, b
<1>5. a = b BY <1>2, <1>3, <1>4, SameFields
<1> QED BY <1>1, <1>5 DEF b

\* ... the device's below it, ...
LEMMA ParseDevice ==
    ASSUME NEW s \in Result, ~s.done, s.findven, NEW l, NEW ven, NEW dev,
           Plain(l, 1, dev), l.text \in STRING
    PROVE  Parse(s, l, ven, dev)
             = Found(TRUE, TRUE, s.ventxt, l.text)
<1> DEFINE a == [s EXCEPT !.devtxt = l.text, !.done = TRUE]
           b == Found(TRUE, TRUE, s.ventxt, l.text)
<1>1. Parse(s, l, ven, dev) = a BY DEF Parse, ReadLine, Plain
<1>2. a \in Result /\ b \in Result BY DEF Result, Found
<1>3. a.findven = b.findven /\ a.done = b.done BY DEF Result, Found
<1>4. a.ventxt = b.ventxt /\ a.devtxt = b.devtxt BY DEF Result, Found
<1> HIDE DEF a, b
<1>5. a = b BY <1>2, <1>3, <1>4, SameFields
<1> QED BY <1>1, <1>5 DEF b

\* ... and any other line.
LEMMA ParseOther ==
    ASSUME NEW s \in Result, NEW l, NEW ven, NEW dev, l.tabs \in 0 .. 2,
           ~Plain(l, 0, ven), s.findven => ~Plain(l, 1, dev)
    PROVE  Parse(s, l, ven, dev) = s
<1>1. l.tabs # -1 OBVIOUS
<1> QED BY <1>1 DEF Parse, ReadLine, Plain, Result

\* The loop stops at the first line of the device after the vendor's.
LEMMA FirstIsFound ==
    ASSUME NEW file, Len(file) \in Nat, LineType(file), NEW ven, NEW dev,
           NEW m \in 1 .. Len(file), NEW d \in 1 .. Len(file), m < d,
           Plain(file[m], 0, ven), Plain(file[d], 1, dev),
           \A k \in 1 .. Len(file) : k < d /\ Plain(file[k], 0, ven) => k = m,
           \A k \in 1 .. Len(file) : m < k /\ k < d => ~Plain(file[k], 1, dev)
    PROVE  LET found == GetVendorAndDeviceTexts(file, ven, dev)
           IN  found.ventxt = file[m].text /\ found.devtxt = file[d].text
<1> DEFINE last == Len(file)
           s == LinesRead(file, ven, dev)
           inside == Found(TRUE, FALSE, file[m].text, NoText)
           end == Found(TRUE, TRUE, file[m].text, file[d].text)
           At(n) == s[n] = IF n < m THEN Start ELSE IF n < d THEN inside ELSE end
           T == {n \in Nat : n <= last => At(n)}
<1>1. /\ Start \in Result /\ inside \in Result /\ end \in Result
      /\ ~Start.done /\ ~inside.done /\ end.done /\ ~Start.findven /\ inside.findven
      /\ Start.devtxt = NoText /\ inside.ventxt = file[m].text
  BY DEF Start, Result, Found, LineType
<1>2. s[0] = Start /\ \A n \in 1 .. last : s[n] = Parse(s[n - 1], file[n], ven, dev)
  BY LinesReadFacts
<1>3. 0 \in T
  <2> HIDE DEF s, inside, end
  <2> QED BY <1>2
<1>4. ASSUME NEW n \in Nat, n \in T PROVE n + 1 \in T
  <2> HIDE DEF inside, end, s
  <2> SUFFICES ASSUME n + 1 <= last PROVE At(n + 1)
    OBVIOUS
  <2>1. n + 1 \in 1 .. last /\ (n + 1) - 1 = n /\ n <= last BY <1>4
  <2>2. At(n) BY <1>4, <2>1
  <2>3. s[n + 1] = Parse(s[n], file[n + 1], ven, dev) BY <1>2, <2>1
  <2>4. file[n + 1].tabs \in 0 .. 2 BY <2>1 DEF LineType
  <2>5. CASE n + 1 < m
    <3>1. s[n] = Start /\ ~Plain(file[n + 1], 0, ven) BY <2>1, <2>2, <2>5
    <3>2. s[n + 1] = Start BY <1>1, <2>3, <2>4, <3>1, ParseOther
    <3> QED BY <2>5, <3>2
  <2>6. CASE n + 1 = m
    <3>1. s[n] = Start BY <2>2, <2>6
    <3>2. file[m].text \in STRING BY DEF LineType
    <3>3. Parse(Start, file[m], ven, dev) = Found(TRUE, FALSE, file[m].text, Start.devtxt)
      BY <1>1, <3>2, ParseVendor
    <3>4. s[n + 1] = inside BY <1>1, <2>3, <2>6, <3>1, <3>3 DEF inside
    <3> QED BY <2>6, <3>4
  <2>7. CASE m < n + 1 /\ n + 1 < d
    <3>1. ~(n < m) /\ n < d BY <2>7
    <3>2. s[n] = inside BY <2>2, <3>1
    <3>3. ~Plain(file[n + 1], 0, ven) /\ ~Plain(file[n + 1], 1, dev) BY <2>1, <2>7
    <3>4. s[n + 1] = inside BY <1>1, <2>3, <2>4, <3>2, <3>3, ParseOther
    <3>5. ~(n + 1 < m) BY <2>7
    <3> QED BY <2>7, <3>4, <3>5
  <2>8. CASE n + 1 = d
    <3>1. ~(n < m) /\ n < d /\ ~(n + 1 < m) BY <2>8
    <3>2. s[n] = inside BY <2>2, <3>1
    <3>3. file[d].text \in STRING BY DEF LineType
    <3>4. Parse(inside, file[d], ven, dev) = Found(TRUE, TRUE, inside.ventxt, file[d].text)
      BY <1>1, <3>3, ParseDevice
    <3>5. s[n + 1] = end BY <1>1, <2>3, <2>8, <3>2, <3>4 DEF end
    <3> QED BY <2>8, <3>1, <3>5
  <2>9. CASE d < n + 1
    <3>1. ~(n < m) /\ ~(n < d) /\ ~(n + 1 < m) /\ ~(n + 1 < d) BY <2>9
    <3>2. s[n] = end BY <2>2, <3>1
    <3>3. s[n + 1] = end BY <1>1, <2>3, <3>2, ParseDone
    <3> QED BY <3>1, <3>3
  <2> QED BY <2>5, <2>6, <2>7, <2>8, <2>9
<1>5. last \in T
  <2> HIDE DEF T
  <2> QED BY <1>3, <1>4, Induction
<1>6. s[last] = end
  <2>1. ~(last < m) /\ ~(last < d) OBVIOUS
  <2> HIDE DEF s, inside, end
  <2> QED BY <1>5, <2>1
<1>7. end.ventxt = file[m].text /\ end.devtxt = file[d].text BY DEF Start, Found
<1> QED BY <1>6, <1>7 DEF GetVendorAndDeviceTexts

\* What is found stands in a plain line of the vendor, and in one of the device
\* further down.
Origin(file, ven, dev, found) ==
    /\ found.ventxt # NoText =>
          \E m \in 1 .. Len(file) : Plain(file[m], 0, ven) /\ found.ventxt = file[m].text
    /\ found.devtxt # NoText =>
          \E m, d \in 1 .. Len(file) :
              /\ m < d /\ Plain(file[m], 0, ven) /\ Plain(file[d], 1, dev)
              /\ found.devtxt = file[d].text

LEMMA FoundInFile ==
    ASSUME NEW file, Len(file) \in Nat, LineType(file), NEW ven, NEW dev
    PROVE  Origin(file, ven, dev, GetVendorAndDeviceTexts(file, ven, dev))
<1> DEFINE last == Len(file)
           s == LinesRead(file, ven, dev)
           Seen(n) == \E m \in 1 .. n : Plain(file[m], 0, ven)
           At(n) == /\ s[n] \in Result /\ Origin(file, ven, dev, s[n])
                    /\ s[n].findven => Seen(n)
           T == {n \in Nat : n <= last => At(n)}
<1>2. s[0] = Start /\ \A n \in 1 .. last : s[n] = Parse(s[n - 1], file[n], ven, dev)
  BY LinesReadFacts
<1>3. 0 \in T
  <2>1. Start \in Result /\ ~Start.findven /\ Origin(file, ven, dev, Start)
    BY DEF Start, Result, Origin
  <2> HIDE DEF s
  <2> QED BY <1>2, <2>1
<1>4. ASSUME NEW n \in Nat, n \in T PROVE n + 1 \in T
  <2> SUFFICES ASSUME n + 1 <= last PROVE At(n + 1)
    OBVIOUS
  <2> DEFINE l == file[n + 1]
             t == s[n + 1]
  <2>1. n + 1 \in 1 .. last /\ (n + 1) - 1 = n /\ n <= last BY <1>4
  <2>2. At(n) BY <1>4, <2>1
  <2>3. t = Parse(s[n], l, ven, dev) BY <1>2, <2>1
  <2>4. l.tabs \in 0 .. 2 /\ l.text \in STRING BY <2>1 DEF LineType
  <2>5. Seen(n) => Seen(n + 1) OBVIOUS
  <2> HIDE DEF s, t, l
  <2>6. CASE t = s[n] BY <2>2, <2>5, <2>6 DEF t
  <2>7. CASE ~s[n].done /\ Plain(l, 0, ven)
    <3>1. t = Found(TRUE, FALSE, l.text, s[n].devtxt)
      BY <2>2, <2>3, <2>4, <2>7, ParseVendor
    <3>2. t \in Result /\ t.ventxt = l.text /\ t.devtxt = s[n].devtxt
      BY <2>2, <2>4, <3>1 DEF Result, Found
    <3>3. Origin(file, ven, dev, t) BY <2>1, <2>2, <2>7, <3>2 DEF Origin, l
    <3>4. Seen(n + 1) BY <2>1, <2>7 DEF l
    <3> QED BY <3>2, <3>3, <3>4 DEF t
  <2>8. CASE ~s[n].done /\ s[n].findven /\ Plain(l, 1, dev)
    <3>1. t = Found(TRUE, TRUE, s[n].ventxt, l.text)
      BY <2>2, <2>3, <2>4, <2>8, ParseDevice
    <3>2. t \in Result /\ t.devtxt = l.text /\ t.ventxt = s[n].ventxt
      BY <2>2, <2>4, <3>1 DEF Result, Found
    <3>3. PICK m \in 1 .. n : Plain(file[m], 0, ven) BY <2>2, <2>8
    <3>4. m \in 1 .. last /\ m < n + 1 BY <2>1
    <3>5. Origin(file, ven, dev, t) BY <2>1, <2>2, <2>8, <3>2, <3>3, <3>4 DEF Origin, l
    <3>6. Seen(n + 1) BY <2>2, <2>5, <2>8
    <3> QED BY <3>2, <3>5, <3>6 DEF t
  <2>9. s[n].done \/ (~Plain(l, 0, ven) /\ (s[n].findven => ~Plain(l, 1, dev))) => t = s[n]
    BY <2>2, <2>3, <2>4, ParseDone, ParseOther
  <2> QED BY <2>6, <2>7, <2>8, <2>9
<1>5. last \in T
  <2> HIDE DEF T
  <2> QED BY <1>3, <1>4, Induction
<1> QED BY <1>5 DEF GetVendorAndDeviceTexts

\* The lines that lfdk can be given, as the loop reads them.
LEMMA IdsFacts ==
    ASSUME BootInv
    PROVE  /\ Len(given.ids) \in Nat /\ DOMAIN given.ids = 1 .. Len(given.ids)
           /\ LineType(given.ids) /\ Sorted(given.ids)
<1>1. PICK b \in Boots :
          given = [option |-> b.option, mcfg |-> b.mcfg, ids |-> b.ids,
                   high_memory |-> b.high_memory]
  BY DEF BootInv
<1>2. given.ids = b.ids BY <1>1
<1>3. given.ids \in Seq(Line) /\ Sorted(given.ids) BY <1>2, ScanAssumption
<1>4. /\ Len(given.ids) \in Nat /\ DOMAIN given.ids = 1 .. Len(given.ids)
      /\ \A n \in 1 .. Len(given.ids) : given.ids[n] \in Line
  BY <1>3
<1>5. \A l \in Line : l.tabs \in 0 .. 2 /\ l.text \in STRING BY DEF Line
<1> QED BY <1>3, <1>4, <1>5 DEF LineType

TextsFor(id) == GetVendorAndDeviceTexts(given.ids, id[1], id[2])

Named(r) ==
    LET found == TextsFor(FunctionOf(r).id)
    IN  r.ventxt = found.ventxt /\ r.devtxt = found.devtxt

\* Every record has the names that the file gave for its function.
NamesInv == \A r \in Records : Named(r)

LEMMA NamesStep ==
    ASSUME ScanInv, NamesInv, [Next]_vars
    PROVE  NamesInv'
<1>1. BootInv /\ ScanTypeInv /\ StageInv /\ ListInv BY DEF ScanInv
<1>2. UNCHANGED <<machine, given>> BY DEF Next, vars, PciScanInit, Probe, ProbeBy, ReadId, FirstCap,
        ReadCap, WalkOn, WalkEnds, ComparePort, CompareMmio, Done
<1>3. \A q : Named(q)' <=> Named(q) BY <1>2 DEF Named, TextsFor, FunctionOf
<1>4. CASE UNCHANGED lfdd_pci_list
  <2>1. Records' = Records BY <1>4 DEF Records
  <2> QED BY <1>3, <2>1 DEF NamesInv
<1>5. ASSUME pc \in InFunction, NEW b, Record(b) PROVE NamesInv'
  <2> DEFINE r == [bus |-> bus, slot |-> slot, ventxt |-> Texts.ventxt,
                   devtxt |-> Texts.devtxt, phy_base |-> b]
  <2>1. lfdd_pci_list' = Append(lfdd_pci_list, r) BY <1>5 DEF Record
  <2>2. /\ r.bus = bus /\ r.slot = slot
        /\ r.ventxt = Texts.ventxt /\ r.devtxt = Texts.devtxt
    OBVIOUS
  <2> HIDE DEF r
  <2>3. Here = machine[<<bus, slot>>]
    BY <1>1, <1>5, HereIsSlot DEF ScanTypeInv, StageInv, InFunction
  <2>4. Named(r) BY <2>2, <2>3 DEF Named, TextsFor, FunctionOf, Texts
  <2>5. Records' = Records \cup {r} BY <1>1, <2>1, RecordsGrow
  <2> QED BY <1>3, <2>4, <2>5 DEF NamesInv
<1>6. (pc \in InFunction /\ \E b : Record(b)) \/ UNCHANGED lfdd_pci_list
  BY DEF Next, vars, PciScanInit, Probe, ProbeBy, ReadId, FirstCap, ReadCap, WalkOn, WalkEnds,
     ComparePort, CompareMmio, Done, MoveToNext, InFunction
<1> QED BY <1>4, <1>5, <1>6

LEMMA NamesInvariant == Spec => []NamesInv
<1>1. Init => NamesInv
  <2> SUFFICES ASSUME Init PROVE Records = {} BY DEF NamesInv
  <2>1. DOMAIN lfdd_pci_list = {} BY DEF Init
  <2> QED BY <2>1 DEF Records
<1> QED BY <1>1, NamesStep, ScanInvariant, PTL DEF Spec

\* NamesFound: the lines that pci.ids has for a function are the first the loop
\* takes, whatever the other lines are, as there is no vendor twice and no device
\* twice under a vendor (GetVendorAndDeviceTexts).
THEOREM NamesAreFound == Spec => []NamesFound
<1>1. ASSUME BootInv, NEW id, NEW m \in VendorLines(given.ids, id[1]),
             NEW d \in DeviceLines(given.ids, id[1], id[2]),
             given.ids[m].sharp = "nowhere", given.ids[d].sharp = "nowhere"
      PROVE  /\ TextsFor(id).ventxt = given.ids[m].text
             /\ TextsFor(id).devtxt = given.ids[d].text
  <2> DEFINE ids == given.ids
  <2>1. /\ Len(ids) \in Nat /\ DOMAIN ids = 1 .. Len(ids)
        /\ LineType(ids) /\ Sorted(ids)
    BY <1>1, IdsFacts
  <2> HIDE DEF ids
  <2>2. /\ m \in DOMAIN ids /\ IsVendor(ids[m]) /\ ids[m].id = id[1]
        /\ ids[m].sharp = "nowhere"
    BY <1>1 DEF VendorLines, ids
  <2>3. /\ d \in DOMAIN ids /\ IsDevice(ids[d]) /\ ids[d].id = id[2]
        /\ ids[d].sharp = "nowhere"
        /\ \E v \in VendorLines(ids, id[1]) : Under(ids, v, d)
    BY <1>1 DEF DeviceLines, ids
  <2>4. PICK v \in DOMAIN ids : IsVendor(ids[v]) /\ ids[v].id = id[1] /\ Under(ids, v, d)
    BY <2>3 DEF VendorLines
  <2>5. \A j, k \in DOMAIN ids : IsVendor(ids[j]) /\ IsVendor(ids[k])
                                  /\ ids[j].id = ids[k].id => ~(j < k)
    BY <2>1 DEF Sorted
  <2>6. \A k \in DOMAIN ids : IsVendor(ids[k]) /\ ids[k].id = id[1] => k = m
    <3>1. \A j, k \in DOMAIN ids : ~(j < k) /\ ~(k < j) => j = k BY <2>1
    <3> QED BY <2>2, <2>5, <3>1
  <2>7. v = m BY <2>4, <2>6
  <2>8. m < d /\ \A k \in m + 1 .. d : ~IsVendor(ids[k])
    BY <2>4, <2>7 DEF Under
  <2>9. Plain(ids[m], 0, id[1]) /\ Plain(ids[d], 1, id[2])
    BY <2>2, <2>3 DEF Plain, IsVendor, IsDevice
  <2>10. \A l : (\A i : Plain(l, 0, i) => IsVendor(l) /\ l.id = i)
                 /\ (\A i : Plain(l, 1, i) => IsDevice(l) /\ l.id = i)
    BY DEF Plain, IsVendor, IsDevice
  <2>11. \A k \in 1 .. Len(ids) : k < d /\ Plain(ids[k], 0, id[1]) => k = m
    BY <2>1, <2>6, <2>10
  <2>12. ASSUME NEW k \in 1 .. Len(ids), m < k, k < d PROVE ~Plain(ids[k], 1, id[2])
    <3>1. Under(ids, m, k)
      <4>1. m + 1 .. k \subseteq m + 1 .. d BY <2>1, <2>2, <2>3, <2>12
      <4> QED BY <2>2, <2>8, <2>12, <4>1 DEF Under
    <3>2. Under(ids, m, d) BY <2>4, <2>7
    <3>3. ~(IsDevice(ids[k]) /\ ids[k].id = ids[d].id)
      BY <2>1, <2>2, <2>3, <2>12, <3>1, <3>2 DEF Sorted
    <3> QED BY <2>3, <2>10, <3>3
  <2>13. LET found == GetVendorAndDeviceTexts(ids, id[1], id[2])
         IN  found.ventxt = ids[m].text /\ found.devtxt = ids[d].text
    <3>1. m \in 1 .. Len(ids) /\ d \in 1 .. Len(ids) /\ m < d BY <2>1, <2>2, <2>3, <2>8
    <3>2. \A k \in 1 .. Len(ids) : m < k /\ k < d => ~Plain(ids[k], 1, id[2]) BY <2>12
    <3>3. PICK ven, dev : ven = id[1] /\ dev = id[2] OBVIOUS
    <3>4. Plain(ids[m], 0, ven) /\ Plain(ids[d], 1, dev) BY <2>9, <3>3
    <3>5. \A k \in 1 .. Len(ids) : k < d /\ Plain(ids[k], 0, ven) => k = m BY <2>11, <3>3
    <3>6. \A k \in 1 .. Len(ids) : m < k /\ k < d => ~Plain(ids[k], 1, dev) BY <3>2, <3>3
    <3>7. Len(ids) \in Nat /\ LineType(ids) BY <2>1
    <3>8. LET found == GetVendorAndDeviceTexts(ids, ven, dev)
          IN  found.ventxt = ids[m].text /\ found.devtxt = ids[d].text
      BY <3>1, <3>4, <3>5, <3>6, <3>7, FirstIsFound
    <3> QED BY <3>3, <3>8
  <2> QED BY <2>13 DEF TextsFor, ids
<1>2. BootInv /\ NamesInv => NamesFound
  BY <1>1 DEF NamesInv, Named, Records, NamesFound
<1>3. ScanInv => BootInv BY DEF ScanInv
<1> QED BY <1>2, <1>3, NamesInvariant, ScanInvariant, PTL

\* NamesRead: whatever the file, a device's text is only taken from a line below
\* one of the vendor's, which bounds what the missing reset of findven can do.
THEOREM NamesAreRead == Spec => []NamesRead
<1>1. ASSUME BootInv, NEW id
      PROVE  LET found == TextsFor(id)
                 ids == given.ids
             IN  /\ found.ventxt # NoText =>
                        \E m \in VendorLines(ids, id[1]) : found.ventxt = ids[m].text
                 /\ found.devtxt # NoText =>
                        \E m \in VendorLines(ids, id[1]), d \in DOMAIN ids :
                            /\ m < d /\ IsDevice(ids[d]) /\ ids[d].id = id[2]
                            /\ found.devtxt = ids[d].text
  <2>1. /\ Len(given.ids) \in Nat /\ DOMAIN given.ids = 1 .. Len(given.ids)
        /\ LineType(given.ids)
    BY <1>1, IdsFacts
  <2>2. Origin(given.ids, id[1], id[2], TextsFor(id)) BY <2>1, FoundInFile DEF TextsFor
  <2>3. \A l : (\A i : Plain(l, 0, i) => IsVendor(l) /\ l.id = i)
                /\ (\A i : Plain(l, 1, i) => IsDevice(l) /\ l.id = i)
    BY DEF Plain, IsVendor, IsDevice
  <2> QED BY <2>1, <2>2, <2>3 DEF Origin, VendorLines
<1>2. BootInv /\ NamesInv => NamesRead
  <2> SUFFICES ASSUME BootInv, NamesInv, NEW n \in DOMAIN lfdd_pci_list
               PROVE  LET r == lfdd_pci_list[n]
                          id == FunctionOf(r).id
                          ids == given.ids
                      IN  /\ r.ventxt # NoText =>
                                 \E m \in VendorLines(ids, id[1]) : r.ventxt = ids[m].text
                          /\ r.devtxt # NoText =>
                                 \E m \in VendorLines(ids, id[1]), d \in DOMAIN ids :
                                     /\ m < d /\ IsDevice(ids[d]) /\ ids[d].id = id[2]
                                     /\ r.devtxt = ids[d].text
    BY DEF NamesRead
  <2>1. Named(lfdd_pci_list[n]) BY DEF NamesInv, Records
  <2> QED BY <1>1, <2>1 DEF Named
<1>3. ScanInv => BootInv BY DEF ScanInv
<1> QED BY <1>2, <1>3, NamesInvariant, ScanInvariant, PTL

\* NamesRight: both together, for every machine and every file
\* (GetVendorAndDeviceTexts).
THEOREM NamesAreRight == Spec => []NamesRight
<1>1. NamesFound /\ NamesRead => NamesRight BY DEF NamesRight
<1> QED BY <1>1, NamesAreFound, NamesAreRead, PTL

-----------------------------------------------------------------------------
\* The end of the scan, as far as it is a matter of safety.

\* The numbers of ScanAssumption, apart from what it says of the machines.
LEMMA ScanSizes ==
    /\ BUSES \in 1 .. 256 /\ SLOTS \in 1 .. 256
    /\ maxpcibus < BUSES /\ maxpcibus \in Nat /\ WALK_LIMIT \in Nat
BY ScanAssumption, Zenon

LEMMA ProductIsNat ==
    ASSUME NEW a \in Nat, NEW b \in Nat, NEW c \in Nat
    PROVE  a * b \in Nat /\ a * b + c \in Nat
OBVIOUS

\* One slot more outweighs any way through a slot.
LEMMA SlotOutweighs ==
    ASSUME NEW k \in Nat, NEW a \in Nat, NEW b \in Nat, a < b, NEW r \in 0 .. k - 1
    PROVE  a * k + r < b * k /\ a * k \in Nat /\ b * k \in Nat
<1>1. PICK c \in Nat : b = a + 1 + c
  <2>1. b - (a + 1) \in Nat /\ b = a + 1 + (b - (a + 1)) OBVIOUS
  <2> QED BY <2>1
<1>2. b * k = a * k + k + c * k BY <1>1
<1>3. a * k \in Nat /\ c * k \in Nat OBVIOUS
<1> QED BY <1>2, <1>3

\* Where the scan is between its start and its end.
LEMMA StageFacts ==
    ASSUME ScanTypeInv, pc \in {"probe"} \cup InFunction
    PROVE  /\ Stage \in 0 .. Longest - 1 /\ Longest \in Nat
           /\ bus * SLOTS + slot \in Nat
           /\ Progress = 1 + (bus * SLOTS + slot) * Longest + Stage
<1>1. WALK_LIMIT \in Nat /\ SLOTS \in Nat BY ScanSizes
<1>2. walk_limit \in 0 .. WALK_LIMIT /\ bus \in Nat /\ slot \in Nat
  BY ScanSizes DEF ScanTypeInv
<1>3. bus * SLOTS + slot \in Nat BY <1>1, <1>2
<1>4. Stage \in 0 .. 5 + WALK_LIMIT BY <1>1, <1>2 DEF Stage
<1>5. Progress = 1 + (bus * SLOTS + slot) * Longest + Stage BY DEF Progress, InFunction
<1> QED BY <1>1, <1>3, <1>4, <1>5 DEF Longest

\* From a slot to the next one, or to the end.
LEMMA SlotAdvances ==
    ASSUME ScanTypeInv, ScanTypeInv', pc \in {"probe"} \cup InFunction,
           bus < maxpcibus, pc' \in {"probe", "done"},
           pc' = "probe" => bus' < maxpcibus /\ bus * SLOTS + slot < bus' * SLOTS + slot'
    PROVE  Progress < Progress' /\ Progress' <= 1 + maxpcibus * SLOTS * Longest
<1> DEFINE here == bus * SLOTS + slot
           there == bus' * SLOTS + slot'
           last == maxpcibus * SLOTS
           K == Longest
<1>1. Stage \in 0 .. K - 1 /\ K \in Nat /\ here \in Nat /\ Progress = 1 + here * K + Stage
  BY StageFacts
<1>2. SLOTS \in Nat /\ maxpcibus \in Nat BY ScanSizes
<1>3. here < last /\ last \in Nat
  <2>1. slot \in 0 .. SLOTS - 1 /\ bus \in Nat BY ScanSizes DEF ScanTypeInv
  <2> QED BY <1>2, <2>1, SlotOutweighs
<1>4. here * K + Stage < last * K /\ here * K \in Nat /\ last * K \in Nat
  <2> HIDE DEF here, last, K
  <2> QED BY <1>1, <1>3, SlotOutweighs
<1>5. CASE pc' = "done"
  <2>1. Progress' = 1 + last * K BY <1>5 DEF Progress, Longest
  <2> HIDE DEF here, last, K
  <2>2. Progress < Progress' /\ Progress' <= 1 + last * K BY <1>1, <1>4, <2>1
  <2> QED BY <2>2 DEF last, K
<1>6. CASE pc' = "probe"
  <2>1. there \in Nat /\ Progress' = 1 + there * K
    <3>1. SLOTS \in Nat /\ bus' \in Nat /\ slot' \in Nat BY ScanSizes DEF ScanTypeInv
    <3>2. there \in Nat
      <4>1. PICK b, t : b = bus' /\ t = slot' OBVIOUS
      <4>2. b * SLOTS + t \in Nat BY <3>1, <4>1, ProductIsNat
      <4> QED BY <4>1, <4>2
    <3>3. Stage' = 0 BY <1>6 DEF Stage
    <3>4. Progress' = 1 + there * K + Stage' BY <1>6 DEF Progress, Longest
    <3> HIDE DEF there, K
    <3> QED BY <1>1, <3>2, <3>3, <3>4
  <2>2. there < last
    <3>1. slot' \in 0 .. SLOTS - 1 /\ bus' \in Nat /\ bus' < maxpcibus
      BY <1>6, ScanSizes DEF ScanTypeInv
    <3> QED BY <1>2, <3>1, SlotOutweighs
  <2>3. here < there BY <1>6
  <2> HIDE DEF here, there, last, K
  <2>4. 0 < K /\ 0 \in 0 .. K - 1 BY <1>1
  <2>5. here * K + Stage < there * K /\ there * K \in Nat BY <1>1, <2>1, <2>3, SlotOutweighs
  <2>6. there * K + 0 < last * K BY <1>1, <1>3, <2>1, <2>2, <2>4, SlotOutweighs
  <2>7. Progress < Progress' /\ Progress' <= 1 + last * K
    BY <1>1, <1>4, <2>1, <2>5, <2>6
  <2> QED BY <2>7 DEF last, K
<1> QED BY <1>5, <1>6

\* The next slot is further on.
LEMMA NextSlotAdvances ==
    ASSUME ScanTypeInv, bus < maxpcibus, NextSlot, pc' = "probe"
    PROVE  bus' < maxpcibus /\ bus * SLOTS + slot < bus' * SLOTS + slot'
<1>1. bus \in Nat /\ slot \in Nat /\ SLOTS \in Nat /\ slot < SLOTS
  BY ScanSizes DEF ScanTypeInv
<1>2. bus' < maxpcibus BY NextSlotFacts
<1>3. CASE slot + 1 < SLOTS
  <2>1. slot' = slot + 1 /\ bus' = bus BY <1>3 DEF NextSlot
  <2>2. bus * SLOTS \in Nat BY <1>1
  <2> QED BY <1>1, <1>2, <2>1, <2>2
<1>4. CASE ~(slot + 1 < SLOTS)
  <2>1. slot' = 0 /\ bus' = (bus + 1) % BUSES BY <1>4 DEF NextSlot
  <2>2. bus + 1 < BUSES /\ BUSES \in Nat
    BY <1>1, ScanSizes
  <2>3. bus' = bus + 1
    <3>1. \A a, b \in Nat : a < b => a % b = a OBVIOUS
    <3> QED BY <1>1, <2>1, <2>2, <3>1
  <2>4. bus * SLOTS + slot < (bus + 1) * SLOTS
    BY <1>1, SlotOutweighs
  <2>5. (bus + 1) * SLOTS \in Nat BY <1>1
  <2> QED BY <1>2, <2>1, <2>3, <2>4, <2>5
<1> QED BY <1>3, <1>4

\* A step within a slot.
LEMMA StageAdvances ==
    ASSUME ScanTypeInv, ScanTypeInv', pc \in {"probe"} \cup InFunction, pc' \in InFunction,
           bus < maxpcibus, UNCHANGED <<bus, slot>>, Stage < Stage'
    PROVE  Progress < Progress' /\ Progress' <= 1 + maxpcibus * SLOTS * Longest
<1> DEFINE here == bus * SLOTS + slot
           last == maxpcibus * SLOTS
           K == Longest
<1>1. Stage \in 0 .. K - 1 /\ K \in Nat /\ here \in Nat /\ Progress = 1 + here * K + Stage
  BY StageFacts
<1>2. Stage' \in 0 .. K - 1 /\ Progress' = 1 + here * K + Stage'
  <2>1. (bus * SLOTS + slot)' = here /\ K' = K BY DEF Longest
  <2>2. /\ Stage' \in 0 .. K' - 1
        /\ Progress' = 1 + (bus * SLOTS + slot)' * K' + Stage'
    <3>1. WALK_LIMIT \in Nat /\ walk_limit' \in 0 .. WALK_LIMIT
      BY ScanSizes DEF ScanTypeInv
    <3>2. Stage' \in 0 .. 5 + WALK_LIMIT BY <3>1 DEF Stage
    <3>3. Progress' = 1 + (bus * SLOTS + slot)' * K' + Stage' BY DEF Progress, InFunction
    <3> QED BY <3>1, <3>2, <3>3 DEF Longest
  <2> QED BY <2>1, <2>2
<1>3. SLOTS \in Nat /\ maxpcibus \in Nat BY ScanSizes
<1>4. here < last /\ last \in Nat
  <2>1. slot \in 0 .. SLOTS - 1 /\ bus \in Nat BY ScanSizes DEF ScanTypeInv
  <2> QED BY <1>3, <2>1, SlotOutweighs
<1> HIDE DEF here, last, K
<1>5. here * K + Stage' < last * K /\ here * K \in Nat /\ last * K \in Nat
  BY <1>1, <1>2, <1>4, SlotOutweighs
<1>6. Progress < Progress' /\ Progress' <= 1 + last * K
  <2>1. PICK a, b, c \in Nat : a = here * K /\ b = Stage /\ c = Stage'
    BY <1>1, <1>2, <1>5
  <2>2. PICK z \in Nat : z = last * K BY <1>5
  <2>3. Progress = 1 + a + b /\ Progress' = 1 + a + c /\ b < c /\ a + c < z
    BY <1>1, <1>2, <1>5, <2>1, <2>2
  <2> QED BY <2>2, <2>3
<1> QED BY <1>6 DEF last, K

\* What ScanAdvances says of a step.
Further == Progress < Progress' /\ Progress' <= 1 + maxpcibus * SLOTS * Longest

\* ScanAdvances: each request brings the scan nearer to its end; with fairness,
\* which the code has as it only waits for the driver, that is ScanEnds.
THEOREM ScanGoesOn == Spec => ScanAdvances
<1>1. ASSUME ScanInv, ScanInv', Next
      PROVE  Further \/ UNCHANGED vars
  <2>1. /\ ScanTypeInv /\ ScanTypeInv' /\ ListInv
        /\ pc \notin {"init", "done"} => bus < maxpcibus
        /\ pc' \notin {"init", "done"} => bus' < maxpcibus
    BY <1>1 DEF ScanInv, ListInv
  <2>2. WALK_LIMIT \in Nat /\ walk_limit \in 0 .. WALK_LIMIT
    BY <2>1, ScanSizes DEF ScanTypeInv
  <2>3. ASSUME pc \in {"probe"} \cup InFunction, NextSlot PROVE Further
    <3>1. bus < maxpcibus BY <2>1, <2>3 DEF InFunction
    <3>2. pc' \in {"probe", "done"} BY <2>3 DEF NextSlot, Goto
    <3> QED BY <2>1, <2>3, <3>1, <3>2, NextSlotAdvances, SlotAdvances DEF Further
  <2>4. ASSUME pc \in InFunction, NEW b, MoveToNext(b) PROVE Further
    <3>1. CASE NextSlot BY <2>3, <2>4, <3>1
    <3>2. CASE ~NextSlot
      <4>1. pc' = "done" BY <2>4, <3>2 DEF MoveToNext, Goto
      <4>2. bus < maxpcibus BY <2>1, <2>4 DEF InFunction
      <4> QED BY <2>1, <2>4, <4>1, <4>2, SlotAdvances DEF Further
    <3> QED BY <3>1, <3>2
  <2>5. ASSUME pc \in {"probe"} \cup InFunction, pc' \in InFunction,
               UNCHANGED <<bus, slot>>, Stage < Stage'
        PROVE  Further
    BY <2>1, <2>5, StageAdvances DEF InFunction, Further
  <2>6. CASE PciScanInit
    <3>1. pc = "init" /\ pc' = IF maxpcibus > 0 THEN "probe" ELSE "done"
      BY <2>6 DEF PciScanInit, Goto
    <3>2. Progress = 0 BY <3>1 DEF Progress
    <3>3. maxpcibus \in Nat /\ SLOTS \in Nat /\ Longest \in Nat
      <4>1. maxpcibus \in Nat /\ SLOTS \in Nat BY ScanSizes
      <4>2. Longest \in Nat BY <2>2 DEF Longest
      <4> QED BY <4>1, <4>2
    <3>4. maxpcibus * SLOTS * Longest \in Nat
      <4>1. maxpcibus * SLOTS \in Nat BY <3>3
      <4> QED BY <3>3, <4>1
    <3>5. CASE maxpcibus > 0
      <4>1. bus = 0 /\ slot = 0 /\ UNCHANGED <<bus, slot>>
        BY <1>1, <2>6, <3>1 DEF PciScanInit, ScanInv, StageInv
      <4>2. Stage' = 0 BY <3>1, <3>5 DEF Stage
      <4>3. (bus * SLOTS + slot)' * Longest = 0
        <5>1. (bus * SLOTS + slot)' = 0 BY <3>3, <4>1
        <5> QED BY <3>3, <5>1
      <4>4. Progress' = 1 + (bus * SLOTS + slot)' * Longest + Stage'
        BY <3>1, <3>5 DEF Progress, Longest
      <4>5. Progress' = 1 BY <4>2, <4>3, <4>4
      <4> QED BY <3>2, <3>4, <4>5 DEF Further
    <3>6. CASE ~(maxpcibus > 0)
      <4>1. Progress' = 1 + maxpcibus * SLOTS * Longest
        BY <3>1, <3>6 DEF Progress, Longest
      <4> QED BY <3>2, <3>4, <4>1 DEF Further
    <3> QED BY <3>5, <3>6
  <2>7. CASE Probe
    <3>1. pc = "probe" BY <2>7 DEF Probe, ProbeBy
    <3>2. CASE Answer(0).there
      <4>1. pc' = "read_id" /\ UNCHANGED <<bus, slot>> BY <2>7, <3>2 DEF Probe, ProbeBy, Goto
      <4>2. Stage = 0 /\ Stage' = 1 BY <3>1, <4>1 DEF Stage
      <4> QED BY <2>5, <3>1, <4>1, <4>2 DEF InFunction
    <3>3. CASE ~Answer(0).there
      <4>1. NextSlot BY <2>7, <3>3 DEF Probe, ProbeBy
      <4> QED BY <2>3, <3>1, <4>1
    <3> QED BY <3>2, <3>3
  <2>8. CASE ReadId
    <3>1. pc = "read_id" BY <2>8 DEF ReadId
    <3>2. CASE pcix_mmio_base = 0
      <4>1. MoveToNext(0) BY <2>8, <3>2 DEF ReadId
      <4> QED BY <2>4, <3>1, <4>1 DEF InFunction
    <3>3. CASE pcix_mmio_base # 0
      <4>1. pc' = "first_cap" /\ UNCHANGED <<bus, slot>> BY <2>8, <3>3 DEF ReadId, Goto
      <4>2. Stage = 1 /\ Stage' = 2 BY <3>1, <4>1 DEF Stage
      <4> QED BY <2>5, <3>1, <4>1, <4>2 DEF InFunction
    <3> QED BY <3>2, <3>3
  <2>9. CASE FirstCap
    <3>1. pc = "first_cap" /\ pc' = "walk" /\ UNCHANGED <<bus, slot, walk_limit>>
      BY <2>9 DEF FirstCap, ReadCap, Goto
    <3>2. Stage = 2 /\ Stage' = 3 + WALK_LIMIT - walk_limit BY <3>1 DEF Stage
    <3>3. Stage < Stage' BY <2>2, <3>2
    <3> QED BY <2>5, <3>1, <3>3 DEF InFunction
  <2>10. CASE WalkOn
    <3>1. /\ pc = "walk" /\ pc' = "walk" /\ UNCHANGED <<bus, slot>>
          /\ walk_limit' = walk_limit - 1
      BY <2>10 DEF WalkOn
    <3>2. Stage = 3 + WALK_LIMIT - walk_limit /\ Stage' = 3 + WALK_LIMIT - walk_limit'
      BY <3>1 DEF Stage
    <3>3. Stage < Stage' BY <2>2, <3>1, <3>2
    <3> QED BY <2>5, <3>1, <3>3 DEF InFunction
  <2>11. CASE WalkEnds
    <3>1. pc = "walk" BY <2>11 DEF WalkEnds
    <3>2. CASE cap.id = CAP_ID_PCIE
      <4>1. pc' = "compare_port" /\ UNCHANGED <<bus, slot>>
        BY <2>11, <3>2 DEF WalkEnds, Goto
      <4>2. Stage = 3 + WALK_LIMIT - walk_limit /\ Stage' = 4 + WALK_LIMIT
        BY <3>1, <4>1 DEF Stage
      <4>3. Stage < Stage' BY <2>2, <4>2
      <4> QED BY <2>5, <3>1, <4>1, <4>3 DEF InFunction
    <3>3. CASE cap.id # CAP_ID_PCIE
      <4>1. MoveToNext(0) BY <2>11, <3>3 DEF WalkEnds
      <4> QED BY <2>4, <3>1, <4>1 DEF InFunction
    <3> QED BY <3>2, <3>3
  <2>12. CASE ComparePort
    <3>1. pc = "compare_port" BY <2>12 DEF ComparePort
    <3>2. CASE Answer(0).id = <<0, 0>>
      <4>1. MoveToNext(0) BY <2>12, <3>2 DEF ComparePort
      <4> QED BY <2>4, <3>1, <4>1 DEF InFunction
    <3>3. CASE Answer(0).id # <<0, 0>>
      <4>1. pc' = "compare_mmio" /\ UNCHANGED <<bus, slot>>
        BY <2>12, <3>3 DEF ComparePort, Goto
      <4>2. Stage = 4 + WALK_LIMIT /\ Stage' = 5 + WALK_LIMIT BY <3>1, <4>1 DEF Stage
      <4>3. Stage < Stage' BY <2>2, <4>2
      <4> QED BY <2>5, <3>1, <4>1, <4>3 DEF InFunction
    <3> QED BY <3>2, <3>3
  <2>13. CASE CompareMmio
    <3>1. pc = "compare_mmio" /\ \E b : MoveToNext(b) BY <2>13 DEF CompareMmio
    <3> QED BY <2>4, <3>1 DEF InFunction
  <2>14. CASE Done BY <2>14 DEF Done
  <2> QED BY <1>1, <2>6, <2>7, <2>8, <2>9, <2>10, <2>11, <2>12, <2>13, <2>14 DEF Next
<1>2. ASSUME ScanInv, ScanInv', [Next]_vars
      PROVE  [Progress < Progress' /\ Progress' <= 1 + maxpcibus * SLOTS * Longest]_vars
  BY <1>1, <1>2 DEF Further
<1> QED BY <1>2, ScanInvariant, PTL DEF Spec, ScanAdvances

=============================================================================
