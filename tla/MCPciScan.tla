------------------------------- MODULE MCPciScan ------------------------------
(***************************************************************************)
(* Three buses of two slots, the first two of them scanned, into a list of *)
(* three records; one capability per function or a chain of two.  The      *)
(* functions vary with one start, and the start with one machine.  A       *)
(* bus has 1 MB of MMIO; RAM ends at 64 MB, within the range, or past 4G.  *)
(***************************************************************************)
EXTENDS PciScan

W(id, next) == [id |-> id, next |-> next]

\* Registers 4 and 8 hold capabilities; the ID of PCI Express is 16.
F(id, ecam, first, w4, w8) ==
    [there |-> TRUE, id |-> id, ecam |-> ecam, first |-> first,
     word |-> [r \in {0, 4, 8} |-> CASE r = 0 -> W(id[1], 0) [] r = 4 -> w4 [] OTHER -> w8]]

A == <<5, 1>>
B == <<5, 2>>

MCFunctions ==
    {Absent,
     F(A, A, 0, W(0, 0), W(0, 0)),      \* no capabilities
     F(A, A, 4, W(1, 8), W(16, 0)),     \* PCIe, last in its list
     F(B, B, 8, W(1, 0), W(16, 4)),     \* PCIe, first in its list
     F(B, A, 4, W(16, 0), W(0, 0)),     \* PCIe, but the base is wrong
     F(<<0, 0>>, <<0, 0>>, 4, W(16, 0), W(0, 0)),   \* PCIe, but register 0 is zero
     F(A, A, 4, W(1, 8), W(2, 4)),      \* a cycle without PCIe
     F(<<16, 1>>, <<16, 1>>, 0, W(0, 0), W(0, 0))}  \* a vendor ID that reads as PCIe

Machine(f, g, h) ==
    [s \in Slots |-> IF s[1] = 2 THEN (IF s[2] = 0 THEN f ELSE Absent)
                     ELSE IF s = <<0, 0>> THEN f
                     ELSE IF s = <<0, 1>> THEN g
                     ELSE IF s = <<1, 0>> THEN h ELSE g]

MB == 1024 * 1024
MCEnable == 16 * MB
MCFourGB == 512 * MB
MCGarbage == {0, 256 * MB, 600 * MB}

Boot(m, option, mcfg, ids) ==
    [machine |-> m, option |-> option, mcfg |-> mcfg, ids |-> ids, high_memory |-> 64 * MB]

E(tabs, id, text, sharp) == [tabs |-> tabs, id |-> id, text |-> text, sharp |-> sharp]

Remark == E(0, 5, "remark", "first")

\* Vendors 4, 5 and 16, with the device of an ID in the sections of some.
MCIds ==
    {<<E(0, 4, "IV", "nowhere"), E(1, 1, "IV-one", "nowhere"), Remark,
       E(0, 5, "V", v), E(1, 1, "V-one", d), E(2, 2, "sub", "nowhere"),
       E(0, 16, "XVI", "nowhere")>> \o rest :
        v \in {"nowhere", "later"}, d \in {"nowhere", "later"},
        rest \in {<<>>, <<E(1, 1, "XVI-one", "nowhere")>>, <<E(1, 2, "XVI-two", "nowhere")>>}}

\* No allocation, part of one, one and two, all of it, more or less in the file,
\* and as much as the buffer holds.
MCTables ==
    {[size |-> size, length |-> length, sum |-> sum, base |-> base] :
        size \in {43, 44, 48, 60, 76, 600}, length \in {44, 48, 60, 76, 512}, sum \in {0, 1}, base \in {128 * MB, 600 * MB}}

SomeFunction == F(A, A, 4, W(1, 8), W(16, 0))
SomeMachine == Machine(SomeFunction, F(B, B, 8, W(1, 0), W(16, 4)), F(<<16, 2>>, A, 0, W(0, 0), W(0, 0)))
\* Two functions with a bus of MMIO between them
FarMachine == Machine(SomeFunction, Absent, SomeFunction)

SomeTable == [size |-> 60, length |-> 60, sum |-> 0, base |-> 128 * MB]

MCBoots ==
    {Boot(Machine(f, g, h), 0, t, <<>>) :
        f \in MCFunctions, g \in MCFunctions, h \in MCFunctions, t \in {NoTable, SomeTable}}
    \cup {Boot(SomeMachine, o, t, <<>>) : o \in {0, 192 * MB}, t \in MCTables}
    \cup {Boot(SomeMachine, 0, SomeTable, ids) : ids \in MCIds}
    \cup {[Boot(FarMachine, o, NoTable, <<>>) EXCEPT !.high_memory = h] :
               o \in {128 * MB, 128 * MB + 100, 511 * MB, 512 * MB - 100}, h \in {64 * MB, 128 * MB, 128 * MB + 256, 600 * MB}}
=============================================================================
