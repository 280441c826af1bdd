------------------------------- MODULE PciIds -------------------------------
(***************************************************************************)
(* The look-up of a function's names in pci.ids (ReadLine and              *)
(* GetVendorAndDeviceTexts, lfdk/lib_pci_scan.c).  A file is the sequence  *)
(* of its lines; a line is what ReadLine and CompareID tell of it.         *)
(***************************************************************************)
EXTENDS Integers, Sequences

CONSTANT NoText  \* the empty string

\* The number of tabs, the number the first four digits stand for, what
\* follows, and where the line has a '#'.  An empty line is read as a comment.
Line == [tabs : 0 .. 2, id : Nat, text : STRING, sharp : {"nowhere", "first", "later"}]

\* The depth of an entry, or -1.
ReadLine(l) == IF l.sharp = "nowhere" THEN l.tabs ELSE -1

Start == [findven |-> FALSE, done |-> FALSE, ventxt |-> NoText, devtxt |-> NoText]

\* Slip: the device is looked up under every vendor.
Parse_AnyVendor(s, l, ven, dev) ==
    CASE ~s.done /\ ReadLine(l) = 0 /\ l.id = ven ->
            [s EXCEPT !.ventxt = l.text, !.findven = TRUE]
      [] ~s.done /\ ReadLine(l) = 1 /\ l.id = dev ->
            [s EXCEPT !.devtxt = l.text, !.done = TRUE]
      [] OTHER -> s

\* The switch on the line's depth; findven is never taken back.
Parse(s, l, ven, dev) ==
    CASE ~s.done /\ ReadLine(l) = 0 /\ l.id = ven ->
            [s EXCEPT !.ventxt = l.text, !.findven = TRUE]
      [] ~s.done /\ ReadLine(l) = 1 /\ s.findven /\ l.id = dev ->
            [s EXCEPT !.devtxt = l.text, !.done = TRUE]
      [] OTHER -> s

\* What the loop has found after each number of lines.
LinesRead(file, ven, dev) ==
    LET state[n \in 0 .. Len(file)] ==
            IF n = 0 THEN Start ELSE Parse(state[n - 1], file[n], ven, dev)
    IN  state

\* The loop over the file; a file that cannot be opened is empty.
GetVendorAndDeviceTexts(file, ven, dev) == LinesRead(file, ven, dev)[Len(file)]

-----------------------------------------------------------------------------
\* The reference: what the file says by the syntax its header describes.

IsVendor(l) == l.sharp # "first" /\ l.tabs = 0
IsDevice(l) == l.sharp # "first" /\ l.tabs = 1

\* Line n is an entry of the vendor whose line is m.
Under(file, m, n) ==
    /\ m < n /\ IsVendor(file[m])
    /\ \A k \in m + 1 .. n : ~IsVendor(file[k])

VendorLines(file, ven) == {m \in DOMAIN file : IsVendor(file[m]) /\ file[m].id = ven}

DeviceLines(file, ven, dev) ==
    {n \in DOMAIN file :
        /\ IsDevice(file[n]) /\ file[n].id = dev
        /\ \E m \in VendorLines(file, ven) : Under(file, m, n)}

\* No vendor twice, and under a vendor no device twice.
Sorted(file) ==
    \A m, n \in DOMAIN file : m < n =>
        /\ ~(IsVendor(file[m]) /\ IsVendor(file[n]) /\ file[m].id = file[n].id)
        /\ ~(/\ IsDevice(file[m]) /\ IsDevice(file[n]) /\ file[m].id = file[n].id
             /\ \E v \in DOMAIN file : Under(file, v, m) /\ Under(file, v, n))

=============================================================================
