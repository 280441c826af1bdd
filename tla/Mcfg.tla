-------------------------------- MODULE Mcfg --------------------------------
(***************************************************************************)
(* The MMIO base lfdk starts with: the one given with -B, else the first   *)
(* allocation of the ACPI MCFG table (find_mmio_in_MCFG, pci_scan_init,    *)
(* lfdk/lib_pci_scan.c).                                                   *)
(***************************************************************************)
EXTENDS PciAddress

CONSTANT
    Garbage  \* what an unwritten part of the buffer may read as

HEADER == 44
BUF == 512

\* A table as it lies in the file: how many bytes there are, the length its
\* header gives, the sum of the bytes that fit into buf, modulo 256, and the
\* base of its first allocation.
Table == [size : Nat, length : Nat, sum : 0 .. 255, base : Nat]

NoTable == [size |-> 0, length |-> HEADER, sum |-> 0, base |-> 0]

ASSUME McfgAssumption == Garbage \subseteq Nat /\ Garbage # {}

\* fread( buf, 1, sizeof(buf), fp )
byte_count(t) == IF t.size < BUF THEN t.size ELSE BUF

\* Slip: the length in the header is not compared with what was read.
Valid_AnyLength(t) == byte_count(t) >= HEADER /\ t.sum = 0

Valid(t) == byte_count(t) >= HEADER /\ t.length = byte_count(t) /\ t.sum = 0

\* The bases the function may return: the loop over the allocations leaves at
\* the first, whose base is read from buf even if that was not filled so far.
find_mmio_in_MCFG(t) ==
    IF ~Valid(t) \/ byte_count(t) = HEADER THEN {0}
    ELSE IF byte_count(t) < HEADER + 8 THEN Garbage
    ELSE {t.base}

\* main refuses a -B of 4G and more; pci_scan_init drops a table's.
Bases(option, t) ==
    IF option # 0 THEN {option}
    ELSE {IF b >= FOUR_GB THEN 0 ELSE b : b \in find_mmio_in_MCFG(t)}

=============================================================================
