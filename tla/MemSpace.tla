------------------------------- MODULE MemSpace -------------------------------
(***************************************************************************)
(* The MEM-SPACE window (lfdk/libmem.c) on the driver's memory operations  *)
(* (lfdd/libmem.c).  The driver reaches RAM below high_memory through the  *)
(* kernel's direct mapping; a page anywhere else it reads through a        *)
(* temporary ioremap, and a write anywhere else it drops.                  *)
(***************************************************************************)
EXTENDS SpaceWindow

CONSTANTS
    HighMem,    \* virt_to_phys(high_memory)
    CORNER_MOD  \* 0x10000, what the address in the corner of the screen shows

ASSUME MemAssumption ==
    /\ HighMem \in Nat /\ HighMem % PAGE = 0
    /\ CORNER_MOD \in Nat /\ CORNER_MOD > 0 /\ CORNER_MOD % PAGE = 0

\* Slip: an address near the top wraps past the test.
Direct_Wraps(a) == (a + PAGE) % ADDR_SPACE < HighMem

\* Slip: a page that ends where RAM does is read directly.
Direct_Inclusive(a) == ADDR_SPACE - 1 - a > PAGE /\ (a + PAGE) % ADDR_SPACE <= HighMem

\* The range test of every memory operation, in 32 bit arithmetic
Direct(a) == ADDR_SPACE - 1 - a > PAGE /\ (a + PAGE) % ADDR_SPACE < HighMem

\* Slip: no test against 0.
PageUp_Wraps == (base + ADDR_SPACE - PAGE) % ADDR_SPACE

\* base -= 256, unless that wraps
PageUp ==
    LET to == (base + ADDR_SPACE - PAGE) % ADDR_SPACE IN IF to < base THEN to ELSE base

PageDown ==
    LET to == (base + PAGE) % ADDR_SPACE IN IF to > base THEN to ELSE base

\* WriteMemValue; lfdd_mem_write_byte, _word and _dword, which say nothing of
\* a write they drop
WriteMemValue ==
    stored' = [at |-> CellAddress, width |-> CellSize(display_mode),
               done |-> Direct(CellAddress)]

\* mem_key_press
MemKey(k) ==
    \/ EditorKey(k)
    \/ /\ TakeKey /\ UNCHANGED stored
       /\ Page(k, IF k = KEY_NPAGE THEN PageDown ELSE PageUp)
    \/ TakeKey /\ EnterValue(k) /\ WriteMemValue

\* mem_paint; lfdd_mem_read_256byte, whose ioremap may fail
MemPaint ==
    \E via \in CASE input = "INPUT_ADDR" -> {"nothing"}
                 [] input # "INPUT_ADDR" /\ Direct(base) -> {"direct"}
                 [] OTHER -> {"ioremap", "all ones"} :
        Paint(OffsetText % CORNER_MOD, via)

MemNext == (\E k \in WindowKeys : MemKey(k)) \/ MemPaint \/ GetFocus \/ LostFocus

=============================================================================
