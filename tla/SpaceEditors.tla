----------------------------- MODULE SpaceEditors -----------------------------
(***************************************************************************)
(* The IO-SPACE or the MEM-SPACE window with the driver.  The two share no *)
(* state, so a behaviour follows one of them.                              *)
(***************************************************************************)
EXTENDS IoSpace, MemSpace

vars == <<windowVars, ioVars>>

Init == WindowInit /\ IoInit

Next ==
    \/ space = "IO-SPACE" /\ IoNext
    \/ space = "MEM-SPACE" /\ MemNext /\ UNCHANGED ioVars

Spec == Init /\ [][Next]_vars

-----------------------------------------------------------------------------
\* Every variable holds a value of its type; the base is a page of the space.
TypeOK ==
    /\ WindowTypeOK
    /\ screen.via \in {"nothing", "ports", "direct", "ioremap", "all ones"}
    /\ running \in BOOLEAN

\* The driver, which passes a request's address to inb and outb untested, is
\* only ever asked for ports that exist, and for none at all while an address
\* is being typed (lfdk/libio.c:153-158, 347-355).
PortsExist ==
    /\ accessed \subseteq 0 .. ADDR_SPACE - 1
    /\ input = "INPUT_ADDR" /\ painted => accessed = {}

\* The driver never follows the direct mapping beyond the end of RAM, not even
\* where a page at the top of the address space makes addr + 256 wrap
\* (lfdd/libmem.c, the range test).  All below high_memory counts as RAM here.
DirectInRam ==
    space = "MEM-SPACE" =>
        /\ screen.via = "direct" => screen.at + PAGE <= HighMem
        /\ stored.done => stored.at + stored.width <= HighMem

\* A value is sent for the address that stood in the corner of the screen it was
\* typed on, and for nothing outside the page shown there, though pass, key and
\* window may have changed since (lfdk/libio.c:65-75, lfdk/libmem.c:68-92).
\* Whether the driver then writes it is the matter of TestsAgree and EnterWrites.
TypedValueLands ==
    stored # NoWrite =>
        /\ screen.corner = IF space = "IO-SPACE" THEN stored.at ELSE stored.at % CORNER_MOD
        /\ stored.at >= screen.at /\ stored.at + stored.width <= screen.at + PAGE

\* In MEM-SPACE the driver tests the page's address when it reads and the cell's
\* when it writes.  The two tests agree: a value is written if the page it was
\* typed on came through the direct mapping, and is dropped if it came through
\* ioremap (lfdd/libmem.c:113-116, 190-194).
TestsAgree ==
    space = "MEM-SPACE" /\ stored # NoWrite => (stored.done <=> screen.via = "direct")

\* Only a typed address moves the window by more than a page: the page keys
\* never wrap around the space.
PagesDoNotWrap ==
    [][input = "INPUT_ADDR" \/ base' \in {base - PAGE, base, base + PAGE}]_vars

\* README.md:106 and 141 say of both windows: "later press Enter to write the
\* content if it's R/W register".  So Enter on a page that was read writes the
\* value, in either mode of IO-SPACE, and lfdk goes on.
EnterWrites == running /\ (stored # NoWrite /\ screen.via # "all ones" => stored.done)

=============================================================================
