------------------------------- MODULE IoSpace -------------------------------
(***************************************************************************)
(* The IO-SPACE window (lfdk/libio.c) on the driver's port operations      *)
(* (lfdd/libio.c).  A request the driver's ioctl does not know makes lfdk  *)
(* leave (LFDD_IOCTL, lfdk/lfdk.h).                                        *)
(***************************************************************************)
EXTENDS SpaceWindow

VARIABLES
    accessed,  \* the ports the driver has accessed in this pass
    running    \* lfdk has not exited

ioVars == <<accessed, running>>

IoInit == accessed = {} /\ running = TRUE

\* Slip: the page may start at the end of the port space.
NextPage_PastEnd ==
    IF base + PAGE > ADDR_SPACE THEN ADDR_SPACE - PAGE ELSE base + PAGE

\* ioaddr += 256, at most 0xff00; the ports end at 0xffff
NextPage ==
    IF base + PAGE > ADDR_SPACE - 1 THEN ADDR_SPACE - PAGE ELSE base + PAGE

PreviousPage == IF base - PAGE < 0 THEN 0 ELSE base - PAGE

\* The commands of lfdd_ioctl that WriteIOValue's two can be
Known(cmd) == cmd = "LFDD_IO_WRITE_BYTE"

WriteCommand ==
    IF display_mode = BYTE_MODE THEN "LFDD_IO_WRITE_BYTE" ELSE "LFDD_IO_WRITE_WORD"

\* lfdd_io_write_byte: all of the value is written if it is a byte's.
OutB(value, port) ==
    /\ accessed' = {port}
    /\ stored' = [at |-> port, width |-> 1, done |-> value < ByteValues]

\* The ports lfdd_io_read_256byte reads from addr on
PortsRead(addr) == addr .. addr + PAGE - 1

\* WriteIOValue: the ioctl, or lfdk's exit when it fails
WriteIOValue ==
    IF Known(WriteCommand)
    THEN OutB(wbuf, CellAddress) /\ UNCHANGED running
    ELSE running' = FALSE /\ UNCHANGED <<stored, accessed>>

\* io_key_press
IoKey(k) ==
    /\ running
    /\ \/ EditorKey(k) /\ UNCHANGED ioVars
       \/ /\ TakeKey /\ UNCHANGED <<stored, ioVars>>
          /\ Page(k, IF k = KEY_NPAGE THEN NextPage ELSE PreviousPage)
       \/ TakeKey /\ EnterValue(k) /\ WriteIOValue

\* io_paint; lfdd_io_read_256byte
IoPaint ==
    /\ running
    /\ Paint(OffsetText, IF input = "INPUT_ADDR" THEN "nothing" ELSE "ports")
    /\ accessed' = IF input = "INPUT_ADDR" THEN {} ELSE PortsRead(base)
    /\ UNCHANGED running

IoFocus == running /\ (GetFocus \/ LostFocus) /\ UNCHANGED ioVars

Exited == ~running /\ UNCHANGED <<windowVars, ioVars>>

IoNext == (\E k \in WindowKeys : IoKey(k)) \/ IoPaint \/ IoFocus \/ Exited

=============================================================================
