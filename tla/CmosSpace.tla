------------------------------ MODULE CmosSpace ------------------------------
(***************************************************************************)
(* The CMOS-SPACE windows of one or more lfdk processes (lfdk/libcmos.c).  *)
(* Unlike the other windows this one goes past the driver: it writes an    *)
(* index to port 70h and moves the byte through port 71h from user space,  *)
(* under no lock, and the index register is one for the whole machine.     *)
(***************************************************************************)
EXTENDS Grid

CONSTANT Procs

VARIABLES
    index,          \* the register behind LFDK_CMOS_ADDR_PORT
    pc,
    x, y,           \* the cursor
    input, wbuf,
    i, mass_buf,    \* the loop of ReadCmos256Bytes; the index each byte came from
    landed          \* the byte written for the key just handled

editVars == <<x, y, input, wbuf>>
vars == <<index, pc, editVars, i, mass_buf, landed>>

RANGE_BYTES == LINE * LINE

\* Another window's short key never reaches key_press.
WindowKeys == Keys \ {105, 109}

NoWrite == [aimed |-> -1, went |-> -1]

Init ==
    /\ index \in 0 .. RANGE_BYTES - 1
    /\ pc = [p \in Procs |-> "init"]
    /\ x = [p \in Procs |-> 0] /\ y = [p \in Procs |-> 0]
    /\ input = [p \in Procs |-> FALSE] /\ wbuf = [p \in Procs |-> 0]
    /\ i = [p \in Procs |-> 0]
    /\ mass_buf = [p \in Procs |-> [c \in 0 .. RANGE_BYTES - 1 |-> -1]]
    /\ landed = [p \in Procs |-> NoWrite]

Goto(p, l) == pc' = [pc EXCEPT ![p] = l]

\* cmos_init: when ioperm fails, so does lfdk.
CmosInit(p) ==
    /\ pc[p] = "init"
    /\ Goto(p, "background") \/ Goto(p, "gone")
    /\ UNCHANGED <<index, editVars, i, mass_buf, landed>>

\* cmos_paint of the foreground window, at the end of each pass: ReadCmos256Bytes
StartPaint(p) == Goto(p, "read_index") /\ i' = [i EXCEPT ![p] = 0]

ForgetInput(p) ==
    /\ input' = [input EXCEPT ![p] = FALSE]
    /\ wbuf' = [wbuf EXCEPT ![p] = 0]

\* cmos_get_focus
GetFocus(p) ==
    /\ pc[p] = "background"
    /\ ForgetInput(p) /\ StartPaint(p)
    /\ UNCHANGED <<index, x, y, mass_buf, landed>>

\* cmos_lost_focus
LostFocus(p) ==
    /\ pc[p] = "key"
    /\ ForgetInput(p) /\ Goto(p, "background")
    /\ UNCHANGED <<index, x, y, i, mass_buf, landed>>

\* A pass without a key paints again.
NoKey(p) ==
    /\ pc[p] = "key"
    /\ StartPaint(p)
    /\ UNCHANGED <<index, editVars, mass_buf, landed>>

\* outb( i, LFDK_CMOS_ADDR_PORT )
ReadIndex(p) ==
    /\ pc[p] = "read_index"
    /\ index' = i[p]
    /\ Goto(p, "read_data")
    /\ landed' = [landed EXCEPT ![p] = NoWrite]
    /\ UNCHANGED <<editVars, i, mass_buf>>

\* Slip: the buffer is filled one cell early.
ReadData_Shifted(p) ==
    /\ pc[p] = "read_data"
    /\ mass_buf' = [mass_buf EXCEPT ![p][(i[p] + 1) % RANGE_BYTES] = index]
    /\ i' = [i EXCEPT ![p] = @ + 1]
    /\ Goto(p, IF i[p] + 1 < RANGE_BYTES THEN "read_index" ELSE "key")
    /\ UNCHANGED <<index, editVars, landed>>

\* buf[i] = inb( LFDK_CMOS_DATA_PORT )
ReadData(p) ==
    /\ pc[p] = "read_data"
    /\ mass_buf' = [mass_buf EXCEPT ![p][i[p]] = index]
    /\ i' = [i EXCEPT ![p] = @ + 1]
    /\ Goto(p, IF i[p] + 1 < RANGE_BYTES THEN "read_index" ELSE "key")
    /\ UNCHANGED <<index, editVars, landed>>

-----------------------------------------------------------------------------
\* cmos_key_press

Aimed(p) == x[p] * LINE + y[p]

\* WriteCmosByteValue, first outb
WriteIndex(p) ==
    /\ pc[p] = "write_index"
    /\ index' = Aimed(p)
    /\ Goto(p, "write_data")
    /\ UNCHANGED <<editVars, i, mass_buf, landed>>

\* WriteCmosByteValue, second outb, and the end of the key's handling
WriteData(p) ==
    /\ pc[p] = "write_data"
    /\ landed' = [landed EXCEPT ![p] = [aimed |-> Aimed(p), went |-> index]]
    /\ ForgetInput(p) /\ StartPaint(p)
    /\ UNCHANGED <<index, x, y, mass_buf>>

CommitValue(p) ==
    /\ input[p]
    /\ Goto(p, "write_index")
    /\ UNCHANGED <<index, editVars, i, mass_buf, landed>>

EditKey(p, k) ==
    IF input[p]
    THEN /\ input' = [input EXCEPT ![p] = k = KEY_BACKSPACE \/ IsXDigit(k)]
         /\ wbuf' = [wbuf EXCEPT ![p] = CASE k = KEY_BACKSPACE -> DropDigit(@)
                                          [] IsXDigit(k) -> ShiftIn(@, DigitOf(k), ByteValues)
                                          [] OTHER -> 0]
         /\ UNCHANGED <<x, y>>
    ELSE /\ x' = [x EXCEPT ![p] = CASE k = KEY_LEFT -> CursorLeft(@, BYTE_MODE)
                                    [] k = KEY_RIGHT -> CursorRight(@, BYTE_MODE, LINE)
                                    [] OTHER -> @]
         /\ y' = [y EXCEPT ![p] = CASE k = KEY_UP /\ @ > 0 -> @ - 1
                                    [] k = KEY_DOWN /\ @ < LINE - 1 -> @ + 1
                                    [] OTHER -> @]
         /\ input' = [input EXCEPT ![p] = IsXDigit(k)]
         /\ wbuf' = [wbuf EXCEPT ![p] = IF IsXDigit(k) THEN DigitOf(k) ELSE @]

CmosKey(p, k) ==
    /\ pc[p] = "key"
    /\ \/ k = KEY_ENTER /\ CommitValue(p)
       \/ /\ k # KEY_ENTER \/ ~input[p]
          /\ EditKey(p, k) /\ StartPaint(p)
          /\ UNCHANGED <<index, mass_buf, landed>>

Done == (\A p \in Procs : pc[p] = "gone") /\ UNCHANGED vars

Next ==
    \/ \E p \in Procs :
          \/ CmosInit(p) \/ GetFocus(p) \/ LostFocus(p) \/ NoKey(p)
          \/ ReadIndex(p) \/ ReadData(p) \/ WriteIndex(p) \/ WriteData(p)
          \/ \E k \in WindowKeys : CmosKey(p, k)
    \/ Done

Spec == Init /\ [][Next]_vars

-----------------------------------------------------------------------------
\* Every variable holds a value of its type; a cell is always one of the grid.
CmosTypeOK ==
    /\ index \in 0 .. RANGE_BYTES - 1
    /\ \A p \in Procs :
          /\ x[p] \in 0 .. LINE - 1 /\ y[p] \in 0 .. LINE - 1
          /\ input[p] \in BOOLEAN /\ wbuf[p] \in 0 .. ByteValues - 1
          /\ i[p] \in 0 .. RANGE_BYTES

\* When a process takes a key, each byte on its screen was read through the
\* index of the cell it stands in.
ShowsOwnCells ==
    \A p \in Procs : pc[p] = "key" =>
        \A c \in 0 .. RANGE_BYTES - 1 : mass_buf[p][c] = c

\* A byte is stored at the index that was sent for it.
LandsAtIndex ==
    \A p \in Procs : landed[p].went = landed[p].aimed

\* README: Enter writes the content, which is that of the cell at the cursor,
\* whose address CreateOffsetText shows as y * 16 + x.
LandsInCell ==
    \A p \in Procs : landed[p] # NoWrite => landed[p].went = y[p] * LINE + x[p]

=============================================================================
