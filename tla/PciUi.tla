-------------------------------- MODULE PciUi --------------------------------
(***************************************************************************)
(* The seven windows lfdk registers, composed with their manager: the PCI  *)
(* scan, the device list and the configuration space editor                *)
(* (lfdk/lib_pci_scan.c, lib_pci_list.c, lib_pci_dev.c) in full, the       *)
(* others as the windows a short key calls, since their callbacks post     *)
(* nothing.  A step is a step of WinManager with what the callbacks it     *)
(* makes do; only the IO-SPACE callback makes an ioctl that can fail.      *)
(***************************************************************************)
EXTENDS WinManager, HexEditor

CONSTANTS
    Machines,   \* device tables a scan can find; TRUE marks a PCIe device
    RECORDS_PER_PAGE,
    LINE,       \* LFDK_BYTE_PER_LINE
    MAP_SIZE,   \* LFDD_MASSBUF_SIZE, what one screen shows
    EXT_SIZE    \* 0x1000

VARIABLES
    machine,                    \* the devices that are there, in scan order
    scanned,                    \* a scan has filled lfdd_pci_list
    pci_list_len, curr_index,   \* the list and its cursor
    x, y, buff_page,            \* cursor and page of PCI-DEV
    input, wbuf, display_mode,  \* its editor
    request,                    \* the last ioctl PCI-DEV made
    wanted                      \* the window the user called in this pass

devVars == <<x, y, buff_page, input, wbuf, display_mode>>
listVars == <<scanned, pci_list_len, curr_index>>
vars == <<wmVars, machine, listVars, devVars, request, wanted>>

\* Handles, in link order
PCI_DEV == 0
PCI_SCAN == 1
PCI_LIST == 2
BASEBOARD == 3
IO_SPACE == 4
CMOS_SPACE == 5
MEM_SPACE == 6

\* i, o, m and p; PCI-DEV, PCI-SCAN and the baseboard have none
UiShortKey == <<112, 0, 105, 111, 109>>
short_key == [w \in Wins |-> IF w < PCI_LIST THEN 0 ELSE UiShortKey[w - 1]]

ASSUME UiAssumption ==
    /\ NumWin = 7 /\ ShortKey = short_key
    /\ MSG_SIZE >= 2 /\ RECORDS_PER_PAGE \in Nat
    /\ LINE \in Nat \ {0} /\ LINE % 4 = 0
    /\ MAP_SIZE \in Nat \ {0} /\ MAP_SIZE % LINE = 0
    /\ EXT_SIZE \in Nat \ {0} /\ EXT_SIZE % MAP_SIZE = 0
    /\ \A m \in Machines : m \in Seq(BOOLEAN)
    /\ \A k \in Keys : IsXDigit(k) => DigitOf(k) < RADIX

\* lfdd_pci_list[curr_index].phy_base, of a record of the array
phy_base == IF scanned /\ curr_index \in 0 .. pci_list_len - 1 /\ machine[curr_index + 1]
            THEN "ecam" ELSE "none"

\* What a read of it may return: the memory before the array holds anything.
PhyBases == IF curr_index >= 0 THEN {phy_base} ELSE {"none", "ecam", "low"}

NoRequest == [op |-> "no request"]

UiInit ==
    /\ Init
    /\ machine \in Machines
    /\ scanned = FALSE /\ pci_list_len = 0 /\ curr_index = 0
    /\ x = 0 /\ y = 0 /\ buff_page = 0
    /\ input = FALSE /\ wbuf = 0 /\ display_mode = BYTE_MODE
    /\ request = NoRequest
    /\ wanted = NoWin

UiStartup ==
    /\ Startup
    /\ UNCHANGED <<machine, listVars, devVars, request, wanted>>

\* cmos_init is the one init that can fail; no init posts a message.
UiInitModules ==
    /\ UNCHANGED msg_box
    /\ InitModules
    /\ UNCHANGED <<machine, listVars, devVars, request, wanted>>

\* Slip: the scan does not ask for the focus.
UiStartWindows_NoScan ==
    /\ UNCHANGED msg_box
    /\ StartWindows
    /\ UNCHANGED <<machine, listVars, devVars, request, wanted>>

\* pci_scan_start_win
UiStartWindows ==
    /\ msg_box' = Request(msg_box, NeedFocus(PCI_SCAN))
    /\ StartWindows
    /\ UNCHANGED <<machine, listVars, devVars, request, wanted>>

UiPostStartWindows ==
    /\ UNCHANGED msg_box
    /\ PostStartWindows
    /\ UNCHANGED <<machine, listVars, devVars, request, wanted>>

-----------------------------------------------------------------------------
\* pci_list_key_press

\* Slip: the cursor may stand one past the last record.
UpTo_PastEnd(n) == IF n > pci_list_len THEN pci_list_len ELSE n

UpTo(n) == IF n >= pci_list_len THEN pci_list_len - 1 ELSE n
DownTo(n) == IF n < 0 THEN 0 ELSE n

ListKey(k) ==
    /\ curr_index' = CASE k = KEY_UP    -> DownTo(curr_index - 1)
                       [] k = KEY_DOWN  -> UpTo(curr_index + 1)
                       [] k = KEY_NPAGE -> UpTo(curr_index + RECORDS_PER_PAGE)
                       [] k = KEY_PPAGE -> DownTo(curr_index - RECORDS_PER_PAGE)
                       [] OTHER         -> curr_index
    /\ msg_box' = IF k = KEY_ENTER
                  THEN Request(msg_box, [msg |-> "MSG_XFER_CONTROL",
                                         sender |-> PCI_LIST, target |-> PCI_DEV])
                  ELSE msg_box
    /\ UNCHANGED <<scanned, pci_list_len, devVars, request>>

-----------------------------------------------------------------------------
\* pci_dev_key_press

DevRequest(op, width, reg, base) ==
    [op |-> op, width |-> width, dev |-> curr_index, reg |-> reg, phy_base |-> base]

\* WritePCIValue
CommitValue(k) ==
    /\ input /\ k = KEY_ENTER
    /\ \E base \in PhyBases :
          request' = DevRequest("write", CellSize(display_mode), buff_page + y * LINE + x, base)
    /\ input' = FALSE /\ wbuf' = 0
    /\ UNCHANGED <<listVars, x, y, buff_page, display_mode>>

EditValue(k) ==
    /\ input /\ k # KEY_ENTER
    /\ wbuf' = CASE k = KEY_BACKSPACE -> DropDigit(wbuf)
                 [] IsXDigit(k) -> ShiftIn(wbuf, DigitOf(k), CellValues(display_mode))
                 [] OTHER -> 0
    /\ input' = (k = KEY_BACKSPACE \/ IsXDigit(k))
    /\ UNCHANGED <<listVars, x, y, buff_page, display_mode, request>>

BeginValue(k) ==
    /\ ~input /\ IsXDigit(k)
    /\ input' = TRUE /\ wbuf' = DigitOf(k)
    /\ UNCHANGED <<listVars, x, y, buff_page, display_mode, request>>

MoveRow(k) ==
    /\ ~input
    /\ \/ k = KEY_UP /\ y > 0 /\ y' = y - 1 /\ UNCHANGED buff_page
       \/ /\ k = KEY_UP /\ y = 0 /\ UNCHANGED y
          /\ \E base \in PhyBases :
                buff_page' = IF base # "none" /\ buff_page >= MAP_SIZE
                             THEN buff_page - MAP_SIZE ELSE buff_page
       \/ k = KEY_DOWN /\ y < (MAP_SIZE \div LINE) - 1 /\ y' = y + 1 /\ UNCHANGED buff_page
       \/ /\ k = KEY_DOWN /\ y = (MAP_SIZE \div LINE) - 1 /\ UNCHANGED y
          /\ \E base \in PhyBases :
                buff_page' = IF base # "none" /\ buff_page + MAP_SIZE < EXT_SIZE
                             THEN buff_page + MAP_SIZE ELSE buff_page
    /\ UNCHANGED <<listVars, x, input, wbuf, display_mode, request>>

MoveColumn(k) ==
    /\ ~input
    /\ \/ k = KEY_LEFT /\ x' = CursorLeft(x, display_mode)
       \/ k = KEY_RIGHT /\ x' = CursorRight(x, display_mode, LINE)
    /\ UNCHANGED <<listVars, y, buff_page, input, wbuf, display_mode, request>>

MoveDevice(k) ==
    /\ ~input
    /\ \/ k = KEY_NPAGE /\ curr_index < pci_list_len - 1 /\ curr_index' = curr_index + 1
       \/ k = KEY_PPAGE /\ curr_index > 0 /\ curr_index' = curr_index - 1
    /\ buff_page' = 0
    /\ UNCHANGED <<scanned, pci_list_len, x, y, input, wbuf, display_mode, request>>

ChangeMode(k) ==
    /\ ~input /\ k = KEY_F7
    /\ display_mode' = (display_mode + 1) % 3
    /\ x' = AlignColumn(x, display_mode')
    /\ UNCHANGED <<listVars, y, buff_page, input, wbuf, request>>

\* Every other key of the display mode, and a page key at the list's end.
NoMove(k) ==
    /\ ~input /\ ~IsXDigit(k)
    /\ k \notin {KEY_UP, KEY_DOWN, KEY_LEFT, KEY_RIGHT, KEY_F7}
    /\ k = KEY_NPAGE => curr_index >= pci_list_len - 1
    /\ k = KEY_PPAGE => curr_index <= 0
    /\ UNCHANGED <<listVars, devVars, request>>

DevKey(k) ==
    /\ \/ CommitValue(k) \/ EditValue(k) \/ BeginValue(k) \/ MoveRow(k)
       \/ MoveColumn(k) \/ MoveDevice(k) \/ ChangeMode(k) \/ NoMove(k)
    /\ UNCHANGED msg_box

-----------------------------------------------------------------------------
UiShortKeyPress(k) ==
    /\ ShortKeyPress(k)
    /\ \E w \in FirstOf(Called(k)) : wanted' = w
    /\ UNCHANGED <<machine, listVars, devVars, request>>

\* The windows this module does not detail keep their keys to themselves.
UiWindowKeyPress(k) ==
    /\ \/ cur_fore_window_handle = PCI_LIST /\ ListKey(k)
       \/ cur_fore_window_handle = PCI_DEV /\ DevKey(k)
       \/ /\ cur_fore_window_handle \notin {PCI_LIST, PCI_DEV}
          /\ UNCHANGED <<msg_box, listVars, devVars, request>>
    /\ WindowKeyPress(k)
    /\ UNCHANGED <<machine, wanted>>

\* WriteIOValue in WORD mode: lfdd_ioctl does not know the command, and the
\* macro LFDD_IOCTL exits.
UiIoExits(k) ==
    /\ pc = "key" /\ k = KEY_ENTER /\ cur_fore_window_handle = IO_SPACE
    /\ CallbackExits
    /\ UNCHANGED <<machine, listVars, devVars, request, wanted>>

UiIgnoredKey(k) ==
    /\ IgnoredKey(k)
    /\ UNCHANGED <<machine, listVars, devVars, request, wanted>>

UiQuit(k) ==
    /\ Quit(k)
    /\ UNCHANGED <<machine, listVars, devVars, request, wanted>>

\* Slip: only the cursor is forgotten.
LostFocus_CursorOnly(w) ==
    IF w = PCI_DEV
    THEN x' = 0 /\ y' = 0 /\ UNCHANGED <<buff_page, input, wbuf, display_mode>>
    ELSE UNCHANGED devVars

\* lost_focus of w: PCI-DEV forgets its cursor, its page and its editor.
LostFocus(w) ==
    IF w = PCI_DEV
    THEN /\ x' = 0 /\ y' = 0 /\ buff_page' = 0 /\ input' = FALSE /\ wbuf' = 0
         /\ UNCHANGED display_mode
    ELSE UNCHANGED devVars

\* The callbacks of GiveFocus: none of them posts.
FocusCallbacks ==
    /\ msg_box' = Front(msg_box)
    /\ LostFocus(Current)
    /\ UNCHANGED <<machine, listVars, request, wanted>>

UiHandleNeedFocus ==
    /\ Receiving("MSG_NEED_FOCUS")
    /\ FocusCallbacks
    /\ HandleNeedFocus

UiHandleXferControl ==
    /\ Receiving("MSG_XFER_CONTROL")
    /\ FocusCallbacks
    /\ HandleXferControl

UiDropMessage ==
    /\ DropNeedFocus \/ DropXferControl
    /\ UNCHANGED <<machine, listVars, devVars, request, wanted>>

UiMessagesDone ==
    /\ MessagesDone
    /\ UNCHANGED <<machine, listVars, devVars, request, wanted>>

-----------------------------------------------------------------------------
\* The paint callbacks, of which only the foreground window's does anything.

\* Slip: the scan keeps the control.
PaintScan_KeepsControl ==
    /\ cur_fore_window_handle = PCI_SCAN
    /\ scanned' = TRUE
    /\ pci_list_len' = Len(machine)
    /\ UNCHANGED <<curr_index, msg_box, request>>

\* pci_scan_paint: ScanPCIDevice, then the control goes to the list.
PaintScan ==
    /\ cur_fore_window_handle = PCI_SCAN
    /\ scanned' = TRUE
    /\ pci_list_len' = Len(machine)
    /\ msg_box' = Request(msg_box, [msg |-> "MSG_XFER_CONTROL",
                                    sender |-> PCI_SCAN, target |-> PCI_LIST])
    /\ UNCHANGED <<curr_index, request>>

\* Slip: the screen is only read again for another page.
PaintDev_Cached ==
    /\ cur_fore_window_handle = PCI_DEV
    /\ \E base \in PhyBases :
          request' = IF request # NoRequest /\ request.op = "mass" /\ request.reg = buff_page
                     THEN request ELSE DevRequest("mass", 4, buff_page, base)
    /\ UNCHANGED <<msg_box, listVars>>

\* PrintPCIScreen reads one screen from the device.
PaintDev ==
    /\ cur_fore_window_handle = PCI_DEV
    /\ \E base \in PhyBases : request' = DevRequest("mass", 4, buff_page, base)
    /\ UNCHANGED <<msg_box, listVars>>

PaintOther ==
    /\ cur_fore_window_handle \notin {PCI_SCAN, PCI_DEV}
    /\ UNCHANGED <<msg_box, listVars, request>>

UiPaintWindows ==
    /\ PaintScan \/ PaintDev \/ PaintOther
    /\ PaintWindows
    /\ wanted' = NoWin
    /\ UNCHANGED <<machine, devVars>>

UiGone == pc = "gone" /\ UNCHANGED vars

UiKeyEvent(k) ==
    \/ UiShortKeyPress(k) \/ UiWindowKeyPress(k) \/ UiIoExits(k)
    \/ UiIgnoredKey(k) \/ UiQuit(k)

UiNext ==
    \/ UiStartup \/ UiInitModules \/ UiStartWindows \/ UiPostStartWindows
    \/ \E k \in Keys : UiKeyEvent(k)
    \/ UiHandleNeedFocus \/ UiHandleXferControl \/ UiDropMessage
    \/ UiMessagesDone \/ UiPaintWindows \/ UiGone

UiSpec == UiInit /\ [][UiNext]_vars

\* The main loop never blocks: getch returns at once with or without a key.
UiFairSpec == UiSpec /\ WF_vars(UiNext)

-----------------------------------------------------------------------------
\* Every variable of the windows holds a value of its type.
UiTypeOK ==
    /\ TypeOK
    /\ scanned \in BOOLEAN /\ pci_list_len \in Nat /\ curr_index \in Int
    /\ x \in 0 .. LINE - 1 /\ y \in 0 .. (MAP_SIZE \div LINE) - 1
    /\ buff_page \in Nat /\ input \in BOOLEAN /\ display_mode \in 0 .. 2
    /\ wbuf \in 0 .. CellValues(display_mode) - 1
    /\ wanted \in Wins \cup {NoWin}

\* The list and the editor take keys only after a scan has filled the list,
\* even if the user calls another window before the first scan: the last in,
\* first out message box serves the scan's own request last.
ScannedBeforeUse ==
    pc = "paint" /\ cur_fore_window_handle \in {PCI_LIST, PCI_DEV} => scanned

\* The cursor the list and the editor share stays on a device of the list.  An
\* empty list (-b 0, lfdk.c:500-505) has none: there the cursor is at 0, or at
\* -1 after a key down (lib_pci_list.c:157-158), and goes no further.
CursorOnDevice ==
    scanned => curr_index \in IF pci_list_len = 0 THEN -1 .. 0 ELSE 0 .. pci_list_len - 1

\* A short key wins over the scan's pending transfer of control: the window
\* the user called in this pass is the one that is painted at its end.
ShortKeyWins == pc = "paint" /\ scanned /\ wanted # NoWin => cur_fore_window_handle = wanted

\* A scan is not repeated unless the user calls it: the transfer of control that
\* it posts while it is painted takes effect before the next paint, unless
\* another window was called in between (pci_scan_paint, lib_pci_scan.c).
ScanOnlyOnCall == pc = "paint" /\ scanned /\ wanted = NoWin => cur_fore_window_handle # PCI_SCAN

PC == INSTANCE PciCalls WITH
          Procs <- {1}, MmioProcs <- {1}, Devs <- 0 .. 31, Bytes <- {0}, Zero <- 0,
          Ones <- 0, BootCfg <- {}, Calls <- {}, KernelIdx <- [dev |-> 0, reg |-> 0]

\* Every request PCI-DEV makes is one the driver carries out as it stands:
\* aligned to its width, inside the registers the device has on that path, and
\* a double word write is never one the driver silently drops
\* (lib_pci_dev.c:135-250 against libpci_x86.c:374-388).  The cursor must not be
\* before the list, where the path of each request is read anew from anything.
RequestsWellFormed ==
    request # NoRequest /\ request.dev >= 0 =>
        /\ PC!WellFormed(request) /\ ~PC!Rejected(request)
        /\ request.reg + request.width <= EXT_SIZE

\* A value is written to what the user sees: Enter's request goes to the device
\* and by the path that the last one was read from (if the cursor is not before
\* the list), and to a register on that page, whatever keys and changes of window
\* came before it.
WriteHitsShown ==
    [][request' # request /\ request'.op = "write"
          => /\ request.op = "mass"
             /\ request'.dev = request.dev
             /\ request'.dev >= 0 => request'.phy_base = request.phy_base
             /\ request'.reg >= request.reg
             /\ request'.reg + request'.width <= request.reg + MAP_SIZE]_vars

\* A value half typed never survives a change of window or of device, nor does
\* a page of one device show up on the next.
EditorForgets ==
    [][cur_fore_window_handle' # cur_fore_window_handle \/ curr_index' # curr_index
          => ~input' /\ wbuf' = 0 /\ buff_page' = 0]_vars

\* At most one request per kind of poster is pending, so the message box of 32
\* never refuses one.
BoxNeverFull == Len(msg_box) <= 2

\* A scan gives way: the list, or the window the user called, gets the focus.
ScanGivesWay ==
    cur_fore_window_handle = PCI_SCAN ~> (cur_fore_window_handle # PCI_SCAN \/ pc = "gone")

=============================================================================
