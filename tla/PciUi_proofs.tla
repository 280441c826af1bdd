----------------------------- MODULE PciUi_proofs -----------------------------
(***************************************************************************)
(* Proofs about the windows of lfdk, for any devices, any keys, any sizes  *)
(* of a line, a screen and the configuration space, and any message box    *)
(* that has room for two messages.                                         *)
(***************************************************************************)
EXTENDS PciUi, WinManager_proofs, Blocks_proofs

\* The messages the shipped windows post.
HandTo(s, t) == [msg |-> "MSG_XFER_CONTROL", sender |-> s, target |-> t]

Scan == NeedFocus(PCI_SCAN)
ToList == HandTo(PCI_SCAN, PCI_LIST)
ToDev == HandTo(PCI_LIST, PCI_DEV)

StartStages == {"options", "open", "debug", "init", "start"}

\* Before the first scan: its request for the focus is the oldest message, and
\* the last one handled.
FirstPass ==
    \/ pc \in StartStages /\ msg_box = <<>> /\ wanted = NoWin
    \/ /\ pc \in {"post_start", "key"} /\ msg_box = <<Scan>> /\ wanted = NoWin
       /\ cur_fore_window_handle = NoWin
    \/ /\ pc = "msg" /\ wanted \in Wins
       /\ msg_box = <<Scan, NeedFocus(wanted)>>
       /\ cur_fore_window_handle = NoWin
    \/ /\ pc = "msg" /\ msg_box = <<Scan>>
       /\ cur_fore_window_handle \in {NoWin, wanted}
    \/ pc \in {"msg", "paint"} /\ msg_box = <<>> /\ cur_fore_window_handle = PCI_SCAN
    \/ pc = "gone"

\* The scan is done and holds the focus, with its transfer pending.
ScanDone ==
    /\ cur_fore_window_handle = PCI_SCAN
    /\ \/ pc \in {"key", "msg"} /\ msg_box = <<ToList>> /\ wanted = NoWin
       \/ /\ pc = "msg" /\ wanted \in Wins \ {PCI_SCAN}
          /\ msg_box = <<ToList, NeedFocus(wanted)>>

\* Some other window has it, or the scan is called again.
InUse ==
    /\ cur_fore_window_handle # NoWin
    /\ \/ /\ pc = "key" /\ msg_box = <<>> /\ wanted = NoWin
          /\ cur_fore_window_handle # PCI_SCAN
       \/ /\ pc = "msg" /\ msg_box = <<NeedFocus(wanted)>>
          /\ wanted \in Wins \ {cur_fore_window_handle}
       \/ /\ pc = "msg" /\ msg_box = <<ToList>>
          /\ wanted = cur_fore_window_handle /\ wanted # PCI_SCAN
       \/ /\ pc = "msg" /\ msg_box = <<ToDev>> /\ wanted = NoWin
          /\ cur_fore_window_handle = PCI_LIST
       \/ /\ pc \in {"msg", "paint"} /\ msg_box = <<>>
          /\ wanted \in {NoWin, cur_fore_window_handle}
          /\ wanted = NoWin => cur_fore_window_handle # PCI_SCAN

\* What the message box can hold at each handler of the main loop.
BoxInv ==
    /\ wanted \in Wins \cup {NoWin}
    /\ cur_fore_window_handle = NoWin => p_cur_wnd = NoWin
    /\ Len(msg_box) <= 2
    /\ ~scanned => FirstPass
    /\ scanned => ScanDone \/ InUse \/ pc = "gone"

\* The list is what the scan found.
ListInv ==
    /\ machine \in Machines
    /\ scanned \in BOOLEAN
    /\ pci_list_len = IF scanned THEN Len(machine) ELSE 0
    /\ curr_index \in Int
    /\ ~scanned => curr_index = 0
    /\ CursorOnDevice

\* The editor stands on a cell of the screen, on a page the device has, and is
\* blank while its window does not have the focus.
EditorInv ==
    /\ display_mode \in {BYTE_MODE, WORD_MODE, DWORD_MODE}
    /\ x \in 0 .. LINE - 1 /\ x % CellSize(display_mode) = 0
    /\ y \in 0 .. (MAP_SIZE \div LINE) - 1
    /\ buff_page \in Nat /\ buff_page % MAP_SIZE = 0 /\ buff_page + MAP_SIZE <= EXT_SIZE
    /\ curr_index >= 0 /\ phy_base = "none" => buff_page = 0
    /\ input \in BOOLEAN /\ wbuf \in 0 .. CellValues(display_mode) - 1
    /\ ~input => wbuf = 0
    /\ cur_fore_window_handle # PCI_DEV =>
          x = 0 /\ y = 0 /\ buff_page = 0 /\ ~input

\* What the user sees when the editor takes a key is what it read last.
ShownInv ==
    pc = "key" /\ cur_fore_window_handle = PCI_DEV
        => \E base \in PhyBases : request = DevRequest("mass", 4, buff_page, base)

RequestInv ==
    request = NoRequest \/ \E op \in {"write", "mass"}, width \in {1, 2, 4}, dev \in Int,
        reg \in Nat, base \in {"none", "ecam", "low"} :
        /\ request = [op |-> op, width |-> width, dev |-> dev, reg |-> reg, phy_base |-> base]
        /\ op = "mass" => width = 4 /\ reg % MAP_SIZE = 0
        /\ reg % width = 0
        /\ dev >= 0 => base # "low" /\ (base = "none" => reg + width <= MAP_SIZE)
        /\ reg + width <= EXT_SIZE

UiInv == BoxInv /\ ListInv /\ EditorInv /\ ShownInv /\ RequestInv
-----------------------------------------------------------------------------
\* The windows' handles are the manager's.
LEMMA Handles ==
    /\ Wins = {PCI_DEV, PCI_SCAN, PCI_LIST, BASEBOARD, IO_SPACE, CMOS_SPACE, MEM_SPACE}
    /\ NoWin \notin Wins
  BY UiAssumption DEF Wins, NoWin, PCI_DEV, PCI_SCAN, PCI_LIST, BASEBOARD, IO_SPACE,
                      CMOS_SPACE, MEM_SPACE

\* Every step of the windows is one of the manager.
LEMMA IsManagerStep == [UiNext]_vars => [Next]_wmVars
<1> SUFFICES ASSUME [UiNext]_vars PROVE [Next]_wmVars
  OBVIOUS
<1>1. CASE UiStartup \/ UiInitModules \/ UiStartWindows \/ UiPostStartWindows
  BY <1>1 DEF UiStartup, UiInitModules, UiStartWindows, UiPostStartWindows, Next
<1>2. ASSUME NEW k \in Keys, UiKeyEvent(k) PROVE Next
  BY <1>2 DEF UiKeyEvent, UiShortKeyPress, UiWindowKeyPress, UiIoExits, UiIgnoredKey, UiQuit,
              Next, KeyEvent
<1>3. CASE UiHandleNeedFocus \/ UiHandleXferControl \/ UiDropMessage
  BY <1>3 DEF UiHandleNeedFocus, UiHandleXferControl, UiDropMessage, Next, HandleMessage
<1>4. CASE UiMessagesDone \/ UiPaintWindows
  BY <1>4 DEF UiMessagesDone, UiPaintWindows, Next
<1>5. CASE UiGone \/ UNCHANGED vars
  BY <1>5 DEF UiGone, vars, wmVars
<1> QED BY <1>1, <1>2, <1>3, <1>4, <1>5 DEF UiNext

\* A box of at most two messages, and the newest of them.
LEMMA BoxOfTwo ==
    ASSUME NEW a, NEW b
    PROVE  /\ Len(<<>>) = 0 /\ Len(<<a>>) = 1 /\ Len(<<a, b>>) = 2
           /\ Last(<<a>>) = a /\ Front(<<a>>) = <<>>
           /\ Last(<<a, b>>) = b /\ Front(<<a, b>>) = <<a>>
           /\ Request(<<>>, a) = <<a>> /\ Request(<<a>>, b) = <<a, b>>
           /\ <<a>> # <<>> /\ <<a, b>> # <<>>
<1>1. MSG_SIZE \in Nat /\ MSG_SIZE >= 2 BY ManagerAssumption, UiAssumption
<1>2. Len(<<>>) = 0 /\ Len(<<a>>) = 1 /\ Len(<<a, b>>) = 2 OBVIOUS
<1>0. <<>> \in Seq({a, b}) /\ <<a>> \in Seq({a, b}) /\ <<a, b>> \in Seq({a, b})
  OBVIOUS
<1>3. Append(<<>>, a) = <<a>> /\ Append(<<a>>, b) = <<a, b>>
  <2>1. Append(<<>>, a) \in Seq({a, b}) /\ Append(<<a>>, b) \in Seq({a, b}) BY <1>0
  <2>2. Len(Append(<<>>, a)) = 1 /\ Append(<<>>, a)[1] = a BY <1>0, <1>2
  <2>3. /\ Len(Append(<<a>>, b)) = 2
        /\ Append(<<a>>, b)[1] = a /\ Append(<<a>>, b)[2] = b
    BY <1>0, <1>2
  <2>4. \A i \in 1 .. 1 : Append(<<>>, a)[i] = <<a>>[i] BY <2>2
  <2>5. \A i \in 1 .. 2 : Append(<<a>>, b)[i] = <<a, b>>[i] BY <2>3
  <2>6. Append(<<>>, a) = <<a>> BY <1>0, <1>2, <2>1, <2>2, <2>4, SeqEqual
  <2>7. Append(<<a>>, b) = <<a, b>> BY <1>0, <1>2, <2>1, <2>3, <2>5, SeqEqual
  <2> QED BY <2>6, <2>7
<1>4. SubSeq(<<a>>, 1, 0) = <<>> OBVIOUS
<1>5. SubSeq(<<a, b>>, 1, 1) = <<a>>
  <2> DEFINE s == SubSeq(<<a, b>>, 1, 1)
  <2>1. \A i \in 1 .. 1 : <<a, b>>[i] \in {a, b} OBVIOUS
  <2>2. /\ s \in Seq({a, b}) /\ Len(s) = 1
        /\ \A i \in 1 .. 1 : s[i] = <<a, b>>[i]
    BY <2>1, SubSeqProperties
  <2>3. \A i \in 1 .. 1 : s[i] = <<a>>[i] BY <2>2
  <2> QED BY <1>0, <1>2, <2>2, <2>3, SeqEqual
<1>6. Last(<<a>>) = a /\ Last(<<a, b>>) = b BY <1>2 DEF Last
<1>7. Front(<<a>>) = <<>> /\ Front(<<a, b>>) = <<a>> BY <1>2, <1>4, <1>5 DEF Front
<1>8. Request(<<>>, a) = <<a>> /\ Request(<<a>>, b) = <<a, b>> BY <1>1, <1>2, <1>3 DEF Request
<1>9. <<a>> # <<>> /\ <<a, b>> # <<>> OBVIOUS
<1> QED BY <1>2, <1>6, <1>7, <1>8, <1>9

\* What the messages say.
LEMMA Messages ==
    ASSUME NEW w, NEW t
    PROVE  /\ NeedFocus(w).msg = "MSG_NEED_FOCUS" /\ NeedFocus(w).sender = w
           /\ HandTo(w, t).msg = "MSG_XFER_CONTROL"
           /\ HandTo(w, t).sender = w /\ HandTo(w, t).target = t
           /\ "MSG_NEED_FOCUS" # "MSG_XFER_CONTROL"
  BY DEF NeedFocus, HandTo

\* What the newest message of each box is, and what is left when it is handled.
LEMMA Newest ==
    ASSUME NEW w
    PROVE  /\ Last(<<Scan>>).msg = "MSG_NEED_FOCUS" /\ Last(<<Scan>>).sender = PCI_SCAN
           /\ Front(<<Scan>>) = <<>>
           /\ Last(<<ToList>>).msg = "MSG_XFER_CONTROL"
           /\ Last(<<ToList>>).sender = PCI_SCAN /\ Last(<<ToList>>).target = PCI_LIST
           /\ Front(<<ToList>>) = <<>>
           /\ Last(<<ToDev>>).msg = "MSG_XFER_CONTROL"
           /\ Last(<<ToDev>>).sender = PCI_LIST /\ Last(<<ToDev>>).target = PCI_DEV
           /\ Front(<<ToDev>>) = <<>>
           /\ Last(<<NeedFocus(w)>>).msg = "MSG_NEED_FOCUS"
           /\ Last(<<NeedFocus(w)>>).sender = w
           /\ Front(<<NeedFocus(w)>>) = <<>>
           /\ Last(<<Scan, NeedFocus(w)>>).msg = "MSG_NEED_FOCUS"
           /\ Last(<<Scan, NeedFocus(w)>>).sender = w
           /\ Front(<<Scan, NeedFocus(w)>>) = <<Scan>>
           /\ Last(<<ToList, NeedFocus(w)>>).msg = "MSG_NEED_FOCUS"
           /\ Last(<<ToList, NeedFocus(w)>>).sender = w
           /\ Front(<<ToList, NeedFocus(w)>>) = <<ToList>>
<1>1. Last(<<Scan>>) = Scan /\ Front(<<Scan>>) = <<>> BY BoxOfTwo
<1>2. Last(<<ToList>>) = ToList /\ Front(<<ToList>>) = <<>> BY BoxOfTwo
<1>3. Last(<<ToDev>>) = ToDev /\ Front(<<ToDev>>) = <<>> BY BoxOfTwo
<1>4. Last(<<NeedFocus(w)>>) = NeedFocus(w) /\ Front(<<NeedFocus(w)>>) = <<>> BY BoxOfTwo
<1>5. /\ Last(<<Scan, NeedFocus(w)>>) = NeedFocus(w)
      /\ Front(<<Scan, NeedFocus(w)>>) = <<Scan>>
  BY BoxOfTwo
<1>6. /\ Last(<<ToList, NeedFocus(w)>>) = NeedFocus(w)
      /\ Front(<<ToList, NeedFocus(w)>>) = <<ToList>>
  BY BoxOfTwo
<1>7. NeedFocus(w).msg = "MSG_NEED_FOCUS" /\ NeedFocus(w).sender = w BY Messages
<1>8. Scan.msg = "MSG_NEED_FOCUS" /\ Scan.sender = PCI_SCAN BY Messages DEF Scan
<1>9. ToList.msg = "MSG_XFER_CONTROL" /\ ToList.sender = PCI_SCAN /\ ToList.target = PCI_LIST
  BY Messages DEF ToList
<1>10. ToDev.msg = "MSG_XFER_CONTROL" /\ ToDev.sender = PCI_LIST /\ ToDev.target = PCI_DEV
  BY Messages DEF ToDev
<1> QED BY <1>1, <1>2, <1>3, <1>4, <1>5, <1>6, <1>7, <1>8, <1>9, <1>10

LEMMA BoxInit == UiInit => BoxInv
<1> SUFFICES ASSUME UiInit PROVE BoxInv
  OBVIOUS
<1>1. Len(<<>>) = 0 BY BoxOfTwo
<1> QED BY <1>1 DEF UiInit, Init, BoxInv, FirstPass, StartStages

\* A window is given a key only after the first scan: until then none is in the
\* foreground when keys are read.
LEMMA KeyReaches ==
    ASSUME FocusInv, BoxInv, NEW k, UiWindowKeyPress(k)
    PROVE  /\ pc = "key" /\ pc' = "msg" /\ scanned /\ wanted = NoWin
           /\ UNCHANGED <<cur_fore_window_handle, p_cur_wnd, scanned, wanted>>
<1>1. pc = "key" /\ pc' = "msg" /\ UNCHANGED <<cur_fore_window_handle, p_cur_wnd, wanted>>
  BY DEF UiWindowKeyPress, WindowKeyPress
<1>2. UNCHANGED scanned
  BY DEF UiWindowKeyPress, listVars, ListKey, DevKey, CommitValue, EditValue, BeginValue,
         MoveRow, MoveColumn, MoveDevice, ChangeMode, NoMove
<1>3. cur_fore_window_handle \in Wins
  BY <1>1 DEF UiWindowKeyPress, WindowKeyPress, Foreground, FocusInv, ForegroundIsCurrent
<1> QED BY <1>1, <1>2, <1>3, Handles DEF BoxInv, FirstPass, StartStages, ScanDone, InUse

LEMMA BoxStep == FocusInv /\ BoxInv /\ [UiNext]_vars => BoxInv'
<1> SUFFICES ASSUME FocusInv, BoxInv, [UiNext]_vars PROVE BoxInv'
  OBVIOUS
<1>f. /\ pc \in StartStages \cup {"post_start"} => cur_fore_window_handle = NoWin
      /\ \A w \in Wins : pc # "gone" =>
            (win_state[w] = "WM_FOREGROUND" <=> w = cur_fore_window_handle)
      /\ cur_fore_window_handle \in Wins \cup {NoWin}
  BY DEF FocusInv, NoFocusBeforeLoop, ForegroundIsCurrent, StartStages, TypeOK
<1> USE DEF BoxInv
<1>1. CASE UiStartup \/ UiInitModules
  BY <1>1, BoxOfTwo DEF UiStartup, UiInitModules, Startup, ReadOptions, OpenDevice, InitDebug, InitModules, Leave,
     FirstPass, ScanDone, InUse, StartStages, listVars
<1>2. CASE UiStartWindows
  <2>1. /\ pc = "start" /\ pc' = "post_start"
        /\ UNCHANGED <<cur_fore_window_handle, p_cur_wnd, scanned, wanted>>
        /\ msg_box' = Request(msg_box, Scan)
    BY <1>2 DEF UiStartWindows, StartWindows, listVars, Scan
  <2>2. ~scanned /\ msg_box = <<>> /\ wanted = NoWin /\ cur_fore_window_handle = NoWin
    BY <2>1, <1>f DEF FirstPass, ScanDone, InUse, StartStages
  <2>3. msg_box' = <<Scan>> BY <2>1, <2>2, BoxOfTwo
  <2>4. Len(msg_box') = 1 BY <2>3, BoxOfTwo
  <2> QED BY <2>1, <2>2, <2>3, <2>4 DEF FirstPass
<1>3. CASE UiPostStartWindows
  BY <1>3, <1>f DEF UiPostStartWindows, PostStartWindows, FirstPass, ScanDone, InUse, StartStages, listVars
<1>4. ASSUME NEW k \in Keys, UiShortKeyPress(k) PROVE BoxInv'
  <2>1. PICK w \in Wins : /\ wanted' = w /\ w # cur_fore_window_handle
                          /\ msg_box' = Request(msg_box, NeedFocus(w))
    <3>1. \A v, w \in FirstOf(Called(k)) : v = w
      <4>1. \A v, w \in Wins : v \in Int /\ w \in Int BY ManagerAssumption DEF Wins
      <4>2. \A v, w \in Int : v <= w /\ w <= v => v = w OBVIOUS
      <4> QED BY <4>1, <4>2 DEF FirstOf, Called
    <3> QED BY <1>4, <1>f, <3>1 DEF UiShortKeyPress, ShortKeyPress, FirstOf, Called
  <2>2. /\ pc = "key" /\ pc' = "msg" /\ UNCHANGED <<cur_fore_window_handle, p_cur_wnd, scanned>>
    BY <1>4 DEF UiShortKeyPress, ShortKeyPress, listVars
  <2>3. CASE ~scanned
    <3>1. msg_box = <<Scan>> /\ cur_fore_window_handle = NoWin
      BY <2>2, <2>3 DEF FirstPass, StartStages
    <3>2. msg_box' = <<Scan, NeedFocus(w)>> BY <2>1, <3>1, BoxOfTwo
    <3>3. Len(msg_box') = 2 BY <3>2, BoxOfTwo
    <3>4. FirstPass' BY <2>1, <2>2, <3>1, <3>2 DEF FirstPass
    <3> QED BY <2>1, <2>2, <2>3, <3>3, <3>4
  <2>4. CASE scanned /\ cur_fore_window_handle = PCI_SCAN
    <3>1. msg_box = <<ToList>>
      BY <2>2, <2>4 DEF InUse, ScanDone
    <3>2. msg_box' = <<ToList, NeedFocus(w)>> BY <2>1, <3>1, BoxOfTwo
    <3>3. Len(msg_box') = 2 BY <3>2, BoxOfTwo
    <3> QED BY <2>1, <2>2, <2>4, <3>2, <3>3, Handles DEF ScanDone
  <2>5. CASE scanned /\ cur_fore_window_handle # PCI_SCAN
    <3>1. msg_box = <<>> /\ cur_fore_window_handle # NoWin
      BY <2>2, <2>5 DEF InUse, ScanDone
    <3>2. msg_box' = <<NeedFocus(w)>> BY <2>1, <3>1, BoxOfTwo
    <3>3. Len(msg_box') = 1 BY <3>2, BoxOfTwo
    <3>4. InUse' BY <2>1, <2>2, <3>1, <3>2 DEF InUse
    <3> QED BY <2>1, <2>2, <2>5, <3>3, <3>4
  <2> QED BY <2>3, <2>4, <2>5
<1>5. ASSUME NEW k \in Keys, UiWindowKeyPress(k) PROVE BoxInv'
  <2>2. /\ pc = "key" /\ pc' = "msg" /\ scanned /\ wanted = NoWin
        /\ UNCHANGED <<cur_fore_window_handle, p_cur_wnd, scanned, wanted>>
    BY <1>5, KeyReaches
  <2>3. \/ UNCHANGED msg_box
        \/ msg_box' = Request(msg_box, ToDev) /\ cur_fore_window_handle = PCI_LIST
    BY <1>5 DEF UiWindowKeyPress, ListKey, DevKey, ToDev, HandTo
  <2>5. PCI_LIST # PCI_SCAN BY DEF PCI_LIST, PCI_SCAN
  <2>6. CASE UNCHANGED msg_box
    BY <2>2, <2>6 DEF ScanDone, InUse
  <2>7. CASE msg_box' = Request(msg_box, ToDev) /\ cur_fore_window_handle = PCI_LIST
    <3>1. msg_box = <<>> /\ cur_fore_window_handle # NoWin
      BY <2>2, <2>5, <2>7 DEF ScanDone, InUse
    <3>2. msg_box' = <<ToDev>> BY <2>7, <3>1, BoxOfTwo
    <3>3. Len(msg_box') = 1 BY <3>2, BoxOfTwo
    <3> QED BY <2>2, <2>7, <3>1, <3>2, <3>3 DEF InUse
  <2> QED BY <2>3, <2>6, <2>7
<1>6. ASSUME NEW k \in Keys, UiIgnoredKey(k) PROVE BoxInv'
  BY <1>6 DEF UiIgnoredKey, IgnoredKey, FirstPass, StartStages, ScanDone, InUse, listVars
<1>7. ASSUME NEW k \in Keys, UiQuit(k) \/ UiIoExits(k) PROVE BoxInv'
  BY <1>7 DEF UiQuit, Quit, Leave, UiIoExits, CallbackExits, FirstPass, StartStages, ScanDone,
     InUse, listVars
<1>8. CASE UiHandleNeedFocus
  <2>1. /\ pc = "msg" /\ pc' = pc /\ UNCHANGED <<scanned, wanted>>
        /\ msg_box # <<>> /\ msg_box' = Front(msg_box)
        /\ Last(msg_box).msg = "MSG_NEED_FOCUS"
        /\ cur_fore_window_handle' = Last(msg_box).sender
    BY <1>8 DEF UiHandleNeedFocus, FocusCallbacks, HandleNeedFocus, Receiving, GiveFocus,
                listVars
  <2>2. CASE msg_box = <<Scan, NeedFocus(wanted)>> /\ wanted \in Wins /\ ~scanned
    <3>1. msg_box' = <<Scan>> /\ cur_fore_window_handle' = wanted
      BY <2>1, <2>2, Newest
    <3>2. Len(msg_box') = 1 BY <3>1, BoxOfTwo
    <3>3. FirstPass' BY <2>1, <2>2, <3>1 DEF FirstPass
    <3>4. cur_fore_window_handle' # NoWin BY <2>2, <3>1, Handles
    <3> QED BY <2>1, <2>2, <3>2, <3>3, <3>4
  <2>3. CASE msg_box = <<Scan>> /\ ~scanned
    <3>1. msg_box' = <<>> /\ cur_fore_window_handle' = PCI_SCAN
      BY <2>1, <2>3, Newest
    <3>2. Len(msg_box') = 0 BY <3>1, BoxOfTwo
    <3>3. FirstPass' BY <2>1, <3>1 DEF FirstPass
    <3>4. cur_fore_window_handle' # NoWin BY <3>1, Handles
    <3> QED BY <2>1, <2>3, <3>2, <3>3, <3>4
  <2>4. CASE /\ msg_box = <<ToList, NeedFocus(wanted)>> /\ scanned
             /\ wanted \in Wins \ {PCI_SCAN}
    <3>1. msg_box' = <<ToList>> /\ cur_fore_window_handle' = wanted
      BY <2>1, <2>4, Newest
    <3>2. Len(msg_box') = 1 BY <3>1, BoxOfTwo
    <3>3. cur_fore_window_handle' # NoWin BY <2>4, <3>1, Handles
    <3>4. InUse' BY <2>1, <2>4, <3>1, <3>3 DEF InUse
    <3> QED BY <2>1, <2>4, <3>2, <3>3, <3>4
  <2>5. CASE msg_box = <<NeedFocus(wanted)>> /\ scanned /\ wanted \in Wins
    <3>1. msg_box' = <<>> /\ cur_fore_window_handle' = wanted
      BY <2>1, <2>5, Newest
    <3>2. Len(msg_box') = 0 BY <3>1, BoxOfTwo
    <3> QED BY <2>1, <2>5, <3>1, <3>2, Handles DEF InUse
  <2>6. msg_box # <<ToList>> /\ msg_box # <<ToDev>>
    BY <2>1, Newest
  <2> QED BY <2>1, <2>2, <2>3, <2>4, <2>5, <2>6
          DEF FirstPass, ScanDone, InUse, StartStages
<1>9. CASE UiHandleXferControl
  <2>1. /\ pc = "msg" /\ pc' = pc /\ UNCHANGED <<scanned, wanted>>
        /\ msg_box # <<>> /\ msg_box' = Front(msg_box)
        /\ Last(msg_box).msg = "MSG_XFER_CONTROL"
        /\ cur_fore_window_handle' = Last(msg_box).target
        /\ ~XferRefused(Last(msg_box))
    BY <1>9 DEF UiHandleXferControl, FocusCallbacks, HandleXferControl, Receiving, GiveFocus,
                listVars
  <2>2. CASE msg_box = <<ToList>> /\ scanned /\ wanted = NoWin
    <3>1. msg_box' = <<>> /\ cur_fore_window_handle' = PCI_LIST
      BY <2>1, <2>2, Newest
    <3>2. Len(msg_box') = 0 BY <3>1, BoxOfTwo
    <3>3. PCI_LIST # PCI_SCAN BY DEF PCI_LIST, PCI_SCAN
    <3> QED BY <2>1, <2>2, <3>1, <3>2, <3>3, Handles DEF InUse
  <2>3. CASE msg_box = <<ToDev>> /\ scanned /\ wanted = NoWin
    <3>1. msg_box' = <<>> /\ cur_fore_window_handle' = PCI_DEV
      BY <2>1, <2>3, Newest
    <3>2. Len(msg_box') = 0 BY <3>1, BoxOfTwo
    <3>3. PCI_DEV # PCI_SCAN BY DEF PCI_DEV, PCI_SCAN
    <3> QED BY <2>1, <2>3, <3>1, <3>2, <3>3, Handles DEF InUse
  <2>4. CASE msg_box = <<ToList>> /\ cur_fore_window_handle \notin {PCI_SCAN, NoWin}
    <3>1. Last(msg_box).sender = PCI_SCAN
      BY <2>4, Newest
    <3> QED BY <2>1, <2>4, <3>1 DEF XferRefused, Current
  <2>5. /\ msg_box # <<Scan>> /\ msg_box # <<Scan, NeedFocus(wanted)>>
        /\ msg_box # <<NeedFocus(wanted)>> /\ msg_box # <<ToList, NeedFocus(wanted)>>
    BY <2>1, Newest
  <2> QED BY <2>1, <2>2, <2>3, <2>4, <2>5
          DEF FirstPass, ScanDone, InUse, StartStages
<1>10. CASE UiDropMessage
  <2>1. /\ pc = "msg" /\ pc' = pc /\ UNCHANGED <<scanned, wanted, cur_fore_window_handle>>
        /\ msg_box # <<>> /\ msg_box' = Front(msg_box)
        /\ cur_fore_window_handle = NoWin => p_cur_wnd' = NoWin
    BY <1>10 DEF UiDropMessage, DropNeedFocus, DropXferControl, Receiving, Current, listVars
  <2>2. \/ /\ Last(msg_box).msg = "MSG_NEED_FOCUS"
           /\ Last(msg_box).sender = cur_fore_window_handle
        \/ Last(msg_box).msg = "MSG_XFER_CONTROL" /\ XferRefused(Last(msg_box))
    BY <1>10 DEF UiDropMessage, DropNeedFocus, DropXferControl, Receiving
  <2>3. CASE msg_box = <<Scan>> /\ ~scanned
    <3>1. msg_box' = <<>> /\ cur_fore_window_handle = PCI_SCAN
      BY <2>1, <2>2, <2>3, Newest
    <3>2. Len(msg_box') = 0 BY <3>1, BoxOfTwo
    <3> QED BY <2>1, <2>3, <3>1, <3>2, Handles DEF FirstPass
  <2>4. CASE msg_box = <<ToList>> /\ scanned /\ wanted = cur_fore_window_handle /\ wanted # NoWin
    <3>1. msg_box' = <<>> BY <2>1, <2>4, BoxOfTwo
    <3>2. Len(msg_box') = 0 BY <3>1, BoxOfTwo
    <3> QED BY <2>1, <2>4, <3>1, <3>2 DEF InUse
  <2>5. /\ ~(msg_box = <<ToList>> /\ cur_fore_window_handle = PCI_SCAN)
        /\ ~(msg_box = <<ToDev>> /\ cur_fore_window_handle = PCI_LIST)
    <3>1. PCI_SCAN # PCI_LIST /\ PCI_LIST # PCI_DEV
      BY DEF PCI_SCAN, PCI_LIST, PCI_DEV
    <3>2. CASE msg_box = <<ToList>> /\ cur_fore_window_handle = PCI_SCAN
      <4>1. /\ Last(msg_box).msg = "MSG_XFER_CONTROL"
            /\ Last(msg_box).sender = PCI_SCAN /\ Last(msg_box).target = PCI_LIST
        BY <3>2, Newest
      <4> QED BY <2>2, <3>1, <3>2, <4>1 DEF XferRefused
    <3>3. CASE msg_box = <<ToDev>> /\ cur_fore_window_handle = PCI_LIST
      <4>1. /\ Last(msg_box).msg = "MSG_XFER_CONTROL"
            /\ Last(msg_box).sender = PCI_LIST /\ Last(msg_box).target = PCI_DEV
        BY <3>3, Newest
      <4> QED BY <2>2, <3>1, <3>3, <4>1 DEF XferRefused
    <3> QED BY <3>2, <3>3
  <2>6. ASSUME msg_box = <<Scan, NeedFocus(wanted)>> \/ msg_box = <<NeedFocus(wanted)>>
                 \/ msg_box = <<ToList, NeedFocus(wanted)>>
        PROVE  wanted = cur_fore_window_handle
    <3>1. Last(msg_box).msg = "MSG_NEED_FOCUS" /\ Last(msg_box).sender = wanted
      <4>1. CASE msg_box = <<Scan, NeedFocus(wanted)>> BY <4>1, Newest
      <4>2. CASE msg_box = <<NeedFocus(wanted)>> BY <4>2, Newest
      <4>3. CASE msg_box = <<ToList, NeedFocus(wanted)>> BY <4>3, Newest
      <4> QED BY <2>6, <4>1, <4>2, <4>3
    <3> QED BY <2>2, <3>1
  <2> QED BY <2>1, <2>3, <2>4, <2>5, <2>6, Handles
          DEF FirstPass, ScanDone, InUse, StartStages
<1>11. CASE UiMessagesDone
  BY <1>11, BoxOfTwo DEF UiMessagesDone, MessagesDone, FirstPass, StartStages, ScanDone, InUse, listVars
<1>12. CASE UiPaintWindows
  <2>1. /\ pc = "paint" /\ pc' = "key" /\ wanted' = NoWin /\ msg_box = <<>>
        /\ UNCHANGED <<cur_fore_window_handle, p_cur_wnd>>
    BY <1>12 DEF UiPaintWindows, PaintWindows, FirstPass, StartStages, ScanDone, InUse
  <2>2. CASE PaintScan
    <3>1. msg_box' = <<ToList>>
      BY <2>1, <2>2, BoxOfTwo DEF PaintScan, ToList, HandTo
    <3>2. Len(msg_box') = 1 BY <3>1, BoxOfTwo
    <3>3. ScanDone' BY <2>1, <2>2, <3>1 DEF PaintScan, ScanDone
    <3>4. scanned' = TRUE BY <2>2 DEF PaintScan
    <3> QED BY <2>1, <3>2, <3>3, <3>4
  <2>3. CASE PaintDev \/ PaintOther
    <3>1. cur_fore_window_handle # PCI_SCAN /\ UNCHANGED <<msg_box, scanned>>
      BY <2>3 DEF PaintDev, PaintOther, listVars, PCI_DEV, PCI_SCAN
    <3>2. scanned BY <2>1, <3>1 DEF FirstPass, StartStages
    <3> QED BY <2>1, <3>1, <3>2 DEF ScanDone, InUse
  <2> QED BY <1>12, <2>2, <2>3 DEF UiPaintWindows
<1>13. CASE UiGone \/ UNCHANGED vars
  BY <1>13 DEF UiGone, vars, wmVars, listVars, FirstPass, StartStages, ScanDone, InUse
<1> QED BY <1>1, <1>2, <1>3, <1>4, <1>5, <1>6, <1>7, <1>8, <1>9, <1>10, <1>11, <1>12, <1>13
        DEF UiNext, UiKeyEvent

-----------------------------------------------------------------------------
\* What a step of lfdk does to the list, the editor and the request.

\* Nothing; keys are read next only if they were, or by another window.
Quiet ==
    /\ UNCHANGED <<machine, listVars, devVars, request, cur_fore_window_handle>>
    /\ pc' = "key" /\ cur_fore_window_handle = PCI_DEV => pc = "key"

KeyToList ==
    /\ cur_fore_window_handle = PCI_LIST /\ scanned
    /\ \E k \in Keys : ListKey(k)
    /\ UNCHANGED <<machine, cur_fore_window_handle>>

KeyToDev ==
    /\ cur_fore_window_handle = PCI_DEV /\ scanned
    /\ pc = "key" /\ pc' = "msg"
    /\ \E k \in Keys : DevKey(k)
    /\ UNCHANGED <<machine, cur_fore_window_handle>>

FocusMoves ==
    /\ LostFocus(Current)
    /\ pc = "msg" /\ pc' = "msg"
    /\ UNCHANGED <<machine, listVars, request>>

ScanPaints == PaintScan /\ UNCHANGED <<machine, devVars, cur_fore_window_handle>>

DevPaints == PaintDev /\ UNCHANGED <<machine, devVars, cur_fore_window_handle>>

LEMMA UiCases ==
    ASSUME FocusInv, BoxInv, [UiNext]_vars
    PROVE  Quiet \/ KeyToList \/ KeyToDev \/ FocusMoves \/ ScanPaints \/ DevPaints
<1>1. CASE UiStartup \/ UiInitModules \/ UiStartWindows
  BY <1>1 DEF UiStartup, UiInitModules, UiStartWindows, Startup, ReadOptions, OpenDevice,
              InitDebug, InitModules, StartWindows, Leave, Quiet
<1>2. CASE UiPostStartWindows
  <2>1. pc = "post_start" /\ UNCHANGED cur_fore_window_handle
    BY <1>2 DEF UiPostStartWindows, PostStartWindows
  <2>2. cur_fore_window_handle = NoWin BY <2>1 DEF FocusInv, NoFocusBeforeLoop
  <2> QED BY <1>2, <2>1, <2>2 DEF UiPostStartWindows, Quiet, NoWin, PCI_DEV
<1>3. ASSUME NEW k \in Keys,
             UiShortKeyPress(k) \/ UiIoExits(k) \/ UiIgnoredKey(k) \/ UiQuit(k)
      PROVE  Quiet
  BY <1>3 DEF UiShortKeyPress, UiIoExits, UiIgnoredKey, UiQuit, ShortKeyPress, CallbackExits,
              IgnoredKey, Quit, Leave, Quiet
<1>4. ASSUME NEW k \in Keys, UiWindowKeyPress(k) PROVE Quiet \/ KeyToList \/ KeyToDev
  <2>1. /\ pc = "key" /\ pc' = "msg" /\ scanned
        /\ UNCHANGED <<cur_fore_window_handle, machine>>
    BY <1>4, KeyReaches DEF UiWindowKeyPress
  <2> QED BY <1>4, <2>1 DEF UiWindowKeyPress, Quiet, KeyToList, KeyToDev
<1>5. CASE UiHandleNeedFocus \/ UiHandleXferControl
  BY <1>5 DEF UiHandleNeedFocus, UiHandleXferControl, HandleNeedFocus, HandleXferControl,
              Receiving, FocusCallbacks, FocusMoves
<1>6. CASE UiDropMessage \/ UiMessagesDone
  BY <1>6 DEF UiDropMessage, DropNeedFocus, DropXferControl, Receiving, UiMessagesDone,
              MessagesDone, Quiet
<1>7. CASE UiPaintWindows
  BY <1>7 DEF UiPaintWindows, PaintWindows, PaintOther, Quiet, ScanPaints, DevPaints
<1>8. CASE UiGone \/ UNCHANGED vars
  BY <1>8 DEF UiGone, vars, wmVars, listVars, devVars, Quiet
<1> QED BY <1>1, <1>2, <1>3, <1>4, <1>5, <1>6, <1>7, <1>8 DEF UiNext, UiKeyEvent

-----------------------------------------------------------------------------
\* The list.

\* A scan finds some devices, or none.
LEMMA MachineFacts == machine \in Machines => Len(machine) \in Nat
<1> SUFFICES ASSUME machine \in Machines PROVE Len(machine) \in Nat
  OBVIOUS
<1>1. machine \in Seq(BOOLEAN) BY UiAssumption
<1> QED BY <1>1

\* The record under the cursor names a path only if there is one; a request of a
\* device of the list has that path.
LEMMA BaseFacts ==
    ASSUME ListInv
    PROVE  /\ PhyBases \subseteq {"none", "ecam", "low"}
           /\ curr_index >= 0 => PhyBases = {phy_base} /\ phy_base \in {"none", "ecam"}
  BY DEF ListInv, PhyBases, phy_base

LEMMA ListInit == UiInit => ListInv
<1> SUFFICES ASSUME UiInit PROVE ListInv
  OBVIOUS
<1>1. machine \in Machines /\ scanned = FALSE /\ pci_list_len = 0 /\ curr_index = 0
  BY DEF UiInit
<1>2. CursorOnDevice BY <1>1, Zenon DEF CursorOnDevice
<1>3. curr_index \in Int BY <1>1
<1>4. scanned \in BOOLEAN BY <1>1, Zenon
<1>5. pci_list_len = IF scanned THEN Len(machine) ELSE 0 BY <1>1, Zenon
<1> QED BY <1>1, <1>2, <1>3, <1>4, <1>5 DEF ListInv

LEMMA ListStep ==
    ASSUME FocusInv, BoxInv, ListInv, [UiNext]_vars
    PROVE  ListInv'
<1> USE DEF ListInv, CursorOnDevice
<1>1. Len(machine) \in Nat BY MachineFacts
<1>2. CASE UNCHANGED <<machine, listVars>> BY <1>2 DEF listVars
<1>3. CASE KeyToList
  <2>1. PICK k \in Keys : ListKey(k) BY <1>3 DEF KeyToList
  <2>2. RECORDS_PER_PAGE \in Nat BY UiAssumption
  <2>3. scanned /\ UNCHANGED <<machine, scanned, pci_list_len>>
    BY <1>3, <2>1 DEF KeyToList, ListKey
  <2>4. pci_list_len \in Nat /\ curr_index \in Int BY <1>1, <2>3
  <2>5. curr_index' \in {DownTo(curr_index - 1), UpTo(curr_index + 1),
                         UpTo(curr_index + RECORDS_PER_PAGE),
                         DownTo(curr_index - RECORDS_PER_PAGE), curr_index}
    BY <2>1 DEF ListKey
  <2>6. CASE pci_list_len = 0
    <3>1. curr_index \in -1 .. 0 BY <2>3, <2>6
    <3>2. curr_index' \in -1 .. 0 BY <2>2, <2>5, <2>6, <3>1 DEF UpTo, DownTo
    <3> QED BY <2>3, <2>6, <3>2
  <2>7. CASE pci_list_len # 0
    <3>1. curr_index \in 0 .. pci_list_len - 1 BY <2>3, <2>7
    <3>2. curr_index' \in 0 .. pci_list_len - 1
      BY <2>2, <2>4, <2>5, <2>7, <3>1 DEF UpTo, DownTo
    <3> QED BY <2>3, <2>7, <3>2
  <2> QED BY <2>6, <2>7
<1>4. CASE KeyToDev
  <2>1. PICK k \in Keys : DevKey(k) BY <1>4 DEF KeyToDev
  <2>2. CASE MoveDevice(k)
    <3>1. scanned /\ UNCHANGED <<machine, scanned, pci_list_len>>
      BY <1>4, <2>2 DEF KeyToDev, MoveDevice
    <3>2. pci_list_len \in Nat /\ pci_list_len # 0
      BY <1>1, <2>2, <3>1 DEF MoveDevice
    <3>3. curr_index \in 0 .. pci_list_len - 1 BY <3>1, <3>2
    <3>4. curr_index' \in 0 .. pci_list_len - 1 BY <2>2, <3>2, <3>3 DEF MoveDevice
    <3> QED BY <3>1, <3>2, <3>4
  <2>3. CASE UNCHANGED listVars BY <1>2, <1>4, <2>3 DEF KeyToDev
  <2> QED BY <2>1, <2>2, <2>3 DEF DevKey, CommitValue, EditValue, BeginValue, MoveRow,
                                  MoveColumn, ChangeMode, NoMove
<1>5. CASE ScanPaints
  <2>1. /\ scanned' = TRUE /\ pci_list_len' = Len(machine)
        /\ UNCHANGED <<machine, curr_index>>
    BY <1>5 DEF ScanPaints, PaintScan
  <2>2. curr_index \in IF Len(machine) = 0 THEN -1 .. 0 ELSE 0 .. Len(machine) - 1
    <3>1. CASE scanned BY <3>1
    <3>2. CASE ~scanned BY <1>1, <3>2
    <3> QED BY <3>1, <3>2
  <2> QED BY <1>1, <2>1, <2>2
<1>6. CASE Quiet \/ FocusMoves \/ DevPaints
  BY <1>2, <1>6 DEF Quiet, FocusMoves, DevPaints, PaintDev
<1> QED BY <1>3, <1>4, <1>5, <1>6, UiCases

-----------------------------------------------------------------------------
\* The editor.

\* Cells have one, two or four bytes, and there are values to type.
LEMMA CellFacts ==
    ASSUME NEW m \in 0 .. 2
    PROVE  /\ CellSize(m) \in {1, 2, 4}
           /\ CellValues(m) \in Nat \ {0} /\ CellValues(m) % RADIX = 0
           /\ RADIX <= CellValues(m)
<1>1. CellSize(m) \in {1, 2, 4}
  BY DEF CellSize, BYTE_MODE, WORD_MODE, DWORD_MODE
<1> DEFINE R == RADIX
<1>2. R \in Nat \ {0} BY RadixAssumption
<1>3. CellValues(m) \in {R * R, (R * R) * (R * R), ((R * R) * (R * R)) * ((R * R) * (R * R))}
  BY DEF CellValues, ByteValues, BYTE_MODE, WORD_MODE, DWORD_MODE
<1> HIDE DEF R
<1>4. CellValues(m) \in Nat \ {0} /\ CellValues(m) % R = 0 /\ R <= CellValues(m)
  BY <1>2, <1>3, DigitPowers
<1> QED BY <1>1, <1>4 DEF R

\* The screen is a grid of whole lines, and the device has whole screens.
LEMMA ScreenFacts ==
    /\ LINE \in Nat \ {0} /\ LINE % 4 = 0
    /\ MAP_SIZE \in Nat \ {0} /\ MAP_SIZE % 4 = 0 /\ MAP_SIZE % LINE = 0
    /\ MAP_SIZE \div LINE \in Nat \ {0} /\ (MAP_SIZE \div LINE) * LINE = MAP_SIZE
    /\ EXT_SIZE \in Nat \ {0} /\ EXT_SIZE % MAP_SIZE = 0 /\ MAP_SIZE <= EXT_SIZE
<1>1. /\ LINE \in Nat \ {0} /\ LINE % 4 = 0
      /\ MAP_SIZE \in Nat \ {0} /\ MAP_SIZE % LINE = 0
      /\ EXT_SIZE \in Nat \ {0} /\ EXT_SIZE % MAP_SIZE = 0
  BY UiAssumption
<1>2. MAP_SIZE % 4 = 0 BY <1>1, FourDivides
<1>3. \A n, m \in Nat \ {0} : n % m = 0 => n \div m \in Nat \ {0} /\ (n \div m) * m = n
  OBVIOUS
<1>4. 0 + MAP_SIZE <= EXT_SIZE BY <1>1, Multiples
<1> QED BY <1>1, <1>2, <1>3, <1>4

\* The cell under the cursor lies on the page, aligned to its own size.
LEMMA CellOnPage ==
    ASSUME EditorInv
    PROVE  /\ buff_page + y * LINE + x \in Nat
           /\ buff_page + y * LINE + x >= buff_page
           /\ buff_page + y * LINE + x + CellSize(display_mode) <= buff_page + MAP_SIZE
           /\ (buff_page + y * LINE + x) % CellSize(display_mode) = 0
<1> DEFINE c == CellSize(display_mode)
           rows == MAP_SIZE \div LINE
           above == y * LINE
<1>1. c \in {1, 2, 4}
  BY CellFacts DEF EditorInv, BYTE_MODE, WORD_MODE, DWORD_MODE
<1>2. /\ x \in 0 .. LINE - 1 /\ x % c = 0 /\ y \in 0 .. rows - 1 /\ buff_page \in Nat
      /\ buff_page % MAP_SIZE = 0
  BY DEF EditorInv
<1>3. /\ LINE \in Nat \ {0} /\ LINE % 4 = 0 /\ MAP_SIZE \in Nat \ {0} /\ MAP_SIZE % 4 = 0
      /\ rows \in Nat /\ rows * LINE = MAP_SIZE
  BY ScreenFacts
<1> HIDE DEF c, rows
<1>4. x + c <= LINE BY <1>1, <1>2, <1>3, CellMoves
<1>5. above + x \in Nat /\ above + x + c <= MAP_SIZE
  BY <1>1, <1>2, <1>3, <1>4, GridFacts
<1>6. above \in Nat /\ above % LINE = 0
  <2>1. LINE \in Nat \ {0} /\ y \in Nat BY <1>2, <1>3
  <2>2. \A a \in Nat : a * LINE \in Nat /\ (a * LINE) % LINE = 0 BY <2>1
  <2> QED BY <2>1, <2>2
<1>7. above % 4 = 0 BY <1>3, <1>6, FourDivides
<1>8. buff_page % 4 = 0 BY <1>2, <1>3, FourDivides
<1> HIDE DEF above
<1>9. buff_page + above + x \in Nat /\ buff_page + above + x >= buff_page
  BY <1>2, <1>3, <1>6
<1>10. buff_page + above + x + c <= buff_page + MAP_SIZE
  BY <1>1, <1>2, <1>3, <1>5, <1>6
<1>11. (buff_page + above + x) % c = 0
  BY <1>1, <1>2, <1>3, <1>6, <1>7, <1>8
<1> QED BY <1>9, <1>10, <1>11 DEF c, above

LEMMA EditorInit == UiInit => EditorInv
<1> SUFFICES ASSUME UiInit PROVE EditorInv
  OBVIOUS
<1>1. /\ x = 0 /\ y = 0 /\ buff_page = 0 /\ input = FALSE /\ wbuf = 0
      /\ display_mode = BYTE_MODE
  BY DEF UiInit
<1>2. display_mode \in 0 .. 2 BY <1>1 DEF BYTE_MODE
<1>3. CellSize(display_mode) \in {1, 2, 4} /\ CellValues(display_mode) \in Nat \ {0}
  BY <1>2, CellFacts
<1>4. \A n \in Nat \ {0} : 0 \in 0 .. n - 1 /\ 0 % n = 0 OBVIOUS
<1>5. wbuf \in 0 .. CellValues(display_mode) - 1 /\ x % CellSize(display_mode) = 0
  BY <1>1, <1>3, <1>4
<1>6. /\ x \in 0 .. LINE - 1 /\ y \in 0 .. (MAP_SIZE \div LINE) - 1
      /\ buff_page % MAP_SIZE = 0
  BY <1>1, <1>4, ScreenFacts
<1>7. buff_page \in Nat /\ buff_page + MAP_SIZE <= EXT_SIZE BY <1>1, ScreenFacts
<1> QED BY <1>1, <1>5, <1>6, <1>7 DEF EditorInv

\* What the editor's keys find.
LEMMA EditorFacts ==
    ASSUME EditorInv
    PROVE  /\ display_mode \in 0 .. 2 /\ CellSize(display_mode) \in {1, 2, 4}
           /\ CellValues(display_mode) \in Nat \ {0}
           /\ CellValues(display_mode) % RADIX = 0 /\ RADIX <= CellValues(display_mode)
           /\ RADIX \in Nat \ {0}
<1>1. display_mode \in 0 .. 2 BY DEF EditorInv, BYTE_MODE, WORD_MODE, DWORD_MODE
<1> QED BY <1>1, CellFacts, RadixAssumption

\* The value that is typed keeps fitting the cell.
LEMMA TypingStep ==
    ASSUME EditorInv, UNCHANGED display_mode, NEW k \in Keys,
           CommitValue(k) \/ EditValue(k) \/ BeginValue(k)
    PROVE  /\ input' \in BOOLEAN /\ wbuf' \in 0 .. CellValues(display_mode) - 1
           /\ ~input' => wbuf' = 0
<1> DEFINE n == CellValues(display_mode)
<1>1. RADIX \in Nat \ {0} /\ n \in Nat \ {0} /\ n % RADIX = 0 /\ RADIX <= n
  BY EditorFacts
<1>2. wbuf \in 0 .. n - 1 BY DEF EditorInv
<1>3. IsXDigit(k) => DigitOf(k) \in Nat /\ DigitOf(k) < RADIX
  BY UiAssumption DEF IsXDigit, DigitOf
<1>4. ~IsXDigit(KEY_BACKSPACE) BY DEF IsXDigit, KEY_BACKSPACE
<1>0. 0 \in 0 .. n - 1
  <2> HIDE DEF n
  <2> QED BY <1>1
<1>5. CASE CommitValue(k) BY <1>0, <1>5 DEF CommitValue
<1>6. CASE EditValue(k)
  <2>1. CASE k = KEY_BACKSPACE
    <3>1. wbuf' = wbuf \div RADIX BY <1>4, <1>6, <2>1 DEF EditValue, DropDigit
    <3>2. input' = TRUE BY <1>6, <2>1 DEF EditValue
    <3>3. wbuf' \in 0 .. n - 1
      <4> HIDE DEF n
      <4>1. wbuf \in Nat /\ wbuf <= n - 1 BY <1>1, <1>2
      <4>2. wbuf' \in 0 .. wbuf BY <1>1, <3>1, <4>1, DropBelow
      <4> QED BY <1>1, <4>1, <4>2
    <3> QED BY <3>2, <3>3
  <2>2. CASE IsXDigit(k)
    <3> DEFINE d == DigitOf(k)
    <3>1. wbuf' = ((wbuf * RADIX) % n) + d /\ input' = TRUE
      BY <1>4, <1>6, <2>2 DEF EditValue, ShiftIn
    <3>2. d \in Nat /\ d < RADIX BY <1>3, <2>2
    <3> HIDE DEF n, d
    <3>4. wbuf \in Nat BY <1>1, <1>2
    <3>3. ((wbuf * RADIX) % n) + d \in 0 .. n - 1 BY <1>1, <3>2, <3>4, ShiftBelow
    <3> QED BY <3>1, <3>3 DEF n
  <2>3. CASE k # KEY_BACKSPACE /\ ~IsXDigit(k)
    BY <1>0, <1>6, <2>3 DEF EditValue
  <2> QED BY <2>1, <2>2, <2>3
<1>7. CASE BeginValue(k) BY <1>1, <1>3, <1>7 DEF BeginValue
<1> QED BY <1>5, <1>6, <1>7

\* The page keys stay on the device's pages, the cursor keys on the screen.
LEMMA MovingStep ==
    ASSUME ListInv, EditorInv, NEW k, MoveRow(k) \/ MoveColumn(k) \/ ChangeMode(k)
    PROVE  /\ display_mode' \in {BYTE_MODE, WORD_MODE, DWORD_MODE}
           /\ x' \in 0 .. LINE - 1 /\ x' % CellSize(display_mode') = 0
           /\ y' \in 0 .. (MAP_SIZE \div LINE) - 1
           /\ buff_page' \in Nat /\ buff_page' % MAP_SIZE = 0
           /\ buff_page' + MAP_SIZE <= EXT_SIZE
           /\ curr_index >= 0 /\ phy_base = "none" => buff_page' = 0
<1> DEFINE c == CellSize(display_mode)
           rows == MAP_SIZE \div LINE
<1>1. display_mode \in 0 .. 2 /\ c \in {1, 2, 4} BY EditorFacts
<1>2. /\ x \in 0 .. LINE - 1 /\ x % c = 0 /\ y \in 0 .. rows - 1
      /\ buff_page \in Nat /\ buff_page % MAP_SIZE = 0 /\ buff_page + MAP_SIZE <= EXT_SIZE
      /\ curr_index >= 0 /\ phy_base = "none" => buff_page = 0
      /\ display_mode \in {BYTE_MODE, WORD_MODE, DWORD_MODE}
  BY DEF EditorInv
<1>3. /\ LINE \in Nat \ {0} /\ LINE % 4 = 0 /\ MAP_SIZE \in Nat \ {0} /\ rows \in Nat \ {0}
      /\ EXT_SIZE \in Nat \ {0} /\ EXT_SIZE % MAP_SIZE = 0
  BY ScreenFacts
<1>4. CASE MoveRow(k)
  <2>1. UNCHANGED <<x, display_mode>> /\ y' \in {y, y - 1, y + 1}
    BY <1>4 DEF MoveRow
  <2>2. y' \in 0 .. rows - 1
    <3>1. \/ y' = y - 1 /\ y > 0
          \/ y' = y
          \/ y' = y + 1 /\ y < (MAP_SIZE \div LINE) - 1
      BY <1>4, Zenon DEF MoveRow
    <3>2. \A n \in Nat \ {0} : /\ y \in 0 .. n - 1
                              /\ \/ y' = y - 1 /\ y > 0
                                 \/ y' = y
                                 \/ y' = y + 1 /\ y < n - 1
                              => y' \in 0 .. n - 1
      OBVIOUS
    <3> QED BY <1>2, <1>3, <3>1, <3>2, Zenon
  <2>3. PICK base \in PhyBases :
           \/ buff_page' = buff_page
           \/ base # "none" /\ buff_page >= MAP_SIZE /\ buff_page' = buff_page - MAP_SIZE
           \/ base # "none" /\ buff_page + MAP_SIZE < EXT_SIZE
                 /\ buff_page' = buff_page + MAP_SIZE
    <3>1. PhyBases # {} BY DEF PhyBases
    <3> QED BY <1>4, <3>1 DEF MoveRow
  <2>4. buff_page \in 0 .. EXT_SIZE - MAP_SIZE BY <1>2, <1>3
  <2>5. /\ buff_page + MAP_SIZE < EXT_SIZE =>
              /\ buff_page + MAP_SIZE \in 0 .. EXT_SIZE - MAP_SIZE
              /\ (buff_page + MAP_SIZE) % MAP_SIZE = 0
        /\ buff_page - MAP_SIZE >= 0 =>
              /\ buff_page - MAP_SIZE \in 0 .. EXT_SIZE - MAP_SIZE
              /\ (buff_page - MAP_SIZE) % MAP_SIZE = 0
    BY <1>2, <1>3, <2>4, NextPages
  <2>8. /\ buff_page' \in 0 .. EXT_SIZE - MAP_SIZE /\ buff_page' % MAP_SIZE = 0
        /\ base = "none" => buff_page' = buff_page
    BY <1>2, <1>3, <2>3, <2>4, <2>5
  <2>9. curr_index >= 0 => base = phy_base BY BaseFacts
  <2>6. /\ buff_page' \in 0 .. EXT_SIZE - MAP_SIZE /\ buff_page' % MAP_SIZE = 0
        /\ curr_index >= 0 /\ phy_base = "none" => buff_page' = 0
    BY <1>2, <2>8, <2>9
  <2>7. buff_page' \in Nat /\ buff_page' + MAP_SIZE <= EXT_SIZE
    <3>1. MAP_SIZE \in Nat /\ EXT_SIZE \in Nat BY <1>3
    <3>2. \A b \in 0 .. EXT_SIZE - MAP_SIZE : b \in Nat /\ b + MAP_SIZE <= EXT_SIZE BY <3>1
    <3> QED BY <2>6, <3>2
  <2> QED BY <1>2, <2>1, <2>2, <2>6, <2>7
<1>5. CASE MoveColumn(k)
  <2>1. UNCHANGED <<y, buff_page, display_mode>> BY <1>5 DEF MoveColumn
  <2>2. \/ x' = IF x < c THEN 0 ELSE x - c
        \/ x' = IF x + c >= LINE THEN x ELSE x + c
    BY <1>5 DEF MoveColumn, CursorLeft, CursorRight
  <2> HIDE DEF c
  <2>3. x' \in 0 .. LINE - 1 /\ x' % c = 0 BY <1>1, <1>2, <1>3, <2>2, CellMoves
  <2> QED BY <1>2, <2>1, <2>3 DEF c
<1>6. CASE ChangeMode(k)
  <2>1. /\ UNCHANGED <<y, buff_page>> /\ display_mode' = (display_mode + 1) % 3
        /\ x' = x - (x % CellSize(display_mode'))
    BY <1>6 DEF ChangeMode, AlignColumn, listVars
  <2>2. display_mode' \in 0 .. 2 BY <1>1, <2>1
  <2> DEFINE d == CellSize(display_mode')
  <2>3. d \in {1, 2, 4} BY <2>2, CellFacts
  <2>4. x' = x - (x % d) BY <2>1
  <2> HIDE DEF d
  <2>5. x' \in 0 .. LINE - 1 /\ x' % d = 0 BY <1>2, <1>3, <2>3, <2>4, CellMoves
  <2> QED BY <1>2, <2>1, <2>2, <2>5 DEF d, BYTE_MODE, WORD_MODE, DWORD_MODE
<1> QED BY <1>4, <1>5, <1>6

LEMMA EditorStep ==
    ASSUME FocusInv, BoxInv, ListInv, EditorInv, [UiNext]_vars
    PROVE  EditorInv'
<1>1. CASE UNCHANGED <<machine, listVars, devVars, cur_fore_window_handle>>
  BY <1>1 DEF EditorInv, listVars, devVars, phy_base
<1>2. CASE KeyToList \/ ScanPaints
  <2>1. cur_fore_window_handle # PCI_DEV /\ UNCHANGED <<devVars, cur_fore_window_handle>>
    BY <1>2 DEF KeyToList, ListKey, ScanPaints, PaintScan, PCI_LIST, PCI_SCAN, PCI_DEV
  <2> QED BY <2>1 DEF EditorInv, devVars
<1>3. CASE KeyToDev
  <2>1. PICK k \in Keys : DevKey(k) BY <1>3 DEF KeyToDev
  <2>2. cur_fore_window_handle' = PCI_DEV /\ UNCHANGED machine BY <1>3 DEF KeyToDev
  <2>3. CASE CommitValue(k) \/ EditValue(k) \/ BeginValue(k)
    <3>1. UNCHANGED <<listVars, x, y, buff_page, display_mode>>
      BY <2>3 DEF CommitValue, EditValue, BeginValue
    <3>2. UNCHANGED <<phy_base, curr_index>> BY <2>2, <3>1 DEF phy_base, listVars
    <3>3. /\ input' \in BOOLEAN /\ wbuf' \in 0 .. CellValues(display_mode) - 1
          /\ ~input' => wbuf' = 0
      BY <2>3, <3>1, TypingStep
    <3> QED BY <2>2, <3>1, <3>2, <3>3 DEF EditorInv
  <2>4. CASE MoveRow(k) \/ MoveColumn(k) \/ ChangeMode(k)
    <3>1. UNCHANGED <<listVars, input, wbuf>> /\ ~input
      BY <2>4 DEF MoveRow, MoveColumn, ChangeMode
    <3>2. UNCHANGED phy_base BY <2>2, <3>1 DEF phy_base, listVars
    <3>3. wbuf' = 0 BY <3>1 DEF EditorInv
    <3>4. display_mode' \in {BYTE_MODE, WORD_MODE, DWORD_MODE}
      BY <2>4, MovingStep
    <3>5. CellValues(display_mode') \in Nat \ {0}
      <4>1. display_mode' \in 0 .. 2 BY <3>4 DEF BYTE_MODE, WORD_MODE, DWORD_MODE
      <4> QED BY <4>1, CellFacts
    <3>6. \A n \in Nat \ {0} : 0 \in 0 .. n - 1 OBVIOUS
    <3>7. wbuf' \in 0 .. CellValues(display_mode') - 1 BY <3>3, <3>5, <3>6
    <3>8. input' \in BOOLEAN BY <3>1 DEF EditorInv
    <3>9. /\ x' \in 0 .. LINE - 1 /\ x' % CellSize(display_mode') = 0
          /\ y' \in 0 .. (MAP_SIZE \div LINE) - 1
          /\ buff_page' \in Nat /\ buff_page' % MAP_SIZE = 0
          /\ buff_page' + MAP_SIZE <= EXT_SIZE
          /\ curr_index' >= 0 /\ phy_base' = "none" => buff_page' = 0
      BY <2>4, <3>1, <3>2, MovingStep DEF listVars
    <3> QED BY <2>2, <3>3, <3>4, <3>7, <3>8, <3>9 DEF EditorInv
  <2>5. CASE MoveDevice(k)
    <3>1. UNCHANGED <<x, y, input, wbuf, display_mode>> /\ buff_page' = 0
      BY <2>5 DEF MoveDevice
    <3>2. 0 % MAP_SIZE = 0 /\ 0 + MAP_SIZE <= EXT_SIZE BY ScreenFacts
    <3> QED BY <2>2, <3>1, <3>2 DEF EditorInv
  <2>6. CASE NoMove(k) BY <1>1, <1>3, <2>2, <2>6 DEF NoMove, KeyToDev
  <2> QED BY <2>1, <2>3, <2>4, <2>5, <2>6 DEF DevKey
<1>4. CASE FocusMoves
  <2>1. UNCHANGED <<phy_base, curr_index, display_mode>>
    BY <1>4 DEF FocusMoves, LostFocus, phy_base, listVars, devVars
  <2>2. CASE Current = PCI_DEV
    <3>1. x' = 0 /\ y' = 0 /\ buff_page' = 0 /\ input' = FALSE /\ wbuf' = 0
      BY <1>4, <2>2 DEF FocusMoves, LostFocus
    <3>2. \A n \in Nat \ {0} : 0 \in 0 .. n - 1 /\ 0 % n = 0 OBVIOUS
    <3>3. /\ 0 \in 0 .. CellValues(display_mode) - 1 /\ 0 % CellSize(display_mode) = 0
          /\ 0 \in 0 .. LINE - 1 /\ 0 \in 0 .. (MAP_SIZE \div LINE) - 1
          /\ 0 % MAP_SIZE = 0 /\ 0 + MAP_SIZE <= EXT_SIZE
      BY <3>2, EditorFacts, ScreenFacts
    <3> QED BY <2>1, <3>1, <3>3 DEF EditorInv
  <2>3. CASE Current # PCI_DEV
    <3>1. UNCHANGED devVars BY <1>4, <2>3 DEF FocusMoves, LostFocus
    <3>2. cur_fore_window_handle # PCI_DEV BY <2>3 DEF Current, NoWin, PCI_DEV
    <3> QED BY <2>1, <3>1, <3>2 DEF EditorInv, devVars
  <2> QED BY <2>2, <2>3
<1>5. CASE Quiet \/ DevPaints BY <1>1, <1>5 DEF Quiet, DevPaints, PaintDev
<1> QED BY <1>2, <1>3, <1>4, <1>5, UiCases

-----------------------------------------------------------------------------
\* The requests.

\* A write goes to the cell under the cursor of the page last read.
LEMMA ShownStep ==
    ASSUME FocusInv, BoxInv, ShownInv, [UiNext]_vars
    PROVE  ShownInv'
<1> USE DEF ShownInv
<1>1. CASE Quiet
  BY <1>1 DEF Quiet, DevRequest, PhyBases, phy_base, listVars, devVars
<1>2. CASE KeyToList \/ ScanPaints
  BY <1>2 DEF KeyToList, ScanPaints, PaintScan, PCI_DEV, PCI_LIST, PCI_SCAN
<1>3. CASE KeyToDev \/ FocusMoves BY <1>3 DEF KeyToDev, FocusMoves
<1>4. CASE DevPaints
  BY <1>4 DEF DevPaints, PaintDev, DevRequest, PhyBases, phy_base, listVars, devVars
<1> QED BY <1>1, <1>2, <1>3, <1>4, UiCases

\* The base a request carries decides how much of the device it can reach.
LEMMA RequestMade ==
    ASSUME ListInv, EditorInv, NEW op \in {"write", "mass"}, NEW width \in {1, 2, 4},
           NEW reg \in Nat, NEW base \in PhyBases,
           request' = DevRequest(op, width, reg, base),
           op = "mass" => width = 4 /\ reg % MAP_SIZE = 0,
           reg % width = 0, reg + width <= buff_page + MAP_SIZE
    PROVE  RequestInv'
<1>1. base \in {"none", "ecam", "low"} BY BaseFacts
<1>2. curr_index \in Int BY DEF ListInv
<1>3. /\ buff_page \in Nat /\ buff_page + MAP_SIZE <= EXT_SIZE
      /\ curr_index >= 0 /\ phy_base = "none" => buff_page = 0
  BY DEF EditorInv
<1>4. MAP_SIZE \in Nat /\ EXT_SIZE \in Nat BY ScreenFacts
<1>5. /\ reg + width <= EXT_SIZE
      /\ curr_index >= 0 => base # "low" /\ (base = "none" => reg + width <= MAP_SIZE)
  <2>1. reg + width <= EXT_SIZE BY <1>3, <1>4
  <2>2. ASSUME curr_index >= 0
        PROVE  base # "low" /\ (base = "none" => reg + width <= MAP_SIZE)
    <3>1. base = phy_base /\ base # "low" BY <2>2, BaseFacts
    <3> QED BY <1>3, <1>4, <2>2, <3>1
  <2> QED BY <2>1, <2>2
<1>6. request' = [op |-> op, width |-> width, dev |-> curr_index, reg |-> reg,
                  phy_base |-> base]
  BY DEF DevRequest
<1> QED BY <1>1, <1>2, <1>5, <1>6 DEF RequestInv

LEMMA RequestStep ==
    ASSUME FocusInv, BoxInv, ListInv, EditorInv, RequestInv, [UiNext]_vars
    PROVE  RequestInv'
<1>1. CASE UNCHANGED request BY <1>1 DEF RequestInv
<1>2. CASE KeyToDev
  <2>1. PICK k \in Keys : DevKey(k) BY <1>2 DEF KeyToDev
  <2>2. CASE CommitValue(k)
    <3>1. PICK base \in PhyBases :
             request' = DevRequest("write", CellSize(display_mode),
                                   buff_page + y * LINE + x, base)
      BY <2>2 DEF CommitValue
    <3>2. CellSize(display_mode) \in {1, 2, 4} BY EditorFacts
    <3> QED BY <3>1, <3>2, CellOnPage, RequestMade
  <2>3. CASE ~CommitValue(k)
    BY <1>1, <2>1, <2>3 DEF DevKey, EditValue, BeginValue, MoveRow, MoveColumn, MoveDevice,
                            ChangeMode, NoMove
  <2> QED BY <2>2, <2>3
<1>3. CASE DevPaints
  <2>1. PICK base \in PhyBases : request' = DevRequest("mass", 4, buff_page, base)
    BY <1>3 DEF DevPaints, PaintDev
  <2>2. buff_page \in Nat /\ buff_page % MAP_SIZE = 0 BY DEF EditorInv
  <2>3. MAP_SIZE \in Nat \ {0} /\ MAP_SIZE % 4 = 0 /\ buff_page + 4 <= buff_page + MAP_SIZE
    BY <2>2, ScreenFacts
  <2>4. buff_page % 4 = 0 BY <2>2, <2>3, FourDivides
  <2> QED BY <2>1, <2>2, <2>3, <2>4, RequestMade
<1>4. CASE Quiet \/ KeyToList \/ FocusMoves \/ ScanPaints
  BY <1>1, <1>4 DEF Quiet, KeyToList, ListKey, FocusMoves, ScanPaints, PaintScan
<1> QED BY <1>2, <1>3, <1>4, UiCases

-----------------------------------------------------------------------------
\* All parts together are inductive over the steps of the windows.
LEMMA UiInit0 == UiInit => FocusInv /\ UiInv
<1> SUFFICES ASSUME UiInit PROVE FocusInv /\ UiInv
  OBVIOUS
<1>1. Init /\ pc = "options" /\ request = NoRequest BY DEF UiInit, Init
<1> QED BY <1>1, FocusInit, BoxInit, ListInit, EditorInit DEF UiInv, ShownInv, RequestInv

LEMMA UiStep == FocusInv /\ UiInv /\ [UiNext]_vars => FocusInv' /\ UiInv'
  BY IsManagerStep, FocusStep, BoxStep, ListStep, EditorStep, ShownStep, RequestStep
     DEF UiInv

LEMMA UiAlways == UiSpec => [](FocusInv /\ UiInv)
  BY UiInit0, UiStep, PTL DEF UiSpec

\* The state of the windows and their manager is well typed
\* (lfdk/lib_pci_list.c, lib_pci_dev.c).
THEOREM UiTypesCorrect == UiSpec => []UiTypeOK
<1>1. FocusInv /\ UiInv => UiTypeOK
  <2> SUFFICES ASSUME FocusInv, UiInv PROVE UiTypeOK
    OBVIOUS
  <2>1. TypeOK BY DEF FocusInv
  <2>2. pci_list_len \in Nat BY MachineFacts DEF UiInv, ListInv
  <2>3. scanned \in BOOLEAN /\ curr_index \in Int BY DEF UiInv, ListInv
  <2>4. wanted \in Wins \cup {NoWin} BY DEF UiInv, BoxInv
  <2>5. /\ x \in 0 .. LINE - 1 /\ y \in 0 .. (MAP_SIZE \div LINE) - 1
        /\ buff_page \in Nat /\ input \in BOOLEAN
        /\ wbuf \in 0 .. CellValues(display_mode) - 1
    BY DEF UiInv, EditorInv
  <2>6. display_mode \in 0 .. 2 BY EditorFacts DEF UiInv
  <2> QED BY <2>1, <2>2, <2>3, <2>4, <2>5, <2>6 DEF UiTypeOK
<1> QED BY <1>1, UiAlways, PTL

\* ScannedBeforeUse: the list and the editor are never painted without a scan
\* before, since the scan's own request is the oldest in a box that is emptied
\* from its newest (lfdk/lfdk.c:315-434, lib_pci_scan.c:342-380).
THEOREM ScanComesFirst == UiSpec => []ScannedBeforeUse
<1>1. BoxInv => ScannedBeforeUse
  BY DEF BoxInv, FirstPass, StartStages, ScannedBeforeUse, PCI_DEV, PCI_LIST, PCI_SCAN
<1> QED BY <1>1, UiAlways, PTL DEF UiInv

\* CursorOnDevice: paging through the list, from the list and from the editor,
\* and scanning again, the cursor they share stays on a device, or at -1 or 0 of
\* an empty list (lfdk/lib_pci_list.c:146-180, lib_pci_dev.c:357-369).
THEOREM CursorStays == UiSpec => []CursorOnDevice
<1>1. ListInv => CursorOnDevice BY DEF ListInv
<1> QED BY <1>1, UiAlways, PTL DEF UiInv

\* ShortKeyWins: the window the user called is painted at the end of the pass,
\* even if a scan has a transfer of control pending.
THEOREM CalledWindowWins == UiSpec => []ShortKeyWins
<1>1. BoxInv => ShortKeyWins
  BY DEF BoxInv, ScanDone, InUse, ShortKeyWins
<1> QED BY <1>1, UiAlways, PTL DEF UiInv

\* ScanOnlyOnCall: a scan hands the focus over before the next paint, and is not
\* repeated unless the user calls it.
THEOREM ScanNotRepeated == UiSpec => []ScanOnlyOnCall
<1>1. BoxInv => ScanOnlyOnCall
  BY DEF BoxInv, ScanDone, InUse, ScanOnlyOnCall
<1> QED BY <1>1, UiAlways, PTL DEF UiInv

\* RequestsWellFormed: what the editor asks for is what lfdd carries out as it
\* stands, in every mode, on every page and by either path.
THEOREM RequestsCarriedOut == UiSpec => []RequestsWellFormed
<1>1. RequestInv => RequestsWellFormed
  <2> SUFFICES ASSUME RequestInv, request # NoRequest, request.dev >= 0
               PROVE  /\ PC!WellFormed(request) /\ ~PC!Rejected(request)
                      /\ request.reg + request.width <= EXT_SIZE
    BY DEF RequestsWellFormed
  <2>1. PICK op \in {"write", "mass"}, width \in {1, 2, 4}, dev \in Int, reg \in Nat,
             base \in {"none", "ecam", "low"} :
          /\ request = [op |-> op, width |-> width, dev |-> dev, reg |-> reg,
                        phy_base |-> base]
          /\ op = "mass" => width = 4 /\ reg % MAP_SIZE = 0
          /\ reg % width = 0
          /\ dev >= 0 => base # "low" /\ (base = "none" => reg + width <= MAP_SIZE)
          /\ reg + width <= EXT_SIZE
    BY DEF RequestInv
  <2>2. /\ request.op = op /\ request.width = width /\ request.reg = reg
        /\ request.phy_base = base /\ request.dev = dev
    BY <2>1
  <2>3. base # "low" /\ (base = "none" => reg < MAP_SIZE) BY <2>1, <2>2, ScreenFacts
  <2>4. PC!WellFormed(request) BY <2>1, <2>2, <2>3 DEF PC!WellFormed
  <2>5. ~PC!Rejected(request) BY <2>1, <2>2, <2>3 DEF PC!Rejected
  <2> QED BY <2>1, <2>2, <2>4, <2>5
<1> QED BY <1>1, UiAlways, PTL DEF UiInv

\* BoxNeverFull: no more than two messages are ever pending.
THEOREM BoxStaysSmall == UiSpec => []BoxNeverFull
<1>1. BoxInv => BoxNeverFull BY DEF BoxInv, BoxNeverFull
<1> QED BY <1>1, UiAlways, PTL DEF UiInv

\* LostFocusOnlyByForeground: the messages the shipped windows post, in whatever
\* order, never send lost_focus to a window that does not have the focus.
THEOREM LostByForeground == UiSpec => []LostFocusOnlyByForeground
<1>1. FocusInv /\ BoxInv => LostFocusOnlyByForeground
  BY DEF FocusInv, BoxInv, TypeOK, ForegroundIsCurrent, LostFocusOnlyByForeground,
         Current, NoWin, Wins
<1> QED BY <1>1, UiAlways, PTL DEF UiInv

\* WriteHitsShown: what Enter writes goes to the device, by the path (unless the
\* cursor is before an empty list) and to the page that the screen shows (lfdk/lib_pci_dev.c:135-250).
THEOREM WritesHitShown == UiSpec => WriteHitsShown
<1>1. ASSUME FocusInv, UiInv, [UiNext]_vars, request' # request, request'.op = "write"
      PROVE  /\ request.op = "mass"
             /\ request'.dev = request.dev
             /\ request'.dev >= 0 => request'.phy_base = request.phy_base
             /\ request'.reg >= request.reg
             /\ request'.reg + request'.width <= request.reg + MAP_SIZE
  <2>1. ~DevPaints BY <1>1 DEF DevPaints, PaintDev, DevRequest
  <2>2. KeyToDev
    BY <1>1, <2>1, UiCases DEF UiInv, Quiet, KeyToList, ListKey, FocusMoves, ScanPaints,
                               PaintScan
  <2>3. PICK k \in Keys : DevKey(k) BY <2>2 DEF KeyToDev
  <2>4. CommitValue(k)
    BY <1>1, <2>3 DEF DevKey, EditValue, BeginValue, MoveRow, MoveColumn, MoveDevice,
                      ChangeMode, NoMove
  <2>5. PICK shown \in PhyBases : request = DevRequest("mass", 4, buff_page, shown)
    BY <1>1, <2>2 DEF UiInv, ShownInv, KeyToDev
  <2>6. PICK base \in PhyBases :
           request' = DevRequest("write", CellSize(display_mode), buff_page + y * LINE + x, base)
    BY <2>4 DEF CommitValue
  <2>8. curr_index >= 0 => base = shown BY <1>1, BaseFacts DEF UiInv
  <2>7. /\ buff_page + y * LINE + x >= buff_page
        /\ buff_page + y * LINE + x + CellSize(display_mode) <= buff_page + MAP_SIZE
    BY <1>1, CellOnPage DEF UiInv
  <2> QED BY <2>5, <2>6, <2>7, <2>8 DEF DevRequest
<1> QED BY <1>1, UiAlways, PTL DEF UiSpec, WriteHitsShown

\* EditorForgets: nothing half typed, and no page, survives a change of window
\* or of device (lfdk/lib_pci_dev.c, lfdk/lfdk.c:315-434).
THEOREM EditorStartsClean == UiSpec => EditorForgets
<1>1. ASSUME FocusInv, UiInv, [UiNext]_vars,
             cur_fore_window_handle' # cur_fore_window_handle \/ curr_index' # curr_index
      PROVE  ~input' /\ wbuf' = 0 /\ buff_page' = 0
  <2>1. cur_fore_window_handle # PCI_DEV => ~input /\ wbuf = 0 /\ buff_page = 0
    BY <1>1 DEF UiInv, EditorInv
  <2>2. CASE KeyToList
    BY <2>1, <2>2 DEF KeyToList, ListKey, devVars, PCI_LIST, PCI_DEV
  <2>3. CASE KeyToDev
    <3>1. PICK k \in Keys : DevKey(k) BY <2>3 DEF KeyToDev
    <3>2. UNCHANGED cur_fore_window_handle BY <2>3 DEF KeyToDev
    <3>3. MoveDevice(k)
      BY <1>1, <3>1, <3>2 DEF DevKey, CommitValue, EditValue, BeginValue, MoveRow, MoveColumn,
                              ChangeMode, NoMove, listVars
    <3> QED BY <1>1, <3>3 DEF MoveDevice, UiInv, EditorInv
  <2>4. CASE FocusMoves
    <3>1. CASE Current = PCI_DEV BY <2>4, <3>1 DEF FocusMoves, LostFocus
    <3>2. CASE Current # PCI_DEV
      <4>1. cur_fore_window_handle # PCI_DEV BY <3>2 DEF Current, NoWin, PCI_DEV
      <4> QED BY <2>1, <2>4, <3>2, <4>1 DEF FocusMoves, LostFocus, devVars
    <3> QED BY <3>1, <3>2
  <2>5. ~Quiet /\ ~ScanPaints /\ ~DevPaints
    BY <1>1 DEF Quiet, ScanPaints, PaintScan, DevPaints, PaintDev, listVars
  <2> QED BY <1>1, <2>2, <2>3, <2>4, <2>5, UiCases DEF UiInv
<1> QED BY <1>1, UiAlways, PTL DEF UiSpec, EditorForgets

=============================================================================
