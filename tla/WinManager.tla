----------------------------- MODULE WinManager -----------------------------
(***************************************************************************)
(* The window manager of lfdk (lfdk/lfdk.c): a pool of windows, one of     *)
(* which has the focus, and a message box the windows' callbacks post      *)
(* requests to and the main loop empties last in, first out.               *)
(*                                                                         *)
(* The windows are the most general client of the API of lfdk.h: every     *)
(* callback may post any messages, up to MaxPost of them.  One step is one *)
(* handler of the main loop; handle_message_event takes one step for each  *)
(* message, because a callback it makes may post more.                     *)
(***************************************************************************)
EXTENDS Integers, Sequences, SequencesExt

CONSTANTS
    NumWin,    \* windows_used_len
    ShortKey,  \* short_key of each window, 0 where the initialiser has none
    Keys,      \* values getch returns
    Kinds,     \* kinds of messages the windows post
    MSG_SIZE,  \* capacity of the message box
    MaxPost    \* bound on the messages one handler's callbacks post

VARIABLES
    win_state,               \* windows_pool[].win_state
    msg_box,                 \* the msg_used_len messages in use
    cur_fore_window_handle,  \* the window that has the focus, or -1
    p_cur_wnd,               \* local of handle_message_event
    pc,                      \* the handler the main program runs next
    held                     \* of the device, the log and the screen, what is open

wmVars == <<win_state, msg_box, cur_fore_window_handle, p_cur_wnd, pc, held>>

Wins == 0 .. NumWin - 1
NoWin == -1
QuitKeys == {113, 81}

WinStates == {"WM_NOT_START", "WM_INITED", "WM_STARTED", "WM_BACKGROUND",
              "WM_FOREGROUND", "WM_DESTROYED", "WM_EXIT"}

AllKinds == {"MSG_NEED_FOCUS", "MSG_RELEASE_FOCUS", "MSG_XFER_CONTROL",
             "MSG_DESTROY_WINDOW"}

\* The target is only read for MSG_XFER_CONTROL; it names a window.
msg_info == [msg : Kinds, sender : Wins, target : Wins]

Posts == UNION {[1 .. n -> msg_info] : n \in 0 .. MaxPost}

ASSUME ManagerAssumption ==
    /\ NumWin \in Nat /\ MSG_SIZE \in Nat /\ MaxPost \in Nat
    /\ ShortKey \in [Wins -> Nat] /\ Keys \subseteq Int
    /\ Kinds \subseteq AllKinds

-----------------------------------------------------------------------------
Init ==
    /\ win_state = [w \in Wins |-> "WM_NOT_START"]
    /\ msg_box = <<>>
    /\ cur_fore_window_handle = NoWin
    /\ p_cur_wnd = NoWin
    /\ pc = "options"
    /\ held = {}

\* Where main's ladder of labels is entered, and what it gives back from there.
Released(label) ==
    CASE label = "err_out"      -> {"screen", "log", "device"}
      [] label = "err_init_ev"  -> {"log", "device"}
      [] label = "err_init_dbg" -> {"device"}
      [] label = "err_open_dev" -> {}

Leave(label) == pc' = "gone" /\ held' = held \ Released(label)

\* getopt: a value out of range, or -h, ends lfdk at once.
ReadOptions ==
    /\ pc = "options"
    /\ pc' \in {"open", "gone"}
    /\ UNCHANGED <<win_state, msg_box, cur_fore_window_handle, p_cur_wnd, held>>

OpenDevice ==
    /\ pc = "open"
    /\ \/ pc' = "debug" /\ held' = held \cup {"device"}
       \/ Leave("err_open_dev")
    /\ UNCHANGED <<win_state, msg_box, cur_fore_window_handle, p_cur_wnd>>

\* debug_init, unless the level is 0
InitDebug ==
    /\ pc = "debug"
    /\ \/ pc' = "init" /\ held' \in {held, held \cup {"log"}}
       \/ Leave("err_init_dbg")
    /\ UNCHANGED <<win_state, msg_box, cur_fore_window_handle, p_cur_wnd>>

\* What is left of box after the request functions were called: each appends
\* one message, or returns ERR_BUF_OVERFLOW when the box is full.
PostTo(box) ==
    \E s \in Posts :
        /\ Len(box) + Len(s) <= MSG_SIZE
        /\ msg_box' = box \o s

\* Slip: a failed init leaves by the label above.
InitModules_WrongLabel ==
    /\ pc = "init"
    /\ \E n \in 0 .. NumWin :
          /\ win_state' = [w \in Wins |-> IF w < n THEN "WM_INITED" ELSE win_state[w]]
          /\ IF n = NumWin THEN pc' = "start" /\ UNCHANGED held ELSE Leave("err_init_dbg")
    /\ PostTo(msg_box)
    /\ UNCHANGED <<cur_fore_window_handle, p_cur_wnd>>

\* handle_init_event stops at the first window whose init fails, and main
\* then gives up before it has a screen.
InitModules ==
    /\ pc = "init"
    /\ \E n \in 0 .. NumWin :
          /\ win_state' = [w \in Wins |-> IF w < n THEN "WM_INITED" ELSE win_state[w]]
          /\ IF n = NumWin THEN pc' = "start" /\ UNCHANGED held ELSE Leave("err_init_ev")
    /\ PostTo(msg_box)
    /\ UNCHANGED <<cur_fore_window_handle, p_cur_wnd>>

Advance(from, to) ==
    win_state' = [w \in Wins |-> IF win_state[w] = from THEN to ELSE win_state[w]]

\* initscr and handle_start_win_event, which never fails
StartWindows ==
    /\ pc = "start"
    /\ held' = held \cup {"screen"}
    /\ Advance("WM_INITED", "WM_STARTED")
    /\ PostTo(msg_box)
    /\ pc' = "post_start"
    /\ UNCHANGED <<cur_fore_window_handle, p_cur_wnd>>

\* handle_post_start_win_event
PostStartWindows ==
    /\ pc = "post_start"
    /\ Advance("WM_STARTED", "WM_BACKGROUND")
    /\ PostTo(msg_box)
    /\ pc' = "key"
    /\ UNCHANGED <<cur_fore_window_handle, p_cur_wnd, held>>

\* The background windows that key k calls, as switch_key_press compares.
Called(k) == {w \in Wins : win_state[w] = "WM_BACKGROUND" /\ ShortKey[w] = k}

Foreground == {w \in Wins : win_state[w] = "WM_FOREGROUND"}

\* The window a loop over the pool that breaks at the first hit stops at.
FirstOf(S) == {w \in S : \A v \in S : w <= v}

NeedFocus(w) == [msg |-> "MSG_NEED_FOCUS", sender |-> w, target |-> w]

\* Slip: the test for a full box is missing.
Request_Unchecked(box, m) == Append(box, m)

\* request_windows_focus
Request(box, m) == IF Len(box) >= MSG_SIZE THEN box ELSE Append(box, m)

\* switch_key_press finds a window: it asks for the focus on its behalf.
ShortKeyPress(k) ==
    /\ pc = "key" /\ k \notin QuitKeys
    /\ \E w \in FirstOf(Called(k)) : msg_box' = Request(msg_box, NeedFocus(w))
    /\ pc' = "msg"
    /\ UNCHANGED <<win_state, cur_fore_window_handle, p_cur_wnd, held>>

\* handle_key_event: the foreground window's key_press.
WindowKeyPress(k) ==
    /\ pc = "key" /\ k \notin QuitKeys
    /\ Called(k) = {} /\ k > 0 /\ Foreground # {}
    /\ PostTo(msg_box)
    /\ pc' = "msg"
    /\ UNCHANGED <<win_state, cur_fore_window_handle, p_cur_wnd, held>>

\* No key (getch returned -1 or 0), or nobody to give it to.
IgnoredKey(k) ==
    /\ pc = "key" /\ k \notin QuitKeys
    /\ Called(k) = {} /\ (k <= 0 \/ Foreground = {})
    /\ pc' = "msg"
    /\ UNCHANGED <<win_state, msg_box, cur_fore_window_handle, p_cur_wnd, held>>

-----------------------------------------------------------------------------
\* handle_message_event.  p_cur_wnd outlives the message that set it, and is
\* what the next one uses when no window has the focus.

\* Slip: the window of the previous message is kept.
Current_Stale == IF p_cur_wnd # NoWin THEN p_cur_wnd ELSE cur_fore_window_handle

Current == IF cur_fore_window_handle # NoWin THEN cur_fore_window_handle ELSE p_cur_wnd

Receiving(kind) ==
    pc = "msg" /\ msg_box # <<>> /\ Last(msg_box).msg = kind

\* lost_focus of the current window, get_focus of the next one.
GiveFocus(next) ==
    /\ win_state' = [w \in Wins |-> IF w = next THEN "WM_FOREGROUND"
                                    ELSE IF w = Current THEN "WM_BACKGROUND"
                                    ELSE win_state[w]]
    /\ cur_fore_window_handle' = next
    /\ p_cur_wnd' = Current
    /\ PostTo(Front(msg_box))

HandleNeedFocus ==
    /\ Receiving("MSG_NEED_FOCUS")
    /\ Last(msg_box).sender # cur_fore_window_handle
    /\ GiveFocus(Last(msg_box).sender)
    /\ UNCHANGED <<pc, held>>

\* foreground module no need to switch
DropNeedFocus ==
    /\ Receiving("MSG_NEED_FOCUS")
    /\ Last(msg_box).sender = cur_fore_window_handle
    /\ msg_box' = Front(msg_box)
    /\ UNCHANGED <<win_state, cur_fore_window_handle, p_cur_wnd, pc, held>>

HandleReleaseFocus ==
    /\ Receiving("MSG_RELEASE_FOCUS")
    /\ win_state[Last(msg_box).sender] = "WM_FOREGROUND"
    /\ win_state' = [win_state EXCEPT ![Last(msg_box).sender] = "WM_BACKGROUND"]
    /\ cur_fore_window_handle' = NoWin
    /\ PostTo(Front(msg_box))
    /\ UNCHANGED <<p_cur_wnd, pc, held>>

DropReleaseFocus ==
    /\ Receiving("MSG_RELEASE_FOCUS")
    /\ win_state[Last(msg_box).sender] # "WM_FOREGROUND"
    /\ msg_box' = Front(msg_box)
    /\ UNCHANGED <<win_state, cur_fore_window_handle, p_cur_wnd, pc, held>>

\* Slip: any window may hand over the control it does not have.
XferRefused_AnySender(m) == m.sender = m.target

\* "sender == target", and "sender != foreground" when there is a current one
XferRefused(m) ==
    \/ m.sender = m.target
    \/ Current # NoWin /\ m.sender # cur_fore_window_handle

HandleXferControl ==
    /\ Receiving("MSG_XFER_CONTROL")
    /\ ~XferRefused(Last(msg_box))
    /\ GiveFocus(Last(msg_box).target)
    /\ UNCHANGED <<pc, held>>

DropXferControl ==
    /\ Receiving("MSG_XFER_CONTROL")
    /\ XferRefused(Last(msg_box))
    /\ msg_box' = Front(msg_box)
    /\ p_cur_wnd' = IF Last(msg_box).sender = Last(msg_box).target
                    THEN p_cur_wnd ELSE Current
    /\ UNCHANGED <<win_state, cur_fore_window_handle, pc, held>>

\* Slip: the handle of the destroyed window stays current.
HandleDestroyWindow_KeepsHandle ==
    /\ Receiving("MSG_DESTROY_WINDOW")
    /\ win_state' = [win_state EXCEPT ![Last(msg_box).sender] = "WM_DESTROYED"]
    /\ PostTo(Front(msg_box))
    /\ UNCHANGED <<cur_fore_window_handle, p_cur_wnd, pc, held>>

HandleDestroyWindow ==
    /\ Receiving("MSG_DESTROY_WINDOW")
    /\ win_state' = [win_state EXCEPT ![Last(msg_box).sender] = "WM_DESTROYED"]
    /\ cur_fore_window_handle' = IF Last(msg_box).sender = cur_fore_window_handle
                                 THEN NoWin ELSE cur_fore_window_handle
    /\ PostTo(Front(msg_box))
    /\ UNCHANGED <<p_cur_wnd, pc, held>>

HandleMessage ==
    \/ HandleNeedFocus \/ DropNeedFocus
    \/ HandleReleaseFocus \/ DropReleaseFocus
    \/ HandleXferControl \/ DropXferControl
    \/ HandleDestroyWindow

\* Slip: one message is handled in each pass, the others wait.
MessagesDone_OnePerPass ==
    /\ pc = "msg"
    /\ p_cur_wnd' = NoWin
    /\ pc' = "paint"
    /\ UNCHANGED <<win_state, msg_box, cur_fore_window_handle, held>>

\* The box is empty: handle_message_event returns and its locals are gone.
MessagesDone ==
    /\ pc = "msg" /\ msg_box = <<>>
    /\ p_cur_wnd' = NoWin
    /\ pc' = "paint"
    /\ UNCHANGED <<win_state, msg_box, cur_fore_window_handle, held>>

\* handle_paint_windows
PaintWindows ==
    /\ pc = "paint"
    /\ PostTo(msg_box)
    /\ pc' = "key"
    /\ UNCHANGED <<win_state, cur_fore_window_handle, p_cur_wnd, held>>

\* q: handle_destroy_windows, handle_module_exit, and err_out.
Quit(k) ==
    /\ pc = "key" /\ k \in QuitKeys
    /\ win_state' = [w \in Wins |-> "WM_EXIT"]
    /\ Leave("err_out")
    /\ UNCHANGED <<msg_box, cur_fore_window_handle, p_cur_wnd>>

\* A callback's LFDD_IOCTL fails: endwin, and exit closes the files.
CallbackExits ==
    /\ pc \in {"start", "post_start", "key", "msg", "paint"}
    /\ pc' = "gone" /\ held' = {}
    /\ UNCHANGED <<win_state, msg_box, cur_fore_window_handle, p_cur_wnd>>

\* The process has exited.
Gone == pc = "gone" /\ UNCHANGED wmVars

KeyEvent(k) == ShortKeyPress(k) \/ WindowKeyPress(k) \/ IgnoredKey(k) \/ Quit(k)

\* main up to the windows' own init
Startup == ReadOptions \/ OpenDevice \/ InitDebug

Next ==
    \/ Startup \/ InitModules \/ StartWindows \/ PostStartWindows
    \/ \E k \in Keys : KeyEvent(k)
    \/ HandleMessage \/ MessagesDone \/ PaintWindows \/ CallbackExits \/ Gone

Spec == Init /\ [][Next]_wmVars

-----------------------------------------------------------------------------
\* Every variable holds a value of its type; the message box never overflows.
TypeOK ==
    /\ win_state \in [Wins -> WinStates]
    /\ msg_box \in Seq([msg : AllKinds, sender : Wins, target : Wins])
    /\ Len(msg_box) <= MSG_SIZE
    /\ cur_fore_window_handle \in Wins \cup {NoWin}
    /\ p_cur_wnd \in Wins \cup {NoWin}
    /\ pc \in {"options", "open", "debug", "init", "start", "post_start", "key", "msg",
              "paint", "gone"}
    /\ held \subseteq {"device", "log", "screen"}

\* The two records of who has the focus agree, whatever the windows request
\* and in whatever order: the window painted last (cur_fore_window_handle) is
\* the one that gets the keys (the first WM_FOREGROUND in the pool).
ForegroundIsCurrent ==
    pc # "gone" =>
        \A w \in Wins : win_state[w] = "WM_FOREGROUND" <=> w = cur_fore_window_handle

\* However far lfdk came, and however it ends, it leaves with the terminal given
\* back and nothing open: each way out enters main's ladder at the label that
\* fits what has been done.
EndsClean == pc = "gone" => held = {}

\* As long as the windows only ask for the focus or hand it over, which is all
\* the shipped ones do, lost_focus is never sent to a window that does not have
\* the focus, although p_cur_wnd outlives the message that set it and several
\* requests can be handled in one pass (lfdk.c:329-341, 370-388).
LostFocusOnlyByForeground ==
    pc # "gone" /\ Current # NoWin => win_state[Current] = "WM_FOREGROUND"

=============================================================================
