-------------------------- MODULE WinManager_proofs --------------------------
(***************************************************************************)
(* Proofs about the window manager, for any number of windows, any short   *)
(* keys, any capacity of the message box and any client of its API.        *)
(***************************************************************************)
EXTENDS WinManager, SequenceTheorems, TLAPS

Message == [msg : AllKinds, sender : Wins, target : Wins]

\* The message handled next, and the ones left, are of the sort the box holds.
LEMMA PopType ==
    ASSUME NEW Sort, NEW box \in Seq(Sort), box # <<>>
    PROVE  /\ Last(box) \in Sort
           /\ Front(box) \in Seq(Sort)
           /\ Len(Front(box)) <= Len(box)
<1>1. Len(box) \in Nat /\ Len(box) >= 1
  BY LenProperties, EmptySeq
<1>2. \A j \in 1 .. Len(box) : box[j] \in Sort
  BY ElementOfSeq
<1>3. Last(box) \in Sort BY <1>1, <1>2 DEF Last
<1>4. \A j \in 1 .. Len(box) - 1 : box[j] \in Sort BY <1>1, <1>2
<1>5. Len(box) - 1 \in Int BY <1>1
<1>6. /\ SubSeq(box, 1, Len(box) - 1) \in Seq(Sort)
      /\ Len(SubSeq(box, 1, Len(box) - 1)) <= Len(box)
  BY <1>1, <1>4, <1>5, SubSeqProperties
<1> QED BY <1>3, <1>6 DEF Front

\* Whatever the callbacks post, the box holds messages of the sorts they post
\* and does not overflow.
LEMMA PostSort ==
    ASSUME NEW Sort, msg_info \subseteq Sort, NEW box \in Seq(Sort), PostTo(box)
    PROVE  msg_box' \in Seq(Sort) /\ Len(msg_box') <= MSG_SIZE
<1>1. PICK s \in Posts : Len(box) + Len(s) <= MSG_SIZE /\ msg_box' = box \o s
  BY DEF PostTo
<1>2. PICK n \in 0 .. MaxPost : s \in [1 .. n -> msg_info]
  BY <1>1 DEF Posts
<1>3. n \in Nat BY ManagerAssumption
<1>4. s \in [1 .. n -> Sort] BY <1>2
<1>5. s \in Seq(Sort) BY <1>3, <1>4, SeqDef
<1> QED BY <1>1, <1>5, ConcatProperties

LEMMA PostType ==
    ASSUME NEW box \in Seq(Message), PostTo(box)
    PROVE  msg_box' \in Seq(Message) /\ Len(msg_box') <= MSG_SIZE
<1>1. msg_info \subseteq Message
  BY ManagerAssumption DEF msg_info, Message
<1> QED BY <1>1, PostSort

\* So does a request of the manager itself.
LEMMA RequestType ==
    ASSUME NEW box \in Seq(Message), Len(box) <= MSG_SIZE, NEW m \in Message
    PROVE  Request(box, m) \in Seq(Message) /\ Len(Request(box, m)) <= MSG_SIZE
  BY ManagerAssumption DEF Request

\* Until the main loop starts, no window has the focus.
NoFocusBeforeLoop ==
    pc \in {"options", "open", "debug", "init", "start", "post_start"} => cur_fore_window_handle = NoWin

\* What is open when each handler of main runs.
HeldByStage ==
    /\ pc \in {"options", "open", "gone"} => held = {}
    /\ pc = "debug" => held = {"device"}
    /\ pc \in {"init", "start"} => held \subseteq {"device", "log"}

FocusInv == TypeOK /\ ForegroundIsCurrent /\ NoFocusBeforeLoop /\ HeldByStage

\* Giving the focus to a window keeps the two records of it in step.
LEMMA GiveFocusStep ==
    ASSUME FocusInv, NEW next \in Wins, GiveFocus(next),
           Front(msg_box) \in Seq(Message), pc = "msg", UNCHANGED <<pc, held>>
    PROVE  FocusInv'
<1> USE DEF TypeOK, ForegroundIsCurrent, NoFocusBeforeLoop, HeldByStage, FocusInv
<1>1. msg_box' \in Seq(Message) /\ Len(msg_box') <= MSG_SIZE
  BY PostType DEF GiveFocus
<1>2. Current \in Wins \cup {NoWin} BY DEF Current
<1>3. /\ win_state' \in [Wins -> WinStates]
      /\ cur_fore_window_handle' \in Wins /\ p_cur_wnd' \in Wins \cup {NoWin}
  BY <1>2 DEF GiveFocus, WinStates
<1>4. ForegroundIsCurrent'
  BY DEF GiveFocus, Current, NoWin, Wins
<1> QED BY <1>1, <1>3, <1>4 DEF Message

\* Every handler keeps the focus invariant.
LEMMA FocusStep == FocusInv /\ [Next]_wmVars => FocusInv'
<1> SUFFICES ASSUME FocusInv, [Next]_wmVars PROVE FocusInv'
  OBVIOUS
<1>1. msg_box \in Seq(Message) /\ Len(msg_box) \in Nat /\ Len(msg_box) <= MSG_SIZE
  BY LenProperties DEF FocusInv, TypeOK, Message
<1>2. NoWin \notin Wins BY DEF NoWin, Wins
<1>3. msg_box # <<>> => /\ Last(msg_box) \in Message
                        /\ Front(msg_box) \in Seq(Message)
                        /\ Len(Front(msg_box)) <= MSG_SIZE
  <2>1. msg_box # <<>> => Len(Front(msg_box)) \in Nat /\ Len(Front(msg_box)) <= Len(msg_box)
    BY <1>1, PopType, LenProperties
  <2>2. MSG_SIZE \in Nat BY ManagerAssumption
  <2> QED BY <1>1, <2>1, <2>2, PopType
<1> USE DEF TypeOK, ForegroundIsCurrent, NoFocusBeforeLoop, HeldByStage, FocusInv,
            WinStates, Message, Leave, Released
<1>4. CASE InitModules
  BY <1>1, <1>2, <1>4, PostType DEF InitModules
<1>5. CASE StartWindows
  BY <1>1, <1>2, <1>5, PostType DEF StartWindows, Advance
<1>6. CASE PostStartWindows
  BY <1>1, <1>2, <1>6, PostType DEF PostStartWindows, Advance
<1>7. ASSUME NEW k \in Keys, KeyEvent(k) PROVE FocusInv'
  <2>1. CASE ShortKeyPress(k)
    <3>1. PICK w \in FirstOf(Called(k)) : msg_box' = Request(msg_box, NeedFocus(w))
      BY <2>1 DEF ShortKeyPress
    <3>2. NeedFocus(w) \in Message
      BY DEF NeedFocus, FirstOf, Called, AllKinds
    <3>3. msg_box' \in Seq(Message) /\ Len(msg_box') <= MSG_SIZE
      BY <1>1, <3>1, <3>2, RequestType
    <3> QED BY <2>1, <3>3 DEF ShortKeyPress
  <2>2. CASE WindowKeyPress(k)
    BY <1>1, <2>2, PostType DEF WindowKeyPress
  <2>3. CASE IgnoredKey(k)
    BY <1>1, <2>3 DEF IgnoredKey
  <2>4. CASE Quit(k)
    BY <1>1, <2>4 DEF Quit
  <2> QED BY <1>7, <2>1, <2>2, <2>3, <2>4 DEF KeyEvent
<1>8. CASE HandleMessage
  <2>1. CASE HandleNeedFocus
    <3>1. Last(msg_box).sender \in Wins /\ Front(msg_box) \in Seq(Message)
      BY <1>3, <2>1 DEF HandleNeedFocus, Receiving
    <3> QED BY <2>1, <3>1, GiveFocusStep DEF HandleNeedFocus, Receiving
  <2>2. CASE HandleXferControl
    <3>1. Last(msg_box).target \in Wins /\ Front(msg_box) \in Seq(Message)
      BY <1>3, <2>2 DEF HandleXferControl, Receiving
    <3> QED BY <2>2, <3>1, GiveFocusStep DEF HandleXferControl, Receiving
  <2>3. CASE DropNeedFocus
    BY <1>3, <2>3 DEF DropNeedFocus, Receiving
  <2>4. CASE DropReleaseFocus
    BY <1>3, <2>4 DEF DropReleaseFocus, Receiving
  <2>5. CASE DropXferControl
    BY <1>3, <2>5 DEF DropXferControl, Receiving, Current
  <2>6. CASE HandleReleaseFocus
    <3>1. Last(msg_box).sender \in Wins /\ Front(msg_box) \in Seq(Message)
      BY <1>3, <2>6 DEF HandleReleaseFocus, Receiving
    <3>2. msg_box' \in Seq(Message) /\ Len(msg_box') <= MSG_SIZE
      BY <2>6, <3>1, PostType DEF HandleReleaseFocus
    <3> QED BY <1>2, <2>6, <3>1, <3>2 DEF HandleReleaseFocus, Receiving
  <2>7. CASE HandleDestroyWindow
    <3>1. Last(msg_box).sender \in Wins /\ Front(msg_box) \in Seq(Message)
      BY <1>3, <2>7 DEF HandleDestroyWindow, Receiving
    <3>2. msg_box' \in Seq(Message) /\ Len(msg_box') <= MSG_SIZE
      BY <2>7, <3>1, PostType DEF HandleDestroyWindow
    <3> QED BY <1>2, <2>7, <3>1, <3>2 DEF HandleDestroyWindow, Receiving
  <2> QED BY <1>8, <2>1, <2>2, <2>3, <2>4, <2>5, <2>6, <2>7 DEF HandleMessage
<1>9. CASE MessagesDone
  BY <1>1, <1>9 DEF MessagesDone
<1>10. CASE PaintWindows
  BY <1>1, <1>10, PostType DEF PaintWindows
<1>11. CASE Startup
  BY <1>1, <1>2, <1>11 DEF Startup, ReadOptions, OpenDevice, InitDebug
<1>12. CASE CallbackExits
  BY <1>1, <1>12 DEF CallbackExits
<1>13. CASE Gone BY <1>13 DEF Gone, wmVars
<1>14. CASE UNCHANGED wmVars BY <1>14 DEF wmVars
<1> QED BY <1>4, <1>5, <1>6, <1>7, <1>8, <1>9, <1>10, <1>11, <1>12, <1>13,
           <1>14 DEF Next

\* The manager starts with nobody in focus.
LEMMA FocusInit == Init => FocusInv
<1>1. <<>> \in Seq(Message) /\ Len(<<>>) = 0 BY EmptySeq
<1>2. NoWin \notin Wins BY DEF NoWin, Wins
<1> QED BY <1>1, <1>2, ManagerAssumption
        DEF Init, FocusInv, TypeOK, ForegroundIsCurrent, NoFocusBeforeLoop,
            HeldByStage, WinStates, Message

\* The manager's state is well typed and its message box of MSG_SIZE entries is
\* never overrun, whatever the windows post (lfdk/lfdk.c:100-206).
THEOREM ManagerTypeCorrect == Spec => []TypeOK
<1>1. FocusInv => TypeOK BY DEF FocusInv
<1> QED BY <1>1, FocusInit, FocusStep, PTL DEF Spec

\* The window that is painted last is the one that gets the keys, for any
\* windows and any requests (lfdk/lfdk.c:244-434).
THEOREM FocusCorrect == Spec => []ForegroundIsCurrent
<1>1. FocusInv => ForegroundIsCurrent BY DEF FocusInv
<1> QED BY <1>1, FocusInit, FocusStep, PTL DEF Spec

\* lfdk gives back the screen, the log and the device on every way out, from
\* whichever stage of its start (lfdk/lfdk.c:484-623).
THEOREM EndsCleanCorrect == Spec => []EndsClean
<1>1. FocusInv => EndsClean BY DEF FocusInv, HeldByStage, EndsClean
<1> QED BY <1>1, FocusInit, FocusStep, PTL DEF Spec

-----------------------------------------------------------------------------
\* What the shipped windows ask for: the focus, or that it be handed over.
HandOverKinds == {"MSG_NEED_FOCUS", "MSG_XFER_CONTROL"}

HandOver == [msg : HandOverKinds, sender : Wins, target : Wins]

\* Nobody else's request is in the box, and while no window has the focus the
\* p_cur_wnd that an earlier message left names none either.
HandOverInv ==
    /\ msg_box \in Seq(HandOver)
    /\ cur_fore_window_handle = NoWin => p_cur_wnd = NoWin

\* Every handler keeps it, if the windows post nothing else.
LEMMA HandOverStep ==
    ASSUME Kinds \subseteq HandOverKinds, HandOverInv, [Next]_wmVars
    PROVE  HandOverInv'
<1> USE DEF HandOverInv
<1>1. msg_info \subseteq HandOver BY DEF msg_info, HandOver
<1>2. NoWin \notin Wins BY DEF NoWin, Wins
<1>3. msg_box # <<>> => Last(msg_box) \in HandOver /\ Front(msg_box) \in Seq(HandOver)
  BY PopType
<1>4. Receiving("MSG_RELEASE_FOCUS") => FALSE
  BY <1>3 DEF Receiving, HandOver, HandOverKinds
<1>5. Receiving("MSG_DESTROY_WINDOW") => FALSE
  BY <1>3 DEF Receiving, HandOver, HandOverKinds
<1>6. CASE InitModules \/ StartWindows \/ PostStartWindows \/ PaintWindows
  BY <1>1, <1>6, PostSort DEF InitModules, StartWindows, PostStartWindows, PaintWindows
<1>7. ASSUME NEW k \in Keys, KeyEvent(k) PROVE HandOverInv'
  <2>1. CASE ShortKeyPress(k)
    <3>1. PICK w \in FirstOf(Called(k)) : msg_box' = Request(msg_box, NeedFocus(w))
      BY <2>1 DEF ShortKeyPress
    <3>2. NeedFocus(w) \in HandOver
      BY DEF NeedFocus, FirstOf, Called, HandOver, HandOverKinds
    <3>3. msg_box' \in Seq(HandOver) BY <3>1, <3>2 DEF Request
    <3> QED BY <2>1, <3>3 DEF ShortKeyPress
  <2>2. CASE WindowKeyPress(k)
    BY <1>1, <2>2, PostSort DEF WindowKeyPress
  <2>3. CASE IgnoredKey(k) \/ Quit(k)
    BY <2>3 DEF IgnoredKey, Quit
  <2> QED BY <1>7, <2>1, <2>2, <2>3 DEF KeyEvent
<1>8. CASE HandleNeedFocus
  <2>1. Last(msg_box).sender \in Wins /\ Front(msg_box) \in Seq(HandOver)
    BY <1>3, <1>8 DEF HandleNeedFocus, Receiving, HandOver
  <2> QED BY <1>1, <1>2, <1>8, <2>1, PostSort DEF HandleNeedFocus, GiveFocus
<1>9. CASE HandleXferControl
  <2>1. Last(msg_box).target \in Wins /\ Front(msg_box) \in Seq(HandOver)
    BY <1>3, <1>9 DEF HandleXferControl, Receiving, HandOver
  <2> QED BY <1>1, <1>2, <1>9, <2>1, PostSort DEF HandleXferControl, GiveFocus
<1>10. CASE DropNeedFocus \/ DropXferControl
  BY <1>3, <1>10 DEF DropNeedFocus, DropXferControl, Receiving, Current
<1>11. CASE HandleReleaseFocus \/ DropReleaseFocus \/ HandleDestroyWindow
  BY <1>4, <1>5, <1>11 DEF HandleReleaseFocus, DropReleaseFocus, HandleDestroyWindow
<1>12. CASE MessagesDone \/ Startup \/ CallbackExits \/ Gone
  BY <1>12 DEF MessagesDone, Startup, ReadOptions, OpenDevice, InitDebug, CallbackExits,
               Gone, wmVars
<1>13. CASE UNCHANGED wmVars BY <1>13 DEF wmVars
<1> QED BY <1>6, <1>7, <1>8, <1>9, <1>10, <1>11, <1>12, <1>13 DEF Next, HandleMessage

\* While only the focus and its transfer are asked for, lost_focus goes to the
\* window that has the focus, never to the one an earlier message of the same
\* pass left in p_cur_wnd, for any windows and any order of their requests
\* (lfdk/lfdk.c:329-341, 370-388).
THEOREM LostFocusCorrect ==
    ASSUME Kinds \subseteq HandOverKinds
    PROVE  Spec => []LostFocusOnlyByForeground
<1>1. Init => HandOverInv
  <2>1. <<>> \in Seq(HandOver) BY EmptySeq
  <2> QED BY <2>1 DEF Init, HandOverInv
<1>2. HandOverInv /\ [Next]_wmVars => HandOverInv' BY HandOverStep
<1>3. FocusInv /\ HandOverInv => LostFocusOnlyByForeground
  BY DEF FocusInv, HandOverInv, TypeOK, ForegroundIsCurrent, LostFocusOnlyByForeground,
         Current, NoWin, Wins
<1> QED BY <1>1, <1>2, <1>3, FocusInit, FocusStep, PTL DEF Spec

==============================================================================
