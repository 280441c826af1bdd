------------------------ MODULE SpaceEditors_proofs ------------------------
(***************************************************************************)
(* Proofs about the IO-SPACE and MEM-SPACE windows with their driver, for  *)
(* every width of the screen's lines, every number of pages, every radix   *)
(* of the digits and every size of RAM.                                    *)
(***************************************************************************)
EXTENDS SpaceEditors, Blocks_proofs

-----------------------------------------------------------------------------
\* The sizes.

\* A page is a positive number of bytes that a cell fits in, and cells that are
\* in a line are in the page.
LEMMA PageFacts ==
    /\ PAGE \in Nat \ {0} /\ PAGE >= 4
    /\ \A u, v, w \in Nat :
          v <= LINE - 1 /\ u + w <= LINE => v * LINE + u \in Nat /\ v * LINE + u + w <= PAGE
<1>1. LINE \in Nat \ {0} /\ LINE % 4 = 0 BY GridAssumption, WindowAssumption
<1>2. \A u, v, w \in Nat :
        v <= LINE - 1 /\ u + w <= LINE => v * LINE + u \in Nat /\ v * LINE + u + w <= PAGE
  BY <1>1, GridFacts DEF PAGE
<1>3. LINE >= 4 BY <1>1
<1>4. 0 * LINE + 0 + 4 <= PAGE /\ PAGE \in Nat
  <2>1. LINE * LINE \in Nat BY <1>1
  <2> QED BY <1>1, <1>2, <1>3, <2>1 DEF PAGE
<1> QED BY <1>1, <1>2, <1>4

\* A space is a number of whole pages, and a page's number leads into it.
LEMMA SpaceFacts ==
    ASSUME space \in Spaces
    PROVE  /\ ADDR_SPACE \in Nat \ {0} /\ ADDR_SPACE % PAGE = 0
           /\ PAGE <= ADDR_SPACE
           /\ \A w \in 0 .. ADDR_PAGES[space] - 1 :
                 w * PAGE \in 0 .. ADDR_SPACE - PAGE /\ (w * PAGE) % PAGE = 0
<1> DEFINE n == ADDR_PAGES[space]
<1>1. n \in Nat \ {0} BY GridAssumption, WindowAssumption
<1>2. PAGE \in Nat \ {0} BY PageFacts
<1>3. ADDR_SPACE = n * PAGE BY DEF ADDR_SPACE
<1> HIDE DEF n
<1>4. \A a \in Nat : a * PAGE \in Nat /\ (a * PAGE) % PAGE = 0
  BY <1>2 DEF PAGE
<1>5. ASSUME NEW w \in 0 .. n - 1
      PROVE  w * PAGE \in 0 .. n * PAGE - PAGE
  <2>1. w * PAGE + 0 + PAGE <= n * PAGE
    BY <1>1, <1>2, GridFacts
  <2> QED BY <1>1, <1>2, <1>4, <2>1
<1>6. n * PAGE \in Nat /\ PAGE <= n * PAGE
  <2>1. 0 * PAGE \in 0 .. n * PAGE - PAGE BY <1>1, <1>5
  <2> QED BY <1>1, <1>2, <1>4, <2>1
<1>7. \A w \in 0 .. n - 1 : w * PAGE \in 0 .. ADDR_SPACE - PAGE /\ (w * PAGE) % PAGE = 0
  BY <1>1, <1>3, <1>4, <1>5
<1>8. ADDR_SPACE \in Nat \ {0} /\ PAGE <= ADDR_SPACE BY <1>2, <1>3, <1>6
<1>9. ADDR_SPACE % PAGE = 0 BY <1>1, <1>3, <1>4
<1> QED BY <1>7, <1>8, <1>9 DEF n

\* Cells have one, two or four bytes, and there are values to type.
LEMMA CellFacts ==
    ASSUME NEW m \in 0 .. 2
    PROVE  /\ CellSize(m) \in {1, 2, 4}
           /\ CellValues(m) \in Nat \ {0} /\ CellValues(m) % RADIX = 0
           /\ RADIX <= CellValues(m)
<1>1. CellSize(m) \in {1, 2, 4}
  BY DEF CellSize, BYTE_MODE, WORD_MODE, DWORD_MODE
<1> DEFINE R == RADIX
<1>2. R \in Nat \ {0} BY RadixAssumption
<1>3. CellValues(m) \in {R * R, (R * R) * (R * R), ((R * R) * (R * R)) * ((R * R) * (R * R))}
  BY DEF CellValues, ByteValues, BYTE_MODE, WORD_MODE, DWORD_MODE
<1> HIDE DEF R
<1>4. CellValues(m) \in Nat \ {0} /\ CellValues(m) % R = 0 /\ R <= CellValues(m)
  BY <1>2, <1>3, DigitPowers
<1> QED BY <1>1, <1>4 DEF R

-----------------------------------------------------------------------------
\* The invariant behind TypeOK.

\* Which window it is, and where it stands with its manager.
FlagInv == space \in Spaces /\ foreground \in BOOLEAN /\ painted \in BOOLEAN /\ running \in BOOLEAN

\* The cursor is on the first byte of a cell.
CursorInv ==
    /\ x \in 0 .. LINE - 1 /\ y \in 0 .. LINE - 1 /\ display_mode \in 0 .. MODES - 1
    /\ x % CellSize(display_mode) = 0

\* What is typed fits, and is gone when nothing is typed.
InputInv ==
    /\ input \in {"NO_INPUT", "INPUT_ADDR", "INPUT_VALUE"}
    /\ wbuf \in 0 .. Values - 1
    /\ input = "NO_INPUT" => wbuf = 0

\* The page is one of the space.
BaseInv == base \in 0 .. ADDR_SPACE - PAGE /\ base % PAGE = 0

ViaInv == screen.via \in {"nothing", "ports", "direct", "ioremap", "all ones"}

EditorInv == FlagInv /\ CursorInv /\ InputInv /\ BaseInv /\ ViaInv

\* The display mode is one of the three.
LEMMA ModeFacts ==
    ASSUME FlagInv, CursorInv
    PROVE  /\ MODES \in {2, 3} /\ display_mode \in 0 .. 2 /\ display_mode \in Nat
           /\ CellSize(display_mode) \in {1, 2, 4}
           /\ CellValues(display_mode) \in Nat \ {0}
           /\ CellValues(display_mode) % RADIX = 0 /\ RADIX <= CellValues(display_mode)
<1>1. MODES \in {2, 3} BY DEF MODES
<1>2. display_mode \in 0 .. 2 BY <1>1 DEF CursorInv
<1> QED BY <1>1, <1>2, CellFacts

\* So there are values to type, a whole number of digits.
LEMMA ValuesFacts ==
    ASSUME FlagInv, CursorInv
    PROVE  Values \in Nat \ {0} /\ Values % RADIX = 0
<1>1. ADDR_PAGES[space] \in Nat \ {0} /\ ADDR_PAGES[space] % RADIX = 0
  BY GridAssumption, WindowAssumption DEF FlagInv
<1> QED BY <1>1, ModeFacts DEF Values

\* A key that moves the cursor or changes the mode keeps it on a cell.
LEMMA MoveStep ==
    ASSUME FlagInv, CursorInv, UNCHANGED space, NEW k, Move(k)
    PROVE  CursorInv'
<1>1. /\ LINE \in Nat \ {0} /\ LINE % 4 = 0
      /\ x \in 0 .. LINE - 1 /\ y \in 0 .. LINE - 1
      /\ x % CellSize(display_mode) = 0 /\ display_mode \in 0 .. MODES - 1
      /\ CellSize(display_mode) \in {1, 2, 4} /\ MODES \in {2, 3} /\ MODES' = MODES
  BY GridAssumption, WindowAssumption, ModeFacts DEF CursorInv, MODES
<1> DEFINE c == CellSize(display_mode)
<1> HIDE DEF c
<1>2. CASE UNCHANGED <<x, display_mode>> /\ y' \in {y, y - 1, y + 1} /\ y' \in 0 .. LINE - 1
  BY <1>1, <1>2 DEF CursorInv
<1>3. CASE x' = CursorLeft(x, display_mode) /\ UNCHANGED <<y, display_mode>>
  <2>1. x' = IF x < c THEN 0 ELSE x - c BY <1>3 DEF CursorLeft, c
  <2>2. x' \in 0 .. LINE - 1 /\ x' % c = 0
    BY <1>1, <2>1, CellMoves DEF c
  <2> QED BY <1>1, <1>3, <2>2 DEF CursorInv, c
<1>4. CASE x' = CursorRight(x, display_mode, LINE) /\ UNCHANGED <<y, display_mode>>
  <2>1. x' = IF x + c >= LINE THEN x ELSE x + c BY <1>4 DEF CursorRight, c
  <2>2. x' \in 0 .. LINE - 1 /\ x' % c = 0
    BY <1>1, <2>1, CellMoves DEF c
  <2> QED BY <1>1, <1>4, <2>2 DEF CursorInv, c
<1>5. CASE /\ display_mode' = (display_mode + 1) % MODES
           /\ x' = AlignColumn(x, display_mode') /\ UNCHANGED y
  <2>1. display_mode' \in 0 .. MODES - 1 /\ display_mode' \in 0 .. 2 BY <1>1, <1>5
  <2> DEFINE d == CellSize(display_mode')
  <2>2. d \in {1, 2, 4} BY <2>1, CellFacts
  <2>3. x' = x - (x % d) BY <1>5 DEF AlignColumn
  <2> HIDE DEF d
  <2>4. x' \in 0 .. LINE - 1 /\ x' % d = 0 BY <1>1, <2>2, <2>3, CellMoves
  <2> QED BY <1>1, <1>5, <2>1, <2>4 DEF CursorInv, d
<1>6. CASE k = KEY_UP /\ y' = (IF y > 0 THEN y - 1 ELSE y) /\ UNCHANGED <<x, display_mode>>
  BY <1>1, <1>2, <1>6
<1>7. CASE k = KEY_DOWN /\ y' = (IF y < LINE - 1 THEN y + 1 ELSE y) /\ UNCHANGED <<x, display_mode>>
  BY <1>1, <1>2, <1>7
<1> QED BY <1>3, <1>4, <1>5, <1>6, <1>7 DEF Move

\* A key that edits what is typed keeps it fitting.
LEMMA EditStep ==
    ASSUME FlagInv, CursorInv, InputInv, UNCHANGED <<space, display_mode>>,
           NEW k \in Keys, Edit(k) \/ Begin(k)
    PROVE  InputInv'
<1>1. RADIX \in Nat \ {0} BY RadixAssumption
<1>2. Values \in Nat \ {0} /\ Values % RADIX = 0 BY ValuesFacts
<1>3. wbuf \in Nat /\ wbuf < Values BY <1>2 DEF InputInv
<1>4. IsXDigit(k) => DigitOf(k) \in 0 .. RADIX - 1
  <2> SUFFICES ASSUME IsXDigit(k) PROVE DigitOf(k) \in 0 .. RADIX - 1 OBVIOUS
  <2>1. DigitOf(k) < RADIX BY GridAssumption, WindowAssumption
  <2>2. DigitOf(k) \in Nat BY DEF IsXDigit, DigitOf
  <2> QED BY <1>1, <2>1, <2>2
<1>5. CASE Edit(k)
  <2>1. input' = input /\ Values' = Values /\ input # "NO_INPUT"
    BY <1>5 DEF Edit, Values
  <2>2. wbuf' \in 0 .. Values - 1
    <3>1. CASE wbuf' = DropDigit(wbuf)
      BY <1>1, <1>2, <1>3, <3>1, DropBelow DEF DropDigit
    <3>2. CASE IsXDigit(k) /\ wbuf' = ShiftIn(wbuf, DigitOf(k), Values)
      <4> DEFINE d == DigitOf(k)
      <4>1. d \in Nat /\ d < RADIX BY <1>1, <1>4, <3>2
      <4>2. wbuf' = ((wbuf * RADIX) % Values) + d BY <3>2 DEF ShiftIn
      <4> HIDE DEF d
      <4> QED BY <1>1, <1>2, <1>3, <4>1, <4>2, ShiftBelow
    <3> QED BY <1>5, <3>1, <3>2 DEF Edit
  <2> QED BY <2>1, <2>2 DEF InputInv
<1>6. CASE Begin(k)
  <2>1. CASE input' = "INPUT_ADDR" /\ wbuf' = 0
    <3>1. Values' \in Nat \ {0}
      BY <2>1, GridAssumption, WindowAssumption DEF Values, FlagInv
    <3>2. \A n \in Nat \ {0} : 0 \in 0 .. n - 1 OBVIOUS
    <3>3. 0 \in 0 .. Values' - 1 BY <3>1, <3>2
    <3> QED BY <2>1, <3>3 DEF InputInv
  <2>2. CASE IsXDigit(k) /\ input' = "INPUT_VALUE" /\ wbuf' = DigitOf(k)
    <3>1. Values' = CellValues(display_mode) BY <2>2 DEF Values
    <3>2. RADIX <= Values' /\ Values' \in Nat BY <3>1, ModeFacts
    <3>3. wbuf' \in 0 .. Values' - 1 BY <1>1, <1>4, <2>2, <3>2
    <3> QED BY <2>2, <3>3 DEF InputInv
  <2> QED BY <1>6, <2>1, <2>2 DEF Begin
<1> QED BY <1>5, <1>6

\* Where the page keys lead: to the next page of the space, if there is one.
PageTargets == IF space = "IO-SPACE" THEN {NextPage, PreviousPage} ELSE {PageDown, PageUp}

LEMMA PageTargetsFacts ==
    ASSUME FlagInv, BaseInv, NEW to \in PageTargets
    PROVE  /\ to \in 0 .. ADDR_SPACE - PAGE /\ to % PAGE = 0
           /\ to \in {base - PAGE, base, base + PAGE}
<1> DEFINE m == PAGE
           n == ADDR_SPACE
<1>1. m \in Nat \ {0} /\ n \in Nat \ {0} /\ n % m = 0 /\ m <= n
  BY PageFacts, SpaceFacts DEF FlagInv
<1>2. base \in 0 .. n - m /\ base % m = 0 BY DEF BaseInv
<1>3. \/ to = IF base + m > n - 1 THEN n - m ELSE base + m
      \/ to = IF base - m < 0 THEN 0 ELSE base - m
      \/ to = IF (base + m) % n > base THEN (base + m) % n ELSE base
      \/ to = IF (base + n - m) % n < base THEN (base + n - m) % n ELSE base
  BY DEF PageTargets, NextPage, PreviousPage, PageDown, PageUp
<1> HIDE DEF m, n
<1>4. /\ base + m < n => base + m \in 0 .. n - m /\ (base + m) % m = 0
      /\ base + m >= n => base + m = n
      /\ base - m >= 0 => base - m \in 0 .. n - m /\ (base - m) % m = 0
      /\ base - m < 0 => base = 0
      /\ (base + n - m) % n = IF base - m >= 0 THEN base - m ELSE n - m
      /\ (base + m) % n = IF base + m < n THEN base + m ELSE 0
  BY <1>1, <1>2, NextPages
<1>5. to \in 0 .. n - m /\ to % m = 0 /\ to \in {base - m, base, base + m}
  <2>1. CASE to = IF base + m > n - 1 THEN n - m ELSE base + m
    <3>1. CASE base + m < n BY <1>1, <1>2, <1>4, <2>1, <3>1
    <3>2. CASE base + m >= n
      <4>1. to = base BY <1>1, <1>2, <1>4, <2>1, <3>2
      <4> QED BY <1>2, <4>1
    <3> QED BY <1>1, <1>2, <3>1, <3>2
  <2>2. CASE to = IF base - m < 0 THEN 0 ELSE base - m
    <3>1. CASE base - m < 0
      <4>1. to = base BY <1>1, <1>2, <1>4, <2>2, <3>1
      <4> QED BY <1>2, <4>1
    <3>2. CASE base - m >= 0 BY <1>1, <1>2, <1>4, <2>2, <3>2
    <3> QED BY <1>1, <1>2, <3>1, <3>2
  <2>3. CASE to = IF (base + m) % n > base THEN (base + m) % n ELSE base
    <3>1. to \in {base, base + m} /\ (to = base + m => base + m < n)
      BY <1>1, <1>2, <1>4, <2>3
    <3> QED BY <1>2, <1>4, <3>1
  <2>4. CASE to = IF (base + n - m) % n < base THEN (base + n - m) % n ELSE base
    <3>1. to \in {base, base - m} /\ (to = base - m => base - m >= 0)
      BY <1>1, <1>2, <1>4, <2>4
    <3> QED BY <1>2, <1>4, <3>1
  <2> QED BY <1>3, <2>1, <2>2, <2>3, <2>4
<1> QED BY <1>5 DEF m, n

\* A key of either window.
WindowKey(k) ==
    /\ TakeKey
    /\ \/ Edit(k) \/ Abandon(k) \/ EnterAddress(k) \/ EnterValue(k)
       \/ Begin(k) \/ Move(k) \/ Ignore(k)
       \/ \E to \in PageTargets : Page(k, to)

\* The steps of Next, as their effect on the editor and the screen.
PaintStep ==
    /\ \E corner : \E via \in {"nothing", "ports", "direct", "ioremap", "all ones"} :
          Paint(corner, via)
    /\ UNCHANGED running

LEMMA NextCases ==
    ASSUME FlagInv, Next
    PROVE  \/ \E k \in Keys : WindowKey(k) /\ running' \in BOOLEAN
           \/ PaintStep
           \/ (GetFocus \/ LostFocus) /\ UNCHANGED running
           \/ UNCHANGED <<windowVars, running>>
<1>1. CASE space = "IO-SPACE" /\ IoNext
  <2>1. ASSUME NEW k \in WindowKeys, IoKey(k) PROVE WindowKey(k) /\ running' \in BOOLEAN
    <3>1. CASE EditorKey(k) /\ UNCHANGED ioVars
      BY <3>1 DEF WindowKey, EditorKey, ioVars, FlagInv
    <3>2. CASE /\ TakeKey /\ UNCHANGED <<stored, ioVars>>
               /\ Page(k, IF k = KEY_NPAGE THEN NextPage ELSE PreviousPage)
      <4>1. (IF k = KEY_NPAGE THEN NextPage ELSE PreviousPage) \in PageTargets
        BY <1>1 DEF PageTargets
      <4> QED BY <3>2, <4>1 DEF WindowKey, ioVars, FlagInv
    <3>3. CASE TakeKey /\ EnterValue(k) /\ WriteIOValue
      <4>1. running' \in BOOLEAN BY <3>3 DEF WriteIOValue, FlagInv
      <4> QED BY <3>3, <4>1 DEF WindowKey
    <3> QED BY <2>1, <3>1, <3>2, <3>3 DEF IoKey
  <2>2. ASSUME IoPaint PROVE PaintStep
    <3>1. Paint(OffsetText, IF input = "INPUT_ADDR" THEN "nothing" ELSE "ports")
      BY <2>2 DEF IoPaint
    <3> QED BY <2>2, <3>1 DEF IoPaint, PaintStep
  <2>3. ASSUME IoFocus PROVE (GetFocus \/ LostFocus) /\ UNCHANGED running
    BY <2>3 DEF IoFocus, ioVars
  <2>4. ASSUME Exited PROVE UNCHANGED <<windowVars, running>>
    BY <2>4 DEF Exited, ioVars
  <2> QED BY <1>1, <2>1, <2>2, <2>3, <2>4 DEF IoNext, WindowKeys
<1>2. CASE space = "MEM-SPACE" /\ MemNext /\ UNCHANGED ioVars
  <2>0. running' = running /\ running' \in BOOLEAN BY <1>2 DEF ioVars, FlagInv
  <2>1. ASSUME NEW k \in WindowKeys, MemKey(k) PROVE WindowKey(k)
    <3>1. CASE EditorKey(k) BY <3>1 DEF WindowKey, EditorKey
    <3>2. CASE /\ TakeKey /\ UNCHANGED stored
               /\ Page(k, IF k = KEY_NPAGE THEN PageDown ELSE PageUp)
      <4>1. (IF k = KEY_NPAGE THEN PageDown ELSE PageUp) \in PageTargets
        BY <1>2 DEF PageTargets
      <4> QED BY <3>2, <4>1 DEF WindowKey
    <3>3. CASE TakeKey /\ EnterValue(k) /\ WriteMemValue BY <3>3 DEF WindowKey
    <3> QED BY <2>1, <3>1, <3>2, <3>3 DEF MemKey
  <2>2. ASSUME MemPaint PROVE PaintStep
    <3>1. PICK via \in {"nothing", "direct", "ioremap", "all ones"} :
              Paint(OffsetText % CORNER_MOD, via)
      BY <2>2 DEF MemPaint
    <3> QED BY <2>0, <3>1 DEF PaintStep
  <2> QED BY <1>2, <2>0, <2>1, <2>2 DEF MemNext, WindowKeys
<1> QED BY <1>1, <1>2 DEF Next

\* With nothing or an address typed, wbuf = 0 fits whatever the mode.
LEMMA NothingTyped ==
    ASSUME FlagInv', CursorInv', input' \in {"NO_INPUT", "INPUT_ADDR"}, wbuf' = 0
    PROVE  InputInv'
<1>1. Values' \in Nat \ {0}
  <2>1. ADDR_PAGES[space'] \in Nat \ {0} BY GridAssumption, WindowAssumption DEF FlagInv
  <2>2. MODES' \in {2, 3} BY DEF MODES
  <2>3. display_mode' \in 0 .. 2
    <3>1. \A n \in {2, 3} : \A d \in 0 .. n - 1 : d \in 0 .. 2 OBVIOUS
    <3>2. display_mode' \in 0 .. MODES' - 1 BY DEF CursorInv
    <3> QED BY <2>2, <3>1, <3>2
  <2>4. CellValues(display_mode') \in Nat \ {0} BY <2>3, CellFacts
  <2> QED BY <2>1, <2>4 DEF Values
<1>2. \A n \in Nat \ {0} : 0 \in 0 .. n - 1 OBVIOUS
<1>3. wbuf' \in 0 .. Values' - 1 BY <1>1, <1>2
<1> QED BY <1>3 DEF InputInv

LEMMA KeyStep ==
    ASSUME EditorInv, NEW k \in Keys, WindowKey(k), running' \in BOOLEAN
    PROVE  EditorInv'
<1>1. /\ FlagInv /\ CursorInv /\ InputInv /\ BaseInv /\ ViaInv
      /\ UNCHANGED <<space, screen>>
  BY DEF EditorInv, WindowKey, TakeKey
<1>2. FlagInv' BY DEF EditorInv, FlagInv, WindowKey, TakeKey
<1>3. ViaInv' BY <1>1 DEF ViaInv
<1>4. UNCHANGED cursor => CursorInv'
  BY <1>1 DEF cursor, CursorInv, MODES
<1>5. UNCHANGED base => BaseInv'
  BY <1>1 DEF BaseInv, ADDR_SPACE
<1>6. UNCHANGED cursor /\ UNCHANGED <<input, wbuf>> => InputInv'
  BY <1>1 DEF cursor, InputInv, Values
<1>7. CASE Edit(k)
  <2>1. UNCHANGED <<base, cursor>> BY <1>7 DEF Edit
  <2>2. InputInv' BY <1>1, <1>7, <2>1, EditStep DEF cursor
  <2> QED BY <1>2, <1>3, <1>4, <1>5, <2>1, <2>2 DEF EditorInv
<1>8. CASE Abandon(k) \/ EnterValue(k)
  <2>1. UNCHANGED <<base, cursor>> /\ input' = "NO_INPUT" /\ wbuf' = 0
    BY <1>8 DEF Abandon, EnterValue
  <2>2. InputInv' BY <1>2, <1>4, <2>1, NothingTyped
  <2> QED BY <1>2, <1>3, <1>4, <1>5, <2>1, <2>2 DEF EditorInv
<1>9. CASE EnterAddress(k)
  <2>1. UNCHANGED cursor /\ input' = "NO_INPUT" /\ wbuf' = 0 /\ base' = wbuf * PAGE
    BY <1>9 DEF EnterAddress
  <2>2. InputInv' BY <1>2, <1>4, <2>1, NothingTyped
  <2>3. wbuf \in 0 .. ADDR_PAGES[space] - 1
    BY <1>1, <1>9 DEF EnterAddress, InputInv, Values
  <2>4. base' \in 0 .. ADDR_SPACE - PAGE /\ base' % PAGE = 0
    BY <1>1, <2>1, <2>3, SpaceFacts DEF FlagInv
  <2>5. BaseInv' BY <1>1, <2>4 DEF BaseInv, ADDR_SPACE
  <2> QED BY <1>2, <1>3, <1>4, <2>1, <2>2, <2>5 DEF EditorInv
<1>10. CASE Begin(k)
  <2>1. UNCHANGED <<base, cursor>> BY <1>10 DEF Begin
  <2>2. InputInv' BY <1>1, <1>10, <2>1, EditStep DEF cursor
  <2> QED BY <1>2, <1>3, <1>4, <1>5, <2>1, <2>2 DEF EditorInv
<1>11. CASE Move(k)
  <2>1. UNCHANGED <<base, input, wbuf>> /\ input = "NO_INPUT" BY <1>11 DEF Move
  <2>2. CursorInv' BY <1>1, <1>11, MoveStep
  <2>3. wbuf' = 0 /\ input' = "NO_INPUT" BY <1>1, <2>1 DEF InputInv
  <2>4. InputInv' BY <1>2, <2>2, <2>3, NothingTyped
  <2> QED BY <1>2, <1>3, <1>5, <2>1, <2>2, <2>4 DEF EditorInv
<1>12. CASE Ignore(k)
  <2>1. UNCHANGED <<base, cursor, input, wbuf>> BY <1>12 DEF Ignore
  <2> QED BY <1>2, <1>3, <1>4, <1>5, <1>6, <2>1 DEF EditorInv
<1>13. ASSUME NEW to \in PageTargets, Page(k, to) PROVE EditorInv'
  <2>1. UNCHANGED <<cursor, input, wbuf>> /\ base' = to BY <1>13 DEF Page
  <2>2. to \in 0 .. ADDR_SPACE - PAGE /\ to % PAGE = 0
    BY <1>1, <1>13, PageTargetsFacts
  <2>3. BaseInv' BY <1>1, <2>1, <2>2 DEF BaseInv, ADDR_SPACE
  <2> QED BY <1>2, <1>3, <1>4, <1>6, <2>1, <2>3 DEF EditorInv
<1> QED BY <1>7, <1>8, <1>9, <1>10, <1>11, <1>12, <1>13 DEF WindowKey

\* Every step keeps the invariant.
LEMMA EditorStep ==
    ASSUME EditorInv, [Next]_vars
    PROVE  EditorInv'
<1>1. FlagInv /\ CursorInv /\ InputInv /\ BaseInv /\ ViaInv BY DEF EditorInv
<1>2. UNCHANGED cursor /\ UNCHANGED space => CursorInv'
  BY <1>1 DEF cursor, CursorInv, MODES
<1>3. UNCHANGED <<base, space>> => BaseInv'
  BY <1>1 DEF BaseInv, ADDR_SPACE
<1>4. UNCHANGED <<cursor, space, input, wbuf>> => InputInv'
  BY <1>1 DEF cursor, InputInv, Values
<1>5. ASSUME NEW k \in Keys, WindowKey(k), running' \in BOOLEAN PROVE EditorInv'
  BY <1>5, KeyStep
<1>6. CASE PaintStep
  <2>1. /\ UNCHANGED <<space, foreground, base, cursor, input, wbuf>>
        /\ painted' = TRUE /\ UNCHANGED running
        /\ screen'.via \in {"nothing", "ports", "direct", "ioremap", "all ones"}
    <3>1. PICK corner : \E via \in {"nothing", "ports", "direct", "ioremap", "all ones"} :
              Paint(corner, via)
      BY <1>6 DEF PaintStep
    <3>2. PICK via \in {"nothing", "ports", "direct", "ioremap", "all ones"} :
              Paint(corner, via)
      BY <3>1
    <3>3. screen' = [at |-> base, corner |-> corner, via |-> via] BY <3>2 DEF Paint
    <3>4. screen'.via = via BY <3>3
    <3> QED BY <1>6, <3>2, <3>4 DEF PaintStep, Paint
  <2>2. FlagInv' /\ ViaInv' BY <1>1, <2>1 DEF FlagInv, ViaInv
  <2> QED BY <1>2, <1>3, <1>4, <2>1, <2>2 DEF EditorInv
<1>7. CASE (GetFocus \/ LostFocus) /\ UNCHANGED running
  <2>1. /\ UNCHANGED <<space, base, cursor, screen, running>>
        /\ painted' = FALSE /\ foreground' \in BOOLEAN
        /\ input' \in {"NO_INPUT", "INPUT_ADDR"} /\ wbuf' = 0
    BY <1>7 DEF GetFocus, LostFocus
  <2>2. FlagInv' /\ ViaInv' BY <1>1, <2>1 DEF FlagInv, ViaInv
  <2>3. InputInv' BY <1>2, <2>1, <2>2, NothingTyped
  <2> QED BY <1>2, <1>3, <2>1, <2>2, <2>3 DEF EditorInv
<1>8. CASE UNCHANGED <<windowVars, running>>
  <2>1. UNCHANGED <<space, foreground, painted, base, cursor, input, wbuf, screen, running>>
    BY <1>8 DEF windowVars
  <2>2. FlagInv' /\ ViaInv' BY <1>1, <2>1 DEF FlagInv, ViaInv
  <2> QED BY <1>2, <1>3, <1>4, <2>1, <2>2 DEF EditorInv
<1>9. CASE UNCHANGED vars
  BY <1>8, <1>9 DEF vars, ioVars
<1> QED BY <1>1, <1>5, <1>6, <1>7, <1>8, <1>9, NextCases

LEMMA EditorInit == Init => EditorInv
<1> SUFFICES ASSUME Init PROVE EditorInv OBVIOUS
<1>1. /\ space \in Spaces /\ foreground = FALSE /\ painted = FALSE /\ base = 0
      /\ x = 0 /\ y = 0 /\ display_mode = 0 /\ input = "NO_INPUT" /\ wbuf = 0
      /\ screen.via = "nothing" /\ running = TRUE
  BY DEF Init, WindowInit, IoInit, BYTE_MODE
<1>2. FlagInv /\ ViaInv BY <1>1 DEF FlagInv, ViaInv
<1>3. CursorInv
  <2>1. LINE \in Nat \ {0} /\ MODES \in {2, 3} BY GridAssumption, WindowAssumption DEF MODES
  <2>2. CellSize(0) = 1 BY DEF CellSize, BYTE_MODE, WORD_MODE, DWORD_MODE
  <2> QED BY <1>1, <2>1, <2>2 DEF CursorInv
<1>4. InputInv
  <2>1. Values \in Nat \ {0} BY <1>2, <1>3, ValuesFacts
  <2>2. 0 \in 0 .. Values - 1 BY <2>1
  <2> QED BY <1>1, <2>2 DEF InputInv
<1>5. BaseInv
  <2>1. /\ PAGE \in Nat \ {0} /\ ADDR_SPACE \in Nat /\ PAGE <= ADDR_SPACE
    BY <1>1, PageFacts, SpaceFacts
  <2> QED BY <1>1, <2>1 DEF BaseInv
<1> QED BY <1>2, <1>3, <1>4, <1>5 DEF EditorInv

\* The window always shows a page of its space, the cursor is on the first byte
\* of a cell of it, and what is typed fits the mask (lfdk/libio.c:150-360,
\* lfdk/libmem.c:170-330).
THEOREM EditorTypesCorrect == Spec => []TypeOK
<1>1. EditorInv => TypeOK
  BY DEF EditorInv, FlagInv, CursorInv, InputInv, BaseInv, ViaInv, TypeOK, WindowTypeOK
<1> QED BY <1>1, EditorInit, EditorStep, PTL DEF Spec

\* PagesDoNotWrap: whatever happens, the window moves by a page at most or to
\* the address that was typed.
THEOREM PagesStayNear == Spec => PagesDoNotWrap
<1> DEFINE Near == input = "INPUT_ADDR" \/ base' \in {base - PAGE, base, base + PAGE}
<1>1. ASSUME EditorInv, [Next]_vars PROVE [Near]_vars
  <2>1. CASE UNCHANGED vars BY <2>1
  <2>2. ASSUME UNCHANGED base PROVE Near BY <2>2
  <2>3. FlagInv /\ BaseInv BY <1>1 DEF EditorInv
  <2>4. ASSUME NEW k \in Keys, WindowKey(k) PROVE Near
    <3>1. CASE Edit(k) \/ Abandon(k) \/ EnterValue(k) \/ Begin(k) \/ Move(k) \/ Ignore(k)
      BY <2>2, <3>1 DEF Edit, Abandon, EnterValue, Begin, Move, Ignore
    <3>2. CASE EnterAddress(k) BY <3>2 DEF EnterAddress
    <3>3. ASSUME NEW to \in PageTargets, Page(k, to) PROVE Near
      BY <2>3, <3>3, PageTargetsFacts DEF Page
    <3> QED BY <2>4, <3>1, <3>2, <3>3 DEF WindowKey
  <2>5. CASE PaintStep BY <2>2, <2>5 DEF PaintStep, Paint
  <2>6. CASE GetFocus \/ LostFocus BY <2>2, <2>6 DEF GetFocus, LostFocus
  <2>7. CASE UNCHANGED windowVars BY <2>2, <2>7 DEF windowVars
  <2> QED BY <1>1, <2>1, <2>3, <2>4, <2>5, <2>6, <2>7, NextCases
<1>2. EditorInv /\ [Next]_vars => EditorInv' /\ [Near]_vars BY <1>1, EditorStep
<1> QED BY <1>2, EditorInit, PTL DEF Spec, PagesDoNotWrap

-----------------------------------------------------------------------------
\* The invariant behind the properties about the driver.

\* The screen shows a page of the space, read as the driver's test of it says;
\* while it is up to date it is the page the window is on.
ScreenInv ==
    /\ screen.at \in 0 .. ADDR_SPACE - PAGE /\ screen.at % PAGE = 0
    /\ screen.via = "ports" => space = "IO-SPACE"
    /\ screen.via = "direct" => space = "MEM-SPACE" /\ Direct(screen.at)
    /\ screen.via \in {"ioremap", "all ones"} => ~Direct(screen.at)
    /\ painted =>
         /\ screen.at = base
         /\ screen.via = "nothing" => input = "INPUT_ADDR"
         /\ screen.corner = IF space = "IO-SPACE" THEN OffsetText ELSE OffsetText % CORNER_MOD

\* Ports are accessed by one window only, and not while an address is typed.
AccessInv ==
    /\ accessed \subseteq 0 .. ADDR_SPACE - 1
    /\ space = "MEM-SPACE" => accessed = {}
    /\ input = "INPUT_ADDR" /\ painted => accessed = {}

DriverInv == EditorInv /\ ScreenInv /\ AccessInv

\* Steps that do not involve the driver.
QuietStep ==
    /\ UNCHANGED <<space, screen, stored, accessed>>
    /\ painted' = FALSE \/ UNCHANGED <<painted, base, cursor, input>>

\* The key that writes the value typed.
WriteStep ==
    /\ TakeKey /\ UNCHANGED <<base, cursor>>
    /\ input = "INPUT_VALUE"
    /\ \/ space = "IO-SPACE" /\ display_mode = BYTE_MODE /\ OutB(wbuf, CellAddress)
       \/ space = "MEM-SPACE" /\ WriteMemValue /\ UNCHANGED accessed

LEMMA DriverCases ==
    ASSUME FlagInv, [Next]_vars
    PROVE  \/ QuietStep
           \/ WriteStep
           \/ space = "IO-SPACE" /\ IoPaint
           \/ space = "MEM-SPACE" /\ MemPaint /\ UNCHANGED accessed
<1>1. ASSUME NEW k, EditorKey(k), UNCHANGED accessed PROVE QuietStep
  BY <1>1 DEF EditorKey, TakeKey, QuietStep
<1>2. ASSUME TakeKey, UNCHANGED <<stored, accessed>> PROVE QuietStep
  BY <1>2 DEF TakeKey, QuietStep
<1>3. ASSUME GetFocus \/ LostFocus, UNCHANGED accessed PROVE QuietStep
  BY <1>3 DEF GetFocus, LostFocus, QuietStep
<1>4. ASSUME UNCHANGED vars PROVE QuietStep
  BY <1>4 DEF vars, windowVars, ioVars, QuietStep
<1>5. CASE space = "IO-SPACE" /\ IoNext
  <2>1. ASSUME NEW k, IoKey(k) PROVE QuietStep \/ WriteStep
    <3>1. CASE TakeKey /\ EnterValue(k) /\ WriteIOValue
      <4>1. CASE Known(WriteCommand)
        <5>1. display_mode = BYTE_MODE BY <4>1 DEF Known, WriteCommand
        <5> QED BY <1>5, <3>1, <4>1, <5>1 DEF WriteIOValue, WriteStep, EnterValue
      <4>2. CASE ~Known(WriteCommand)
        <5>1. UNCHANGED <<stored, accessed>> BY <3>1, <4>2 DEF WriteIOValue
        <5> QED BY <1>2, <3>1, <5>1
      <4> QED BY <4>1, <4>2
    <3>2. CASE /\ TakeKey /\ UNCHANGED <<stored, ioVars>>
               /\ Page(k, IF k = KEY_NPAGE THEN NextPage ELSE PreviousPage)
      BY <1>2, <3>2 DEF ioVars
    <3>3. CASE EditorKey(k) /\ UNCHANGED ioVars BY <1>1, <3>3 DEF ioVars
    <3> QED BY <2>1, <3>1, <3>2, <3>3 DEF IoKey
  <2>2. ASSUME IoFocus PROVE QuietStep BY <1>3, <2>2 DEF IoFocus, ioVars
  <2>3. ASSUME Exited PROVE QuietStep BY <1>4, <2>3 DEF Exited, vars
  <2> QED BY <1>5, <2>1, <2>2, <2>3 DEF IoNext
<1>6. CASE space = "MEM-SPACE" /\ MemNext /\ UNCHANGED ioVars
  <2>0. UNCHANGED accessed BY <1>6 DEF ioVars
  <2>1. ASSUME NEW k, MemKey(k) PROVE QuietStep \/ WriteStep
    <3>1. CASE EditorKey(k) BY <1>1, <2>0, <3>1
    <3>2. CASE /\ TakeKey /\ UNCHANGED stored
               /\ Page(k, IF k = KEY_NPAGE THEN PageDown ELSE PageUp)
      BY <1>2, <2>0, <3>2
    <3>3. CASE TakeKey /\ EnterValue(k) /\ WriteMemValue
      BY <1>6, <2>0, <3>3 DEF WriteStep, EnterValue
    <3> QED BY <2>1, <3>1, <3>2, <3>3 DEF MemKey
  <2> QED BY <1>3, <1>6, <2>0, <2>1 DEF MemNext
<1> QED BY <1>4, <1>5, <1>6 DEF Next

\* A cell of the page shown lies in the page.
LEMMA CellInPage ==
    ASSUME EditorInv
    PROVE  /\ CellAddress \in Nat /\ base <= CellAddress
           /\ CellAddress + CellSize(display_mode) <= base + PAGE
           /\ CellSize(display_mode) \in {1, 2, 4} /\ base \in Nat
           /\ CellAddress = OffsetText
<1> DEFINE c == CellSize(display_mode)
<1>1. FlagInv /\ CursorInv /\ BaseInv BY DEF EditorInv
<1>2. /\ c \in {1, 2, 4} /\ x \in 0 .. LINE - 1 /\ y \in 0 .. LINE - 1 /\ x % c = 0
      /\ LINE \in Nat \ {0} /\ LINE % 4 = 0
  BY <1>1, ModeFacts, GridAssumption, WindowAssumption DEF CursorInv
<1>3. x + c <= LINE
  <2> HIDE DEF c
  <2> QED BY <1>2, CellMoves
<1>4. base \in Nat BY <1>1, PageFacts, SpaceFacts DEF BaseInv, FlagInv
<1> DEFINE o == y * LINE + x
<1>5. o \in Nat /\ o + c <= PAGE
  <2> HIDE DEF c
  <2>1. x \in Nat /\ y \in Nat /\ c \in Nat /\ y <= LINE - 1 BY <1>2
  <2> QED BY <1>3, <2>1, PageFacts
<1>6. CellAddress = base + o
  <2>1. y * LINE \in Nat BY <1>2
  <2> QED BY <1>2, <1>4, <2>1 DEF CellAddress
<1>7. OffsetText = CellAddress BY DEF OffsetText, CellAddress
<1> HIDE DEF o, c
<1>8. CellAddress \in Nat /\ base <= CellAddress /\ CellAddress + c <= base + PAGE
  BY <1>2, <1>4, <1>5, <1>6, PageFacts
<1> QED BY <1>2, <1>4, <1>7, <1>8 DEF c

\* What the driver's range test says of an address, when the 32-bit sum does
\* not wrap: the page from there on is RAM.
LEMMA DirectFacts ==
    ASSUME FlagInv, NEW a \in Nat
    PROVE  /\ Direct(a) => a + PAGE < HighMem
           /\ a + PAGE < HighMem /\ a + PAGE + 1 < ADDR_SPACE => Direct(a)
           /\ Direct(a) => a + PAGE + 1 < ADDR_SPACE
<1>1. /\ PAGE \in Nat \ {0} /\ ADDR_SPACE \in Nat \ {0} /\ HighMem \in Nat
  BY PageFacts, SpaceFacts, MemAssumption DEF FlagInv
<1> DEFINE n == ADDR_SPACE
           m == PAGE
<1>2. Direct(a) <=> n - 1 - a > m /\ (a + m) % n < HighMem BY DEF Direct
<1>3. n \in Nat \ {0} /\ m \in Nat \ {0} BY <1>1
<1> HIDE DEF n, m
<1>4. a + m < n => (a + m) % n = a + m BY <1>3
<1>5. Direct(a) => a + m < HighMem BY <1>1, <1>2, <1>3, <1>4
<1>6. a + m < HighMem /\ a + m + 1 < n => Direct(a) BY <1>1, <1>2, <1>3, <1>4
<1>7. Direct(a) => a + m + 1 < n BY <1>2, <1>3
<1> QED BY <1>5, <1>6, <1>7 DEF n, m

\* A value in flight was sent for the cell of the screen it was typed on.  In
\* MEM-SPACE it is written if the page came through the direct mapping and
\* dropped if not, but for one byte of the space, and only where RAM covers all
\* of it: there the driver's test lets the page through and not its last cell.
WriteInv ==
    stored # NoWrite =>
        /\ screen.corner = IF space = "IO-SPACE" THEN stored.at ELSE stored.at % CORNER_MOD
        /\ stored.at >= screen.at /\ stored.at + stored.width <= screen.at + PAGE
        /\ space = "MEM-SPACE" =>
              \/ stored.done <=> screen.via = "direct"
              \/ HighMem >= ADDR_SPACE /\ stored.at = ADDR_SPACE - PAGE - 1

\* What a write did is inside RAM.
RamInv ==
    space = "MEM-SPACE" /\ stored.done => stored.at + stored.width <= HighMem

LEMMA PaintKeeps ==
    ASSUME DriverInv, EditorInv',
           \/ space = "IO-SPACE" /\ IoPaint
           \/ space = "MEM-SPACE" /\ MemPaint /\ UNCHANGED accessed
    PROVE  ScreenInv' /\ AccessInv' /\ stored' = NoWrite
<1>1. FlagInv /\ BaseInv /\ AccessInv BY DEF DriverInv, EditorInv
<1>2. base \in Nat /\ base + PAGE <= ADDR_SPACE /\ PAGE \in Nat /\ ADDR_SPACE \in Nat
  BY <1>1, PageFacts, SpaceFacts DEF BaseInv, FlagInv
<1>3. PICK corner, via :
        /\ Paint(corner, via)
        /\ corner = IF space = "IO-SPACE" THEN OffsetText ELSE OffsetText % CORNER_MOD
        /\ via = "ports" => space = "IO-SPACE"
        /\ via = "direct" => space = "MEM-SPACE" /\ Direct(base)
        /\ via \in {"ioremap", "all ones"} => ~Direct(base)
        /\ via = "nothing" => input = "INPUT_ADDR"
  <2>1. CASE space = "IO-SPACE" /\ IoPaint
    <3>1. Paint(OffsetText, IF input = "INPUT_ADDR" THEN "nothing" ELSE "ports")
      BY <2>1 DEF IoPaint
    <3>2. PICK via : /\ Paint(OffsetText, via)
                     /\ via \in {"nothing", "ports"} /\ (via = "nothing" => input = "INPUT_ADDR")
      BY <3>1
    <3>3. via \notin {"direct", "ioremap", "all ones"} BY <3>2
    <3> QED BY <2>1, <3>2, <3>3
  <2>2. CASE space = "MEM-SPACE" /\ MemPaint
    <3>1. PICK via : /\ Paint(OffsetText % CORNER_MOD, via)
                     /\ via # "ports" /\ (via = "direct" => Direct(base))
                     /\ via \in {"ioremap", "all ones"} => ~Direct(base)
                     /\ via = "nothing" => input = "INPUT_ADDR"
      <4>1. CASE input = "INPUT_ADDR" BY <2>2, <4>1 DEF MemPaint
      <4>2. CASE input # "INPUT_ADDR" /\ Direct(base) BY <2>2, <4>2 DEF MemPaint
      <4>3. CASE input # "INPUT_ADDR" /\ ~Direct(base) BY <2>2, <4>3 DEF MemPaint
      <4> QED BY <4>1, <4>2, <4>3
    <3> QED BY <2>2, <3>1
  <2> QED BY <2>1, <2>2
<1>4. /\ UNCHANGED <<space, base, x, y, display_mode, input>> /\ stored' = NoWrite
      /\ screen' = [at |-> base, corner |-> corner, via |-> via]
  BY <1>3 DEF Paint, cursor
<1>5. ScreenInv'
  <2>1. ADDR_SPACE' = ADDR_SPACE /\ OffsetText' = OffsetText
    BY <1>4 DEF ADDR_SPACE, OffsetText
  <2>2. Direct(base) <=> Direct(screen.at)'
    BY <1>4, <2>1 DEF Direct
  <2>3. screen'.at = base /\ screen'.corner = corner /\ screen'.via = via BY <1>4
  <2> QED BY <1>1, <1>3, <1>4, <2>1, <2>2, <2>3 DEF ScreenInv, BaseInv
<1>6. AccessInv'
  <2>1. CASE space = "IO-SPACE" /\ IoPaint
    <3>1. base .. base + PAGE - 1 \subseteq 0 .. ADDR_SPACE - 1 BY <1>2
    <3>2. accessed' \subseteq 0 .. ADDR_SPACE - 1 BY <2>1, <3>1 DEF IoPaint, PortsRead
    <3>3. input = "INPUT_ADDR" => accessed' = {} BY <2>1 DEF IoPaint
    <3> QED BY <1>4, <2>1, <3>2, <3>3 DEF AccessInv, ADDR_SPACE
  <2>2. CASE space = "MEM-SPACE" /\ MemPaint /\ UNCHANGED accessed
    BY <1>1, <1>4, <2>2 DEF AccessInv, ADDR_SPACE
  <2> QED BY <2>1, <2>2
<1> QED BY <1>4, <1>5, <1>6

LEMMA WriteKeeps ==
    ASSUME DriverInv, WriteStep
    PROVE  ScreenInv' /\ AccessInv' /\ WriteInv' /\ RamInv'
<1>1. /\ FlagInv /\ CursorInv /\ InputInv /\ BaseInv /\ ScreenInv /\ AccessInv /\ EditorInv
  BY DEF DriverInv, EditorInv
<1> DEFINE c == CellSize(display_mode)
           a == CellAddress
<1>2. /\ a \in Nat /\ base <= a /\ a + c <= base + PAGE /\ c \in {1, 2, 4}
      /\ base \in Nat /\ a = OffsetText
  BY <1>1, CellInPage
<1>3. /\ PAGE \in Nat \ {0} /\ PAGE >= 4 /\ ADDR_SPACE \in Nat /\ HighMem \in Nat
      /\ base + PAGE <= ADDR_SPACE /\ base % PAGE = 0
      /\ ADDR_SPACE % PAGE = 0 /\ HighMem % PAGE = 0
  BY <1>1, <1>2, PageFacts, SpaceFacts, MemAssumption DEF FlagInv, BaseInv
<1>4. /\ UNCHANGED <<space, foreground, screen, base>> /\ painted /\ painted' = FALSE
      /\ input = "INPUT_VALUE" /\ ADDR_SPACE' = ADDR_SPACE
  BY DEF WriteStep, TakeKey, ADDR_SPACE
<1>5. ScreenInv' BY <1>1, <1>4 DEF ScreenInv, Direct
<1>6. /\ screen.at = base
      /\ screen.corner = IF space = "IO-SPACE" THEN a ELSE a % CORNER_MOD
  BY <1>1, <1>2, <1>4 DEF ScreenInv
<1>7. CASE space = "IO-SPACE" /\ display_mode = BYTE_MODE /\ OutB(wbuf, CellAddress)
  <2>1. c = 1 BY <1>7 DEF CellSize, BYTE_MODE, WORD_MODE, DWORD_MODE
  <2>2. wbuf < ByteValues
    <3>1. Values = ByteValues
      BY <1>4, <1>7 DEF Values, CellValues, BYTE_MODE, WORD_MODE, DWORD_MODE
    <3>2. ByteValues \in Nat BY RadixAssumption DEF ByteValues
    <3> QED BY <1>1, <3>1, <3>2 DEF InputInv
  <2>3. stored' = [at |-> a, width |-> 1, done |-> TRUE] /\ accessed' = {a}
    BY <1>7, <2>2 DEF OutB
  <2>4. stored'.at = a /\ stored'.width = 1 /\ stored'.done = TRUE BY <2>3
  <2>5. a \in 0 .. ADDR_SPACE - 1
    <3> HIDE DEF a, c
    <3> QED BY <1>2, <1>3, <2>1
  <2>6. AccessInv' BY <1>4, <1>7, <2>3, <2>5 DEF AccessInv
  <2>7. a + 1 <= base + PAGE BY <1>2, <2>1
  <2>8. WriteInv' BY <1>2, <1>4, <1>6, <1>7, <2>4, <2>7 DEF WriteInv
  <2>9. RamInv' BY <1>4, <1>7 DEF RamInv
  <2> QED BY <1>5, <2>6, <2>8, <2>9
<1>8. CASE space = "MEM-SPACE" /\ WriteMemValue /\ UNCHANGED accessed
  <2>1. stored' = [at |-> a, width |-> c, done |-> Direct(a)]
    BY <1>8 DEF WriteMemValue
  <2>2. stored'.at = a /\ stored'.width = c /\ stored'.done = Direct(a) BY <2>1
  <2>3. AccessInv' BY <1>1, <1>4, <1>8 DEF AccessInv
  <2>4. Direct(a) => a + PAGE < HighMem BY <1>1, <1>2, DirectFacts
  <2>5. RamInv'
    <3>1. Direct(a) => a + c <= HighMem
      <4> HIDE DEF a, c
      <4> QED BY <1>2, <1>3, <2>4
    <3> QED BY <2>2, <3>1 DEF RamInv
  <2>a. screen.via = "direct" <=> Direct(base)
    <3>1. screen.via \notin {"nothing", "ports"} BY <1>1, <1>4, <1>8 DEF ScreenInv
    <3>2. screen.via \in {"direct", "ioremap", "all ones"}
      BY <1>1, <3>1 DEF EditorInv, ViaInv
    <3> QED BY <1>1, <1>6, <3>2 DEF ScreenInv
  <2>b. Direct(a) => Direct(base)
    <3>1. ASSUME Direct(a) PROVE base + PAGE < HighMem /\ base + PAGE + 1 < ADDR_SPACE
      <4>1. a + PAGE < HighMem /\ a + PAGE + 1 < ADDR_SPACE
        BY <1>1, <1>2, <3>1, DirectFacts
      <4> HIDE DEF a, c
      <4> QED BY <1>2, <1>3, <4>1
    <3> QED BY <1>1, <1>2, <3>1, DirectFacts
  <2>6. Direct(base) =>
          Direct(a) \/ (HighMem >= ADDR_SPACE /\ a = ADDR_SPACE - PAGE - 1)
    <3> SUFFICES ASSUME Direct(base)
                 PROVE  Direct(a) \/ (HighMem >= ADDR_SPACE /\ a = ADDR_SPACE - PAGE - 1)
      OBVIOUS
    <3>1. Direct(base) OBVIOUS
    <3>2. base + PAGE < HighMem /\ base + PAGE + 1 < ADDR_SPACE
      BY <1>1, <1>2, <3>1, DirectFacts
    <3>3. base + PAGE \in Nat /\ (base + PAGE) % PAGE = 0
      BY <1>2, <1>3, NextBlock
    <3>4. (base + PAGE) + PAGE <= HighMem /\ (base + PAGE) + PAGE <= ADDR_SPACE
      <4> DEFINE m == PAGE
                 b == base + PAGE
                 n == ADDR_SPACE
      <4>1. /\ m \in Nat \ {0} /\ b \in Nat /\ n \in Nat /\ HighMem \in Nat
            /\ b % m = 0 /\ n % m = 0 /\ HighMem % m = 0
        BY <1>3, <3>3
      <4>2. b < HighMem /\ b + 1 < n BY <3>2
      <4> HIDE DEF m, b, n
      <4>3. b < n BY <4>1, <4>2
      <4>4. b + m <= HighMem BY <4>1, <4>2, Multiples
      <4>5. b + m <= n BY <4>1, <4>3, Multiples
      <4> QED BY <4>4, <4>5 DEF m, b, n
    <3>5. a + PAGE < HighMem /\ a + PAGE + 1 <= ADDR_SPACE
      <4> HIDE DEF a, c
      <4> QED BY <1>2, <1>3, <3>4
    <3>6. CASE a + PAGE + 1 < ADDR_SPACE BY <1>1, <1>2, <3>5, <3>6, DirectFacts
    <3>7. CASE a + PAGE + 1 = ADDR_SPACE
      <4> HIDE DEF a, c
      <4> QED BY <1>2, <1>3, <3>5, <3>7
    <3>8. a + PAGE + 1 \in Nat
      <4> HIDE DEF a, c
      <4> QED BY <1>2, <1>3
    <3> QED BY <1>3, <3>5, <3>6, <3>7, <3>8
  <2>7. WriteInv'
    <3>1. \/ Direct(a) <=> screen.via = "direct"
          \/ HighMem >= ADDR_SPACE /\ a = ADDR_SPACE - PAGE - 1
      BY <2>a, <2>b, <2>6
    <3> QED BY <1>2, <1>4, <1>6, <1>8, <2>2, <3>1 DEF WriteInv
  <2> QED BY <1>5, <2>3, <2>5, <2>7
<1> QED BY <1>7, <1>8 DEF WriteStep

SpaceInv == DriverInv /\ WriteInv /\ RamInv

LEMMA SpaceStep ==
    ASSUME SpaceInv, [Next]_vars
    PROVE  SpaceInv'
<1>1. /\ EditorInv /\ FlagInv /\ ScreenInv /\ AccessInv /\ WriteInv /\ RamInv /\ DriverInv
  BY DEF SpaceInv, DriverInv, EditorInv
<1>2. EditorInv' BY <1>1, EditorStep
<1>3. CASE QuietStep
  <2>1. /\ UNCHANGED <<space, screen, stored, accessed>> /\ ADDR_SPACE' = ADDR_SPACE
    BY <1>3 DEF QuietStep, ADDR_SPACE
  <2>2. WriteInv' /\ RamInv' BY <1>1, <2>1 DEF WriteInv, RamInv
  <2>3. CASE painted' = FALSE
    BY <1>1, <1>2, <2>1, <2>2, <2>3 DEF SpaceInv, DriverInv, ScreenInv, AccessInv, Direct
  <2>4. CASE UNCHANGED <<painted, base, cursor, input>>
    <3>1. OffsetText' = OffsetText BY <2>4 DEF OffsetText, cursor
    <3>2. ScreenInv' BY <1>1, <2>1, <2>4, <3>1 DEF ScreenInv, Direct
    <3>3. AccessInv' BY <1>1, <2>1, <2>4 DEF AccessInv
    <3> QED BY <1>2, <2>2, <3>2, <3>3 DEF SpaceInv, DriverInv
  <2> QED BY <1>3, <2>3, <2>4 DEF QuietStep
<1>4. CASE WriteStep BY <1>1, <1>2, <1>4, WriteKeeps DEF SpaceInv, DriverInv
<1>5. CASE \/ space = "IO-SPACE" /\ IoPaint
           \/ space = "MEM-SPACE" /\ MemPaint /\ UNCHANGED accessed
  <2>1. ScreenInv' /\ AccessInv' /\ stored' = NoWrite
    BY <1>1, <1>2, <1>5, PaintKeeps
  <2>2. WriteInv' BY <2>1 DEF WriteInv, NoWrite
  <2>3. RamInv' BY <2>1 DEF RamInv, NoWrite
  <2> QED BY <1>2, <2>1, <2>2, <2>3 DEF SpaceInv, DriverInv
<1> QED BY <1>1, <1>3, <1>4, <1>5, DriverCases

LEMMA SpaceInit == Init => SpaceInv
<1> SUFFICES ASSUME Init PROVE SpaceInv OBVIOUS
<1>1. /\ EditorInv BY EditorInit
<1>2. /\ screen = [at |-> 0, corner |-> 0, via |-> "nothing"] /\ painted = FALSE
      /\ stored = NoWrite /\ accessed = {} /\ space \in Spaces
  BY DEF Init, WindowInit, IoInit
<1>3. /\ PAGE \in Nat \ {0} /\ ADDR_SPACE \in Nat \ {0} /\ PAGE <= ADDR_SPACE
  BY <1>2, PageFacts, SpaceFacts
<1>4. ScreenInv
  <2>1. 0 \in 0 .. ADDR_SPACE - PAGE BY <1>3
  <2>2. 0 % PAGE = 0
    <3> DEFINE m == PAGE
    <3>1. m \in Nat \ {0} BY <1>3
    <3> HIDE DEF m
    <3>2. 0 % m = 0 BY <3>1
    <3> QED BY <3>2 DEF m
  <2>3. screen.at = 0 /\ screen.via = "nothing" BY <1>2
  <2> QED BY <1>2, <2>1, <2>2, <2>3 DEF ScreenInv
<1>5. AccessInv BY <1>2 DEF AccessInv
<1>6. WriteInv /\ RamInv BY <1>2 DEF WriteInv, RamInv, NoWrite
<1> QED BY <1>1, <1>4, <1>5, <1>6 DEF SpaceInv, DriverInv

LEMMA SpaceInvariant == Spec => []SpaceInv
<1> QED BY SpaceInit, SpaceStep, PTL DEF Spec

\* PortsExist: whatever is typed and wherever the page keys lead, the ports the
\* driver is asked for are ports of the space (lfdd/libio.c tests none).
THEOREM PortsAlwaysExist == Spec => []PortsExist
<1>1. SpaceInv => PortsExist BY DEF SpaceInv, DriverInv, AccessInv, PortsExist
<1> QED BY <1>1, SpaceInvariant, PTL

\* DirectInRam: the range test of lfdd/libmem.c keeps every access through the
\* direct mapping inside RAM, the sum that wraps included.
THEOREM AlwaysInRam == Spec => []DirectInRam
<1>1. ASSUME SpaceInv PROVE DirectInRam
  <2>1. FlagInv /\ ScreenInv /\ RamInv
    BY <1>1 DEF SpaceInv, DriverInv, EditorInv
  <2>2. /\ PAGE \in Nat /\ HighMem \in Nat /\ screen.at \in Nat
    <3>1. PAGE \in Nat /\ ADDR_SPACE \in Nat /\ HighMem \in Nat
      BY <2>1, PageFacts, SpaceFacts, MemAssumption DEF FlagInv
    <3>2. screen.at \in 0 .. ADDR_SPACE - PAGE BY <2>1 DEF ScreenInv
    <3> QED BY <3>1, <3>2
  <2>3. ASSUME screen.via = "direct" PROVE screen.at + PAGE <= HighMem
    <3>1. screen.at + PAGE < HighMem BY <2>1, <2>2, <2>3, DirectFacts DEF ScreenInv
    <3> QED BY <2>2, <3>1
  <2> QED BY <2>1, <2>3 DEF RamInv, DirectInRam
<1> QED BY <1>1, SpaceInvariant, PTL

\* TypedValueLands: in every cell width, a value is sent for the address shown
\* when it was typed, and for bytes of that page only (WriteIOValue,
\* WriteMemValue), wherever RAM ends.
THEOREM ValuesLand == Spec => []TypedValueLands
<1>1. SpaceInv => TypedValueLands
  BY DEF SpaceInv, WriteInv, TypedValueLands
<1> QED BY <1>1, SpaceInvariant, PTL

\* TestsAgree, where RAM does not reach to the top of the 32-bit space: the
\* driver writes what was typed on pages it reads as RAM, and drops the rest.
THEOREM TestsDoAgree ==
    ASSUME HighMem < ADDR_PAGES["MEM-SPACE"] * PAGE
    PROVE  Spec => []TestsAgree
<1>1. ASSUME SpaceInv PROVE TestsAgree
  <2>1. FlagInv /\ WriteInv
    BY <1>1 DEF SpaceInv, DriverInv, EditorInv
  <2>2. space = "MEM-SPACE" => ~(HighMem >= ADDR_SPACE)
    <3> SUFFICES ASSUME space = "MEM-SPACE" PROVE ~(HighMem >= ADDR_SPACE) OBVIOUS
    <3>1. ADDR_SPACE \in Nat /\ HighMem \in Nat BY <2>1, SpaceFacts, MemAssumption DEF FlagInv
    <3>2. HighMem < ADDR_SPACE BY DEF ADDR_SPACE
    <3> QED BY <3>1, <3>2
  <2> QED BY <2>1, <2>2 DEF WriteInv, TestsAgree
<1> QED BY <1>1, SpaceInvariant, PTL

\* And wherever RAM ends, the two tests differ for one byte at most: the last of
\* the last page but one, on a page read as RAM but dropped (the range test of
\* lfdd/libmem.c, made for the cell's own address).
THEOREM TestsDifferOnce == Spec => [](TestsAgree \/ stored.at = ADDR_SPACE - PAGE - 1)
<1>1. SpaceInv => TestsAgree \/ stored.at = ADDR_SPACE - PAGE - 1
  BY DEF SpaceInv, WriteInv, TestsAgree
<1> QED BY <1>1, SpaceInvariant, PTL

=============================================================================
