--------------------------- MODULE CmosSpace_proofs ---------------------------
(***************************************************************************)
(* Proofs about the CMOS-SPACE window, for any size of the grid and any    *)
(* keys: what holds for any number of lfdk processes, and what holds while *)
(* only one of them has the window in front.                               *)
(***************************************************************************)
EXTENDS CmosSpace, Blocks_proofs

Cells == 0 .. RANGE_BYTES - 1

Stages == {"init", "background", "read_index", "read_data", "key", "write_index",
           "write_data", "gone"}

\* Each process's variables, the loop's counter short of the end while it runs.
EditorInv ==
    /\ x \in [Procs -> 0 .. LINE - 1] /\ y \in [Procs -> 0 .. LINE - 1]
    /\ input \in [Procs -> BOOLEAN] /\ wbuf \in [Procs -> 0 .. ByteValues - 1]

LoopInv ==
    /\ index \in Cells
    /\ pc \in [Procs -> Stages]
    /\ i \in [Procs -> 0 .. RANGE_BYTES]
    /\ mass_buf \in [Procs -> [Cells -> Int]]
    /\ landed \in [Procs -> [aimed : Int, went : Int]]
    /\ \A p \in Procs : pc[p] \in {"read_index", "read_data"} => i[p] \in Cells

CmosInv == EditorInv /\ LoopInv

\* The window of p is in the foreground of its own lfdk.
InFront(p) == pc[p] \notin {"init", "background", "gone"}

\* At most one of the windows is in front at a time; the others may wait, and
\* which one it is may change.
InTurn == \A p, q \in Procs : InFront(p) /\ InFront(q) => p = q

OneCmosProc == \A p, q \in Procs : p = q

\* Nobody moves the index between p's two port accesses.
OwnIndex(p) ==
    /\ pc[p] = "read_data" => index = i[p]
    /\ pc[p] = "write_data" => index = Aimed(p)
    /\ pc[p] \in {"read_index", "read_data"} =>
          \A c \in Cells : c < i[p] => mass_buf[p][c] = c
    /\ pc[p] = "key" => \A c \in Cells : mass_buf[p][c] = c
    /\ landed[p].went = landed[p].aimed

TurnInv == \A p \in Procs : OwnIndex(p)

-----------------------------------------------------------------------------
\* The grid, and the values of a byte.
LEMMA CmosFacts ==
    /\ LINE \in Nat \ {0} /\ RANGE_BYTES \in Nat \ {0} /\ 0 \in Cells
    /\ \A u, v \in 0 .. LINE - 1 : u * LINE + v \in Cells
    /\ RADIX \in Nat \ {0}
    /\ ByteValues \in Nat \ {0} /\ ByteValues % RADIX = 0 /\ RADIX <= ByteValues
    /\ 0 \in 0 .. LINE - 1 /\ 0 \in 0 .. ByteValues - 1
<1>1. LINE \in Nat \ {0} /\ RADIX \in Nat \ {0} BY GridAssumption, RadixAssumption
<1>2. \A u, v \in 0 .. LINE - 1 : u * LINE + v \in Nat /\ u * LINE + v + 1 <= RANGE_BYTES
  BY <1>1, GridFacts DEF RANGE_BYTES
<1>3. RANGE_BYTES \in Nat BY <1>1 DEF RANGE_BYTES
<1>4. 0 \in 0 .. LINE - 1 BY <1>1
<1>5. 0 * LINE + 0 \in Nat /\ 0 * LINE + 0 + 1 <= RANGE_BYTES BY <1>2, <1>4
<1>6. RANGE_BYTES \in Nat \ {0} /\ 0 \in Cells BY <1>1, <1>3, <1>5 DEF Cells
<1>7. \A u, v \in 0 .. LINE - 1 : u * LINE + v \in Cells
  <2> SUFFICES ASSUME NEW u \in 0 .. LINE - 1, NEW v \in 0 .. LINE - 1
               PROVE  u * LINE + v \in Cells
    OBVIOUS
  <2> DEFINE a == u * LINE + v
  <2>1. a \in Nat /\ a + 1 <= RANGE_BYTES BY <1>2
  <2> HIDE DEF a
  <2>2. a \in Cells BY <1>3, <2>1 DEF Cells
  <2> QED BY <2>2 DEF a
<1>8. ByteValues \in Nat \ {0} /\ ByteValues % RADIX = 0 /\ RADIX <= ByteValues
  <2>1. ByteValues = RADIX * RADIX BY DEF ByteValues
  <2> QED BY <1>1, <2>1, DigitPowers
<1>9. \A n \in Nat \ {0} : 0 \in 0 .. n - 1 OBVIOUS
<1> QED BY <1>1, <1>4, <1>6, <1>7, <1>8, <1>9

LEMMA CmosInit0 == Init => CmosInv /\ TurnInv
<1> SUFFICES ASSUME Init PROVE CmosInv /\ TurnInv
  OBVIOUS
<1>1. index \in Cells BY DEF Init, Cells
<1>2. EditorInv BY CmosFacts DEF Init, EditorInv
<1>3. 0 \in 0 .. RANGE_BYTES BY CmosFacts
<1>4. LoopInv BY <1>1, <1>3 DEF Init, LoopInv, Stages, NoWrite, Cells
<1>5. TurnInv BY DEF Init, TurnInv, OwnIndex, NoWrite
<1> QED BY <1>2, <1>4, <1>5 DEF CmosInv

\* A key keeps the cursor on the grid and what is typed in a byte.
LEMMA EditKeyStep ==
    ASSUME EditorInv, NEW p \in Procs, NEW k \in Keys, EditKey(p, k)
    PROVE  EditorInv'
<1>1. IsXDigit(k) => DigitOf(k) \in Nat /\ DigitOf(k) < RADIX
  BY GridAssumption DEF IsXDigit, DigitOf
<1>2. /\ LINE \in Nat \ {0} /\ RADIX \in Nat \ {0}
      /\ ByteValues \in Nat \ {0} /\ ByteValues % RADIX = 0 /\ RADIX <= ByteValues
  BY CmosFacts
<1>3. wbuf[p] \in 0 .. ByteValues - 1 /\ x[p] \in 0 .. LINE - 1 /\ y[p] \in 0 .. LINE - 1
  BY DEF EditorInv
<1>4. ~IsXDigit(KEY_BACKSPACE) BY DEF IsXDigit, KEY_BACKSPACE
<1> DEFINE n == ByteValues
<1> HIDE DEF n
<1>5. n \in Nat \ {0} /\ n % RADIX = 0 /\ RADIX <= n /\ wbuf[p] \in Nat /\ wbuf[p] < n
  BY <1>2, <1>3 DEF n
<1>6. 0 \in 0 .. n - 1 BY <1>5
<1>7. DropDigit(wbuf[p]) \in 0 .. n - 1
  <2>1. wbuf[p] \div RADIX \in 0 .. wbuf[p] BY <1>2, <1>5, DropBelow
  <2> QED BY <1>5, <2>1 DEF DropDigit
<1>8. IsXDigit(k) => ShiftIn(wbuf[p], DigitOf(k), n) \in 0 .. n - 1
  BY <1>1, <1>2, <1>5, ShiftBelow DEF ShiftIn
<1>9. IsXDigit(k) => DigitOf(k) \in 0 .. n - 1 BY <1>1, <1>2, <1>5
<1>10. CASE input[p]
  <2>1. /\ input' = [input EXCEPT ![p] = k = KEY_BACKSPACE \/ IsXDigit(k)]
        /\ UNCHANGED <<x, y>>
    BY <1>10 DEF EditKey
  <2>2. \E v \in 0 .. n - 1 : wbuf' = [wbuf EXCEPT ![p] = v]
    <3>1. CASE k = KEY_BACKSPACE
      BY <1>4, <1>7, <1>10, <3>1 DEF EditKey
    <3>2. CASE IsXDigit(k)
      BY <1>4, <1>8, <1>10, <3>2 DEF EditKey, n
    <3>3. CASE k # KEY_BACKSPACE /\ ~IsXDigit(k)
      BY <1>6, <1>10, <3>3 DEF EditKey
    <3> QED BY <3>1, <3>2, <3>3
  <2> QED BY <2>1, <2>2 DEF EditorInv, n
<1>11. CASE ~input[p]
  <2>1. \E v \in 0 .. LINE - 1 : x' = [x EXCEPT ![p] = v]
    <3>1. CursorLeft(x[p], BYTE_MODE) \in 0 .. LINE - 1
      BY <1>2, <1>3 DEF CursorLeft, CellSize, BYTE_MODE
    <3>2. CursorRight(x[p], BYTE_MODE, LINE) \in 0 .. LINE - 1
      BY <1>2, <1>3 DEF CursorRight, CellSize, BYTE_MODE
    <3>3. KEY_LEFT # KEY_RIGHT BY DEF KEY_LEFT, KEY_RIGHT
    <3> QED BY <1>3, <1>11, <3>1, <3>2, <3>3 DEF EditKey
  <2>2. \E v \in 0 .. LINE - 1 : y' = [y EXCEPT ![p] = v]
    <3>1. y[p] > 0 => y[p] - 1 \in 0 .. LINE - 1 BY <1>2, <1>3
    <3>2. y[p] < LINE - 1 => y[p] + 1 \in 0 .. LINE - 1 BY <1>2, <1>3
    <3>3. KEY_UP # KEY_DOWN BY DEF KEY_UP, KEY_DOWN
    <3> QED BY <1>3, <1>11, <3>1, <3>2, <3>3 DEF EditKey
  <2>3. input' = [input EXCEPT ![p] = IsXDigit(k)] BY <1>11 DEF EditKey
  <2>4. \E v \in 0 .. n - 1 : wbuf' = [wbuf EXCEPT ![p] = v]
    BY <1>5, <1>9, <1>11 DEF EditKey
  <2>5. IsXDigit(k) \in BOOLEAN BY DEF IsXDigit
  <2> QED BY <2>1, <2>2, <2>3, <2>4, <2>5 DEF EditorInv, n
<1> QED BY <1>10, <1>11

\* Starting the loop over the cells, with nothing typed or what there was.
LEMMA PaintStart ==
    ASSUME CmosInv, NEW p \in Procs, StartPaint(p), UNCHANGED <<index, mass_buf>>,
           EditorInv', landed' \in [Procs -> [aimed : Int, went : Int]]
    PROVE  CmosInv'
<1>1. i' = [i EXCEPT ![p] = 0] /\ pc' = [pc EXCEPT ![p] = "read_index"]
  BY DEF StartPaint, Goto
<1>2. 0 \in 0 .. RANGE_BYTES /\ 0 \in Cells BY CmosFacts
<1> QED BY <1>1, <1>2 DEF CmosInv, LoopInv, Stages

\* What the steps of any number of processes keep.
LEMMA CmosStep == CmosInv /\ [Next]_vars => CmosInv'
<1> SUFFICES ASSUME CmosInv, [Next]_vars PROVE CmosInv'
  OBVIOUS
<1>1. ASSUME NEW p \in Procs, ForgetInput(p), UNCHANGED <<x, y>> PROVE EditorInv'
  BY <1>1, CmosFacts DEF ForgetInput, CmosInv, EditorInv
<1>2. UNCHANGED editVars => EditorInv' BY DEF CmosInv, EditorInv, editVars
<1>3. landed \in [Procs -> [aimed : Int, went : Int]] BY DEF CmosInv, LoopInv
<1>4. RANGE_BYTES \in Nat \ {0} BY CmosFacts
<1>5. ASSUME NEW p \in Procs, CmosInit(p) PROVE CmosInv'
  BY <1>2, <1>5 DEF CmosInit, Goto, CmosInv, LoopInv, Stages
<1>6. ASSUME NEW p \in Procs, GetFocus(p) PROVE CmosInv'
  BY <1>1, <1>3, <1>6, PaintStart DEF GetFocus
<1>7. ASSUME NEW p \in Procs, LostFocus(p) PROVE CmosInv'
  BY <1>1, <1>7 DEF LostFocus, Goto, CmosInv, LoopInv, Stages
<1>8. ASSUME NEW p \in Procs, NoKey(p) PROVE CmosInv'
  BY <1>2, <1>3, <1>8, PaintStart DEF NoKey
<1>9. ASSUME NEW p \in Procs, ReadIndex(p) PROVE CmosInv'
  BY <1>2, <1>9 DEF ReadIndex, Goto, CmosInv, LoopInv, Stages, NoWrite
<1>10. ASSUME NEW p \in Procs, ReadData(p) PROVE CmosInv'
  <2>1. i[p] \in Cells /\ index \in Int
    BY <1>10 DEF ReadData, CmosInv, LoopInv, Cells
  <2>2. /\ i[p] + 1 \in 0 .. RANGE_BYTES
        /\ i[p] + 1 < RANGE_BYTES => i[p] + 1 \in Cells
    BY <1>4, <2>1 DEF Cells
  <2>3. /\ i' = [i EXCEPT ![p] = i[p] + 1]
        /\ pc' = [pc EXCEPT ![p] = IF i[p] + 1 < RANGE_BYTES THEN "read_index" ELSE "key"]
        /\ mass_buf' = [mass_buf EXCEPT ![p] = [mass_buf[p] EXCEPT ![i[p]] = index]]
        /\ UNCHANGED <<index, landed, editVars>>
    BY <1>10 DEF ReadData, Goto, CmosInv, LoopInv
  <2>4. mass_buf' \in [Procs -> [Cells -> Int]]
    BY <2>1, <2>3 DEF CmosInv, LoopInv
  <2>5. /\ i' \in [Procs -> 0 .. RANGE_BYTES] /\ pc' \in [Procs -> Stages]
        /\ \A q \in Procs : pc'[q] \in {"read_index", "read_data"} => i'[q] \in Cells
    BY <2>2, <2>3 DEF CmosInv, LoopInv, Stages
  <2> QED BY <1>2, <2>3, <2>4, <2>5 DEF CmosInv, LoopInv
<1>11. ASSUME NEW p \in Procs, WriteIndex(p) PROVE CmosInv'
  <2>1. Aimed(p) \in Cells BY CmosFacts DEF Aimed, CmosInv, EditorInv
  <2> QED BY <1>2, <1>11, <2>1 DEF WriteIndex, Goto, CmosInv, LoopInv, Stages
<1>12. ASSUME NEW p \in Procs, WriteData(p) PROVE CmosInv'
  <2>1. Aimed(p) \in Int /\ index \in Int
    BY CmosFacts DEF Aimed, CmosInv, EditorInv, LoopInv, Cells
  <2>2. landed' \in [Procs -> [aimed : Int, went : Int]]
    BY <1>3, <1>12, <2>1 DEF WriteData
  <2> QED BY <1>1, <1>12, <2>2, PaintStart DEF WriteData
<1>13. ASSUME NEW p \in Procs, NEW k \in WindowKeys, CmosKey(p, k) PROVE CmosInv'
  <2>1. CASE CommitValue(p)
    BY <1>2, <1>13, <2>1 DEF CmosKey, CommitValue, Goto, CmosInv, LoopInv, Stages
  <2>2. CASE EditKey(p, k) /\ StartPaint(p) /\ UNCHANGED <<index, mass_buf, landed>>
    BY <1>3, <1>13, <2>2, EditKeyStep, PaintStart DEF CmosInv, WindowKeys
  <2> QED BY <1>13, <2>1, <2>2 DEF CmosKey
<1>14. CASE UNCHANGED vars \/ Done
  BY <1>14 DEF vars, editVars, Done, CmosInv, EditorInv, LoopInv
<1> QED BY <1>5, <1>6, <1>7, <1>8, <1>9, <1>10, <1>11, <1>12, <1>13, <1>14 DEF Next

\* A step of p that leaves the index alone, or that is made while only p is in
\* front, keeps what the others have.
LEMMA OthersKeep ==
    ASSUME CmosInv, TurnInv, NEW p \in Procs, OwnIndex(p)',
           UNCHANGED index \/ \A q \in Procs \ {p} : ~InFront(q),
           \A q \in Procs \ {p} :
               UNCHANGED <<pc[q], x[q], y[q], i[q], mass_buf[q], landed[q]>>
    PROVE  TurnInv'
<1> SUFFICES ASSUME NEW q \in Procs, q # p PROVE OwnIndex(q)'
  BY DEF TurnInv
<1>1. OwnIndex(q) BY DEF TurnInv
<1>2. UNCHANGED <<pc[q], x[q], y[q], i[q], mass_buf[q], landed[q]>> OBVIOUS
<1>3. UNCHANGED index \/ pc[q] \notin {"read_data", "write_data"} BY DEF InFront
<1> QED BY <1>1, <1>2, <1>3 DEF OwnIndex, Aimed

\* What the steps of processes keep that take turns.
LEMMA TurnStep == InTurn /\ CmosInv /\ TurnInv /\ [Next]_vars => TurnInv'
<1> SUFFICES ASSUME InTurn, CmosInv, TurnInv, [Next]_vars PROVE TurnInv'
  OBVIOUS
<1>1. ASSUME NEW p \in Procs, StartPaint(p), landed'[p].went = landed'[p].aimed
      PROVE  OwnIndex(p)'
  <2>1. i'[p] = 0 /\ pc'[p] = "read_index"
    BY <1>1 DEF StartPaint, Goto, CmosInv, LoopInv
  <2>2. \A c \in Cells : ~(c < 0) BY DEF Cells
  <2> QED BY <1>1, <2>1, <2>2 DEF OwnIndex
<1>2. \A p \in Procs : landed[p].went = landed[p].aimed BY DEF TurnInv, OwnIndex
<1>3. ASSUME NEW p \in Procs, CmosInit(p) \/ LostFocus(p) PROVE TurnInv'
  <2>1. pc'[p] \in {"background", "gone"} /\ UNCHANGED landed
    BY <1>3 DEF CmosInit, LostFocus, Goto, CmosInv, LoopInv
  <2>2. OwnIndex(p)' BY <1>2, <2>1 DEF OwnIndex
  <2> QED BY <1>3, <2>2, OthersKeep DEF CmosInit, LostFocus, ForgetInput, Goto, editVars,
                                        CmosInv, LoopInv
<1>4. ASSUME NEW p \in Procs, GetFocus(p) \/ NoKey(p) PROVE TurnInv'
  <2>1. OwnIndex(p)' BY <1>1, <1>2, <1>4 DEF GetFocus, NoKey
  <2> QED BY <1>4, <2>1, OthersKeep DEF GetFocus, NoKey, StartPaint, Goto, editVars,
                                        CmosInv, LoopInv
<1>5. ASSUME NEW p \in Procs, ReadIndex(p) PROVE TurnInv'
  <2>1. /\ pc[p] = "read_index" /\ pc'[p] = "read_data" /\ index' = i[p]
        /\ landed'[p].went = landed'[p].aimed /\ UNCHANGED <<i, mass_buf>>
    BY <1>5 DEF ReadIndex, Goto, CmosInv, LoopInv, NoWrite
  <2>2. OwnIndex(p) BY DEF TurnInv
  <2>3. OwnIndex(p)' BY <2>1, <2>2 DEF OwnIndex
  <2>4. \A q \in Procs \ {p} : ~InFront(q) BY <2>1 DEF InTurn, InFront
  <2> QED BY <1>5, <2>3, <2>4, OthersKeep DEF ReadIndex, Goto, editVars, CmosInv, LoopInv
<1>6. ASSUME NEW p \in Procs, ReadData(p) PROVE TurnInv'
  <2>1. /\ pc[p] = "read_data" /\ index = i[p] /\ i[p] \in Cells
        /\ \A c \in Cells : c < i[p] => mass_buf[p][c] = c
    BY <1>6 DEF ReadData, CmosInv, LoopInv, TurnInv, OwnIndex
  <2>2. /\ i'[p] = i[p] + 1 /\ UNCHANGED landed
        /\ pc'[p] = IF i[p] + 1 < RANGE_BYTES THEN "read_index" ELSE "key"
        /\ mass_buf'[p] = [mass_buf[p] EXCEPT ![i[p]] = index]
    BY <1>6 DEF ReadData, Goto, CmosInv, LoopInv
  <2>3. mass_buf[p] \in [Cells -> Int] BY DEF CmosInv, LoopInv
  <2>4. \A c \in Cells : c < i[p] + 1 => mass_buf'[p][c] = c
    <3> SUFFICES ASSUME NEW c \in Cells, c < i[p] + 1 PROVE mass_buf'[p][c] = c
      OBVIOUS
    <3>1. c = i[p] \/ c < i[p] BY <2>1 DEF Cells
    <3> QED BY <2>1, <2>2, <2>3, <3>1
  <2>5. i[p] + 1 >= RANGE_BYTES => \A c \in Cells : c < i[p] + 1
    BY <2>1, CmosFacts DEF Cells
  <2>6. pc'[p] = "key" => \A c \in Cells : mass_buf'[p][c] = c
    BY <2>1, <2>2, <2>4, <2>5, CmosFacts DEF Cells
  <2>7. pc'[p] \in {"read_index", "key"} BY <2>2
  <2>8. \A c \in Cells : c < i'[p] => mass_buf'[p][c] = c BY <2>2, <2>4
  <2>9. OwnIndex(p)' BY <1>2, <2>2, <2>6, <2>7, <2>8 DEF OwnIndex
  <2> QED BY <1>6, <2>9, OthersKeep DEF ReadData, Goto, editVars, CmosInv, LoopInv
<1>7. ASSUME NEW p \in Procs, WriteIndex(p) PROVE TurnInv'
  <2>1. /\ pc[p] = "write_index" /\ pc'[p] = "write_data" /\ index' = Aimed(p)
        /\ UNCHANGED <<x, y, landed>>
    BY <1>7 DEF WriteIndex, Goto, CmosInv, LoopInv, editVars
  <2>2. OwnIndex(p)' BY <1>2, <2>1 DEF OwnIndex, Aimed
  <2>3. \A q \in Procs \ {p} : ~InFront(q) BY <2>1 DEF InTurn, InFront
  <2> QED BY <1>7, <2>2, <2>3, OthersKeep DEF WriteIndex, Goto, editVars, CmosInv, LoopInv
<1>8. ASSUME NEW p \in Procs, WriteData(p) PROVE TurnInv'
  <2>1. index = Aimed(p) BY <1>8 DEF WriteData, TurnInv, OwnIndex
  <2>2. landed'[p] = [aimed |-> Aimed(p), went |-> index]
    BY <1>8 DEF WriteData, CmosInv, LoopInv
  <2>3. OwnIndex(p)' BY <1>1, <1>8, <2>1, <2>2 DEF WriteData
  <2> QED BY <1>8, <2>3, OthersKeep DEF WriteData, ForgetInput, StartPaint, Goto, CmosInv,
                                        LoopInv
<1>9. ASSUME NEW p \in Procs, NEW k \in WindowKeys, CmosKey(p, k) PROVE TurnInv'
  <2>1. CASE CommitValue(p)
    <3>1. pc'[p] = "write_index" /\ UNCHANGED landed
      BY <2>1 DEF CommitValue, Goto, CmosInv, LoopInv
    <3>2. OwnIndex(p)' BY <1>2, <3>1 DEF OwnIndex
    <3> QED BY <2>1, <3>2, OthersKeep DEF CommitValue, Goto, editVars, CmosInv, LoopInv
  <2>2. CASE EditKey(p, k) /\ StartPaint(p) /\ UNCHANGED <<index, mass_buf, landed>>
    <3>1. OwnIndex(p)' BY <1>1, <1>2, <2>2
    <3>2. \A q \in Procs \ {p} : UNCHANGED <<x[q], y[q]>>
      BY <2>2 DEF EditKey, CmosInv, EditorInv
    <3> QED BY <2>2, <3>1, <3>2, OthersKeep DEF StartPaint, Goto, CmosInv, LoopInv
  <2> QED BY <1>9, <2>1, <2>2 DEF CmosKey
<1>10. CASE UNCHANGED vars \/ Done
  BY <1>10 DEF vars, editVars, Done, TurnInv, OwnIndex, Aimed
<1> QED BY <1>3, <1>4, <1>5, <1>6, <1>7, <1>8, <1>9, <1>10 DEF Next

-----------------------------------------------------------------------------
\* The cursor stays on the grid and the index on its cells, for any number of
\* processes (lfdk/libcmos.c).
THEOREM CmosTypesCorrect == Spec => []CmosTypeOK
<1>1. CmosInv => CmosTypeOK
  BY DEF CmosInv, EditorInv, LoopInv, Cells, CmosTypeOK
<1> QED BY <1>1, CmosInit0, CmosStep, PTL DEF Spec

\* Any number of processes may have the window, as long as the user has it in
\* front in no two of them at a time: each then shows every byte in its own cell
\* and stores a byte at the index it sent for it (lfdk/libcmos.c).
THEOREM TurnsAreEnough == Spec /\ []InTurn => [](ShowsOwnCells /\ LandsAtIndex)
<1>1. TurnInv => ShowsOwnCells /\ LandsAtIndex
  BY DEF TurnInv, OwnIndex, ShowsOwnCells, LandsAtIndex, Cells
<1>2. InTurn /\ CmosInv /\ TurnInv /\ [Next]_vars => CmosInv' /\ TurnInv'
  BY CmosStep, TurnStep
<1> QED BY <1>1, <1>2, CmosInit0, PTL DEF Spec

\* One process is always in turn.
LEMMA AloneInTurn ==
    ASSUME OneCmosProc
    PROVE  Spec => []InTurn
<1>1. InTurn BY DEF OneCmosProc, InTurn
<1> QED BY <1>1, PTL

\* ShowsOwnCells: alone, a process shows each byte in its own cell.
THEOREM CellsAreOwn ==
    ASSUME OneCmosProc
    PROVE  Spec => []ShowsOwnCells
<1> QED BY TurnsAreEnough, AloneInTurn, PTL

\* LandsAtIndex: alone, a process stores a byte at the index it sent for it.
THEOREM BytesLandAtIndex ==
    ASSUME OneCmosProc
    PROVE  Spec => []LandsAtIndex
<1> QED BY TurnsAreEnough, AloneInTurn, PTL

=============================================================================
