------------------------------ MODULE HexEditor -----------------------------
(***************************************************************************)
(* The hex grid shared by the PCI-DEV, IO-SPACE, CMOS-SPACE and MEM-SPACE  *)
(* windows of lfdk: the cursor column, the display mode and the value      *)
(* being typed, wbuf, which is shifted by a digit at a time.               *)
(***************************************************************************)
EXTENDS Integers

CONSTANT RADIX  \* values of a typed digit: 16 in the code

ASSUME RadixAssumption == RADIX \in 1 .. 16

\* Codes of getch
KEY_ENTER     == 10
KEY_DOWN      == 258
KEY_UP        == 259
KEY_LEFT      == 260
KEY_RIGHT     == 261
KEY_BACKSPACE == 263
KEY_F7        == 271
KEY_NPAGE     == 338
KEY_PPAGE     == 339

BYTE_MODE  == 0
WORD_MODE  == 1
DWORD_MODE == 2

\* isxdigit; false for the codes above 255 that curses gives function keys
IsXDigit(k) == k \in 48 .. 57 \cup 65 .. 70 \cup 97 .. 102

DigitOf(k) == IF k <= 57 THEN k - 48 ELSE IF k > 70 THEN k - 96 + 9 ELSE k - 64 + 9

\* Bytes in a cell of mode m
CellSize(m) == CASE m = BYTE_MODE -> 1 [] m = WORD_MODE -> 2 [] m = DWORD_MODE -> 4

\* Values of a cell of mode m: those of two digits to the byte
ByteValues == RADIX * RADIX
CellValues(m) ==
    CASE m = BYTE_MODE  -> ByteValues
      [] m = WORD_MODE  -> ByteValues * ByteValues
      [] m = DWORD_MODE -> (ByteValues * ByteValues) * (ByteValues * ByteValues)

\* wbuf <<= 4, wbuf &= the mask of so many values, wbuf |= d
ShiftIn(w, d, values) == ((w * RADIX) % values) + d

\* wbuf >>= 4
DropDigit(w) == w \div RADIX

CursorLeft(x, m) == IF x < CellSize(m) THEN 0 ELSE x - CellSize(m)

\* Slip: the cursor may step onto the end of the line.
CursorRight_PastEnd(x, m, line) == IF x + CellSize(m) > line THEN x ELSE x + CellSize(m)

CursorRight(x, m, line) == IF x + CellSize(m) >= line THEN x ELSE x + CellSize(m)

\* Slip: the cursor keeps its column when the cells grow.
AlignColumn_Forgotten(x, m) == x

\* (x >> m) << m
AlignColumn(x, m) == x - (x % CellSize(m))

=============================================================================
