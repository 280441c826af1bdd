----------------------------- MODULE SpaceWindow -----------------------------
(***************************************************************************)
(* What the IO-SPACE and MEM-SPACE windows of lfdk have in common          *)
(* (lfdk/libio.c, lfdk/libmem.c): an address typed in whole pages, a page  *)
(* on the screen, and a value typed over the cell at the cursor.           *)
(* IoSpace and MemSpace add the page keys, the painting and the driver.    *)
(***************************************************************************)
EXTENDS Grid

CONSTANT ADDR_PAGES  \* pages an address can be typed for, by space: 2^8 and 2^24 in the code

VARIABLES
    space,       \* which of the two windows this is
    foreground,  \* the window manager has it in the foreground
    painted,     \* the screen is up to date: the next key comes after this
    base,        \* ioaddr, phyaddr
    x, y,        \* the cursor
    input, wbuf, display_mode,
    screen,      \* the last paint: page, address in the corner, how it was read
    stored       \* the write of the key just handled

cursor == <<x, y, display_mode>>
windowVars == <<space, foreground, painted, base, cursor, input, wbuf, screen, stored>>

Spaces == {"IO-SPACE", "MEM-SPACE"}

PAGE == LINE * LINE
ADDR_SPACE == ADDR_PAGES[space] * PAGE

\* DISPLAY_MODE_MAX
MODES == IF space = "IO-SPACE" THEN 2 ELSE 3

\* i and m
SHORT_KEY == IF space = "IO-SPACE" THEN 105 ELSE 109

\* The keys that reach key_press: the other window's short key does not.
WindowKeys == Keys \ ({105, 109} \ {SHORT_KEY})

ASSUME WindowAssumption ==
    /\ LINE % 4 = 0
    /\ ADDR_PAGES \in [Spaces -> Nat \ {0}]
    /\ \A s \in Spaces : ADDR_PAGES[s] % RADIX = 0

\* Slip: lines and columns swapped.
CellAddress_Transposed == base + x * LINE + y

\* The address of the cell at the cursor, as the write computes it
CellAddress == base + y * LINE + x

\* and as CreateOffsetText shows it in the corner of the screen
OffsetText == base + y * LINE + x

NoWrite == [at |-> -1, width |-> 0, done |-> FALSE]

WindowInit ==
    /\ space \in Spaces
    /\ screen = [at |-> 0, corner |-> 0, via |-> "nothing"] /\ stored = NoWrite
    /\ foreground = FALSE /\ painted = FALSE
    /\ base = 0 /\ x = 0 /\ y = 0
    /\ input = "NO_INPUT" /\ wbuf = 0 /\ display_mode = BYTE_MODE

\* get_focus
GetFocus ==
    /\ ~foreground
    /\ foreground' = TRUE /\ painted' = FALSE
    /\ input' = "INPUT_ADDR" /\ wbuf' = 0
    /\ UNCHANGED <<space, base, cursor, screen, stored>>

\* lost_focus: address, cursor and mode are kept for the next visit.
LostFocus ==
    /\ foreground /\ painted
    /\ foreground' = FALSE /\ painted' = FALSE
    /\ input' = "NO_INPUT" /\ wbuf' = 0
    /\ UNCHANGED <<space, base, cursor, screen, stored>>

\* What the mask lets be typed
Values == IF input = "INPUT_ADDR" THEN ADDR_PAGES[space] ELSE CellValues(display_mode)

\* A digit or a backspace while an address or a value is typed
Edit(k) ==
    /\ input # "NO_INPUT"
    /\ \/ k = KEY_BACKSPACE /\ wbuf' = DropDigit(wbuf)
       \/ IsXDigit(k) /\ wbuf' = ShiftIn(wbuf, DigitOf(k), Values)
    /\ UNCHANGED <<base, cursor, input>>

\* Any other key abandons it.
Abandon(k) ==
    /\ input # "NO_INPUT" /\ ~IsXDigit(k) /\ k \notin {KEY_ENTER, KEY_BACKSPACE}
    /\ input' = "NO_INPUT" /\ wbuf' = 0
    /\ UNCHANGED <<base, cursor>>

\* base = wbuf << 8
EnterAddress(k) ==
    /\ input = "INPUT_ADDR" /\ k = KEY_ENTER
    /\ base' = wbuf * PAGE
    /\ input' = "NO_INPUT" /\ wbuf' = 0
    /\ UNCHANGED cursor

\* Enter after a value: the write itself is the caller's.
EnterValue(k) ==
    /\ input = "INPUT_VALUE" /\ k = KEY_ENTER
    /\ input' = "NO_INPUT" /\ wbuf' = 0
    /\ UNCHANGED <<base, cursor>>

Begin(k) ==
    /\ input = "NO_INPUT"
    /\ \/ k = SHORT_KEY /\ input' = "INPUT_ADDR" /\ wbuf' = 0
       \/ IsXDigit(k) /\ input' = "INPUT_VALUE" /\ wbuf' = DigitOf(k)
    /\ UNCHANGED <<base, cursor>>

Move(k) ==
    /\ input = "NO_INPUT"
    /\ \/ k = KEY_UP /\ y' = (IF y > 0 THEN y - 1 ELSE y) /\ UNCHANGED <<x, display_mode>>
       \/ k = KEY_DOWN /\ y' = (IF y < LINE - 1 THEN y + 1 ELSE y) /\ UNCHANGED <<x, display_mode>>
       \/ k = KEY_LEFT /\ x' = CursorLeft(x, display_mode) /\ UNCHANGED <<y, display_mode>>
       \/ k = KEY_RIGHT /\ x' = CursorRight(x, display_mode, LINE) /\ UNCHANGED <<y, display_mode>>
       \/ /\ k = KEY_F7
          /\ display_mode' = (display_mode + 1) % MODES
          /\ x' = AlignColumn(x, display_mode')
          /\ UNCHANGED y
    /\ UNCHANGED <<base, input, wbuf>>

\* Page keys: to is where the window's own arithmetic leads.
Page(k, to) ==
    /\ input = "NO_INPUT" /\ k \in {KEY_NPAGE, KEY_PPAGE}
    /\ base' = to
    /\ UNCHANGED <<cursor, input, wbuf>>

\* A key the display mode has no use for
Ignore(k) ==
    /\ input = "NO_INPUT" /\ ~IsXDigit(k)
    /\ k \notin {SHORT_KEY, KEY_UP, KEY_DOWN, KEY_LEFT, KEY_RIGHT, KEY_F7,
                 KEY_NPAGE, KEY_PPAGE}
    /\ UNCHANGED <<base, cursor, input, wbuf>>

\* The foreground window gets a key, and will be painted after it.
TakeKey ==
    /\ foreground /\ painted /\ painted' = FALSE
    /\ UNCHANGED <<space, foreground, screen>>

EditorKey(k) ==
    /\ TakeKey /\ UNCHANGED stored
    /\ Edit(k) \/ Abandon(k) \/ EnterAddress(k) \/ Begin(k) \/ Move(k) \/ Ignore(k)

\* The paint at the end of a pass, after a key or none: the page was read via.
Paint(corner, via) ==
    /\ foreground
    /\ screen' = [at |-> base, corner |-> corner, via |-> via]
    /\ stored' = NoWrite /\ painted' = TRUE
    /\ UNCHANGED <<space, foreground, base, cursor, input, wbuf>>

WindowTypeOK ==
    /\ foreground \in BOOLEAN /\ painted \in BOOLEAN
    /\ base \in 0 .. ADDR_SPACE - PAGE /\ base % PAGE = 0
    /\ x \in 0 .. LINE - 1 /\ y \in 0 .. LINE - 1 /\ display_mode \in 0 .. MODES - 1
    /\ input \in {"NO_INPUT", "INPUT_ADDR", "INPUT_VALUE"} /\ wbuf \in 0 .. Values - 1

=============================================================================
