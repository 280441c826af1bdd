-------------------------------- MODULE Grid --------------------------------
(***************************************************************************)
(* A window that shows a hex grid of LINE lines of LINE bytes, and the     *)
(* keys it may get: what IO-SPACE, MEM-SPACE and CMOS-SPACE share.         *)
(***************************************************************************)
EXTENDS HexEditor

CONSTANTS
    LINE,  \* LFDK_BYTE_PER_LINE
    Keys   \* what getch may return, but for q and no key

ASSUME GridAssumption ==
    /\ LINE \in Nat \ {0}
    /\ \A k \in Keys : k > 0 /\ (IsXDigit(k) => DigitOf(k) < RADIX)

=============================================================================
