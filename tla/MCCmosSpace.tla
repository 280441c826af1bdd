----------------------------- MODULE MCCmosSpace -----------------------------
(***************************************************************************)
(* CMOS-SPACE with two lines of two bytes.                                 *)
(***************************************************************************)
EXTENDS CmosSpace

\* F2, the digits 1 and f, and every key of the window
MCKeys == {266, 49, 102, KEY_ENTER, KEY_BACKSPACE, KEY_UP, KEY_DOWN, KEY_LEFT, KEY_RIGHT}
=============================================================================
