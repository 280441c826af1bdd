---------------------------- MODULE MCSpaceEditors ----------------------------
(***************************************************************************)
(* The three windows of spaces with 4 bytes to a line: 4 pages of ports,   *)
(* 8 pages of memory of which 5 are RAM, and a page of CMOS.  They share   *)
(* no state, so a behaviour follows one of them and leaves the others as   *)
(* they start.                                                             *)
(***************************************************************************)
EXTENDS SpaceEditors

VARIABLES followed, index, cmos_pc, cmos_x, cmos_y, cmos_input, cmos_wbuf, i, mass_buf, landed

cmosVars == <<index, cmos_pc, cmos_x, cmos_y, cmos_input, cmos_wbuf, i, mass_buf, landed>>

Cmos == INSTANCE CmosSpace
            WITH Procs <- {"lfdk"}, pc <- cmos_pc, x <- cmos_x, y <- cmos_y,
                 input <- cmos_input, wbuf <- cmos_wbuf

MCInit ==
    /\ Init /\ Cmos!Init
    /\ \/ followed = "CMOS-SPACE" /\ space = "IO-SPACE"
       \/ followed = space /\ index = 0

MCNext ==
    /\ UNCHANGED followed
    /\ \/ followed = space /\ Next /\ UNCHANGED cmosVars
       \/ followed = "CMOS-SPACE" /\ Cmos!Next /\ UNCHANGED vars

MCSpec == MCInit /\ [][MCNext]_<<followed, vars, cmosVars>>

CmosTypeOK == Cmos!CmosTypeOK
ShowsOwnCells == Cmos!ShowsOwnCells

MCPages == [s \in Spaces |-> IF s = "IO-SPACE" THEN 4 ELSE 8]

\* i and m (each the short key of one window), F2, the digits 0 and 1, and every
\* key of the editor
MCKeys == {105, 109, 266, 48, 49, KEY_ENTER, KEY_BACKSPACE, KEY_UP, KEY_DOWN, KEY_LEFT,
           KEY_RIGHT, KEY_NPAGE, KEY_PPAGE, KEY_F7}
=============================================================================
