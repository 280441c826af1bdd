------------------------------- MODULE MCPciUi -------------------------------
(***************************************************************************)
(* lfdk's windows on two small machines and on one without devices, with a *)
(* screen of two lines of four bytes and three screens of MMIO             *)
(* configuration space.                                                    *)
(***************************************************************************)
EXTENDS PciUi

MCKinds == {"MSG_NEED_FOCUS", "MSG_XFER_CONTROL"}

\* the last one with -b 0
MCMachines == {<<FALSE, TRUE, TRUE>>, <<TRUE>>, <<>>}

\* no key, NUL, p, i, q, the digit 1, and every key of the editor
MCKeys == {-1, 0, 112, 105, 113, 49, KEY_ENTER, KEY_BACKSPACE, KEY_UP, KEY_DOWN,
           KEY_LEFT, KEY_RIGHT, KEY_NPAGE, KEY_PPAGE, KEY_F7}
=============================================================================
