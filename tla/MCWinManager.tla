---------------------------- MODULE MCWinManager ----------------------------
(***************************************************************************)
(* Three windows, two with a short key, that post any message at any time. *)
(***************************************************************************)
EXTENDS WinManager

MCShortKey == [w \in Wins |-> CASE w = 0 -> 0 [] w = 1 -> 105 [] OTHER -> 112]

\* no key, NUL, i, p, a digit, q
MCKeys == {-1, 0, 105, 112, 49, 113}
=============================================================================
