----------------------------- MODULE MCCommands -----------------------------
(***************************************************************************)
(* Commands with Durations of 6 bits, a millisecond of two ticks and a     *)
(* second of two milliseconds: EX takes -7..7 and PX takes -15..15.        *)
(***************************************************************************)
EXTENDS Commands, TLC

CONSTANTS c1, c2, k1

\* Both ends of the ranges, beyond them, and what wraps to a small positive.
Edges == {-16, -1, 0, 1, 7, 8, 17}

HelloOptions == {<<>>, <<"SETNAME">>, <<"SETNAME", "name">>, <<"AUTH">>,
                 <<"SETNAME", "name", "AUTH">>}

\* With a control character, and longer than what is echoed.
UnknownNames == {<<"letter", "letter", "control">>, <<"control">>}

Symmetry == Permutations(Conns)
=============================================================================
