------------------------------ MODULE MCServer ------------------------------
(***************************************************************************)
(* Server with a handful of clients.                                       *)
(***************************************************************************)
EXTENDS Server, TLC

CONSTANTS c1, c2

ConnSymmetry == Permutations(Conns)
=============================================================================
