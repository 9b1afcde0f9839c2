------------------------------ MODULE MCSketch ------------------------------
(***************************************************************************)
(* A small instance of Sketch: two rows of two words.  Fingerprints 1 and  *)
(* 2 collide in the first row, 2 and 3 in the second; 1 and 3 each have a  *)
(* counter to themselves, 2 has none.                                      *)
(***************************************************************************)
EXTENDS PackedSketch, TLC

CONSTANTS e1

MCIndexOf == (0 :> (1 :> 0 @@ 2 :> 0 @@ 3 :> 2)) @@ (1 :> (1 :> 1 @@ 2 :> 3 @@ 3 :> 3))
=============================================================================
