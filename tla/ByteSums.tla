------------------------------ MODULE ByteSums ------------------------------
(***************************************************************************)
(* Sums of natural-valued functions.  Total(f) is the sum of f[x] over the *)
(* domain of f, expressed as the size of a set with f[x] elements tagged x *)
(* for every x, so that the theorems about finite sets apply to it.        *)
(***************************************************************************)
EXTENDS Integers, FiniteSets

\* The f[x] units that x contributes.
Units(f, x) == {x} \X (1..f[x])

\* The sum of f[x] over DOMAIN f.
Total(f) == Cardinality(UNION {Units(f, x) : x \in DOMAIN f})
=============================================================================
