------------------------------ MODULE MCTable ------------------------------
(***************************************************************************)
(* Small instances of Table.                                               *)
(***************************************************************************)
EXTENDS Table

CONSTANTS k1, k2, k3, k4

\* Hashes that collide at capacity 4 and part at 8, or 16, or 32, or never;
\* wrap around the end of the slots; share a fragment or do not.  With 0, 8
\* and 16 three keys collide up to capacity 8, one more than a chain with
\* MaxDib = 1 holds.
Hashes == {[k \in Keys |-> CASE k = k1 -> 0 [] k = k2 -> b [] k = k3 -> c
                             [] OTHER -> d] :
             b \in {3, 8}, c \in {4, 7, 16}, d \in {0, 11}}
=============================================================================
