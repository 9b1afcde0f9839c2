------------------------------ MODULE MCPolicy ------------------------------
(***************************************************************************)
(* Small instances of Policy.  A doorkeeper of three bits, two of them per *)
(* fingerprint, can have false positives; with no bits every sample counts *)
(* in the sketch.                                                          *)
(***************************************************************************)
EXTENDS Policy

CONSTANTS r1, r2, t1

MCBitsOf == [fp \in Fingerprints |-> {fp % 3, (fp + 1) % 3}]
NoBits == [fp \in Fingerprints |-> {}]
=============================================================================
