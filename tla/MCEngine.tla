------------------------------ MODULE MCEngine ------------------------------
(***************************************************************************)
(* Small instances of Engine.                                              *)
(***************************************************************************)
EXTENDS Engine, TLC

CONSTANTS c1, c2, k1, k2, k3

MCKeyLen == [k \in Keys |-> IF k = k1 THEN 1 ELSE 0]
MCShardOf == [k \in Keys |-> IF k = k1 THEN 1 ELSE 2]
ClientSymmetry == Permutations(Clients)

\* The dearest entry a client can write.
MaxCost == CHOOSE m \in {costOf(k, s) : k \in Keys, s \in Sizes} :
             \A k \in Keys, s \in Sizes : costOf(k, s) <= m

\* The price of the noeviction guard's check-then-act: the goroutines that
\* passed it at the same time can push usage past the ceiling, each by the
\* cost of one entry at most.
NoEvictionOvershoot ==
  /\ Ops \cap TuningOps = {}
  /\ maxmemory > 0 /\ evictPol = "noeviction"
  => Total(storedCost) <= maxmemory + (Cardinality(Clients) - 1) * MaxCost
=============================================================================
