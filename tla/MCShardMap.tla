----------------------------- MODULE MCShardMap -----------------------------
(***************************************************************************)
(* ShardMap with two shards and a key in each.                             *)
(***************************************************************************)
EXTENDS ShardMap

CONSTANTS g1, g2, k1, k2, v1, v2

MCShardOf == [k \in Keys |-> IF k = k2 THEN 1 ELSE 0]
=============================================================================
