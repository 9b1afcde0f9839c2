------------------------------- MODULE KVMap -------------------------------
(***************************************************************************)
(* What one shard's table promises: a finite map.  An operation names its  *)
(* key, takes effect and answers with what the map held before it, once.   *)
(***************************************************************************)
CONSTANTS Keys, Vals, Absent

VARIABLES map,      \* map[k]: the value stored under k, or Absent
          answer    \* the answer of the operation, "none" as long as there is none

Call == answer' = <<"none">> /\ UNCHANGED map

Insert(k, v) ==
  /\ map' = [map EXCEPT ![k] = v]
  /\ answer' = <<"stored", k>>

Delete(k) ==
  /\ map' = [map EXCEPT ![k] = Absent]
  /\ answer' = <<"removed", k, map[k]>>

Lookup(k) ==
  /\ answer' = <<"found", k, map[k]>>
  /\ UNCHANGED map

Init == map = [k \in Keys |-> Absent] /\ answer = <<"none">>

Next ==
  \/ Call
  \/ /\ answer = <<"none">>
     /\ \E k \in Keys : (\E v \in Vals : Insert(k, v)) \/ Delete(k) \/ Lookup(k)

Spec == Init /\ [][Next]_<<map, answer>>
=============================================================================
