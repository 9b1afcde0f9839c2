----------------------------- MODULE AtomicMap -----------------------------
(***************************************************************************)
(* What internal/shardmap promises its callers of a single-key operation:  *)
(* it takes effect at one instant between its call and its return, and     *)
(* answers with what the map held under its key at that instant.           *)
(***************************************************************************)
CONSTANTS Goroutines, Keys, Vals, Absent,
          NoCall,   \* no operation is under way
          NoReply   \* it has not taken effect yet

VARIABLES map,      \* map[k]: the value stored under k, or Absent
          call,     \* call[g]: the operation g is in
          reply     \* reply[g]: its answer

Operations ==
  [op: {"Get", "Delete"}, key: Keys] \cup
  [op: {"Set", "Swap"}, key: Keys, val: Vals]

Invoke(g, o) ==
  /\ call[g] = NoCall
  /\ call' = [call EXCEPT ![g] = o]
  /\ UNCHANGED <<map, reply>>

after(o) ==
  CASE o.op = "Get" -> map
    [] o.op = "Delete" -> [map EXCEPT ![o.key] = Absent]
    [] o.op \in {"Set", "Swap"} -> [map EXCEPT ![o.key] = o.val]

answer(o) == IF o.op = "Set" THEN Absent ELSE map[o.key]

Perform(g) ==
  /\ call[g] # NoCall /\ reply[g] = NoReply
  /\ map' = after(call[g])
  /\ reply' = [reply EXCEPT ![g] = answer(call[g])]
  /\ UNCHANGED call

Respond(g) ==
  /\ reply[g] # NoReply
  /\ call' = [call EXCEPT ![g] = NoCall]
  /\ reply' = [reply EXCEPT ![g] = NoReply]
  /\ UNCHANGED map

Init ==
  /\ map = [k \in Keys |-> Absent]
  /\ call = [g \in Goroutines |-> NoCall]
  /\ reply = [g \in Goroutines |-> NoReply]

Next ==
  \E g \in Goroutines :
    Perform(g) \/ Respond(g) \/ \E o \in Operations : Invoke(g, o)

Spec == Init /\ [][Next]_<<map, call, reply>>
=============================================================================
