--------------------------- MODULE EngineHistory ---------------------------
(***************************************************************************)
(* Engine with a history variable, which influences no step, for what      *)
(* concurrent passes evict for the same excess.                            *)
(***************************************************************************)
EXTENDS Engine

VARIABLE late   \* late[c]: c's victims since usage was last above the ceiling

hvars == <<vars, late>>

HInit == Init /\ late = [c \in Clients |-> 0]

HNext ==
  /\ Next
  /\ late' = [c \in Clients |->
       IF usage' > maxmemory' THEN 0
       ELSE late[c] + (IF pc[c] = "evictAccount" /\ pc'[c] # pc[c] THEN 1 ELSE 0)]

HSpec == HInit /\ [][HNext]_hvars

-----------------------------------------------------------------------------

\* evict.go:26: goroutines that see the same excess each evict for it, but no
\* more than that: once usage is down to the ceiling, each takes one victim at
\* most before it looks at usage again and stops.  (A live setter moves the
\* ceiling that a pass goes by away from maxmemory.)
OverEvictionBounded ==
  Ops \cap TuningOps = {} => \A c \in Clients : late[c] <= 1
=============================================================================
