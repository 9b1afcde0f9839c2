------------------------------ MODULE ShardMap ------------------------------
(***************************************************************************)
(* The sharded map of internal/shardmap: Get, Set, Swap and Delete on one  *)
(* shard under its RWMutex, and Len, Range and Sample, which visit shard   *)
(* after shard.  A shard's table is the part of one function whose keys it *)
(* owns, and its count; Table has what is inside.  An operation on the     *)
(* table is several steps here, so that the locks have something to do.    *)
(***************************************************************************)
EXTENDS Integers, FiniteSets

CONSTANTS
  Goroutines, Keys, Vals,
  Absent,             \* the zero value of a lookup that finds nothing
  NShards,            \* shards, a power of two
  ShardOf,            \* ShardOf[k]: shardIndex of k's hash
  SampleN,            \* candidates asked of Sample
  DrawFactor,         \* sampleDrawFactor (8)
  DrawFloor,          \* sampleDrawFloor (16)
  Ops,                \* the operations called
  MaxOps,             \* bound: calls in a behaviour
  NoCall, NoReply

Shards == 0..(NShards - 1)
Writes == {"Set", "Swap", "Delete"}
Scans == {"Len", "Range", "Sample"}

ASSUME ShardMapAssumption ==
  /\ NShards \in Nat \ {0} /\ ShardOf \in [Keys -> Shards]
  /\ IsFiniteSet(Keys) /\ Keys # {} /\ Vals # {} /\ Absent \notin Vals
  /\ SampleN \in Nat \ {0} /\ DrawFactor \in Nat /\ DrawFloor \in Nat
  /\ Ops \subseteq Writes \cup Scans \cup {"Get"} /\ MaxOps \in Nat
  /\ NoReply \notin Vals \cup {Absent} \cup Keys
  /\ NoCall \notin [op: {"Get", "Delete"}, key: Keys]
  /\ NoCall \notin [op: {"Set", "Swap"}, key: Keys, val: Vals]

VARIABLES
  table,            \* table[k]: the value stored under k, or Absent
  count,            \* count[s]: the table's occupied-slot counter
  readers, writer,  \* readers[s], writer[s]: who holds the lock of shard s
  pc, loc,          \* a goroutine's next step and the locals of its call
  calls,            \* calls so far
  always, ever      \* history: the keys stored all the time, and at some
                    \* time, since a goroutine's call began

locks == <<readers, writer>>
history == <<always, ever>>
vars == <<table, count, locks, pc, loc, calls, history>>

stored == {k \in Keys : table[k] # Absent}
ownedBy(s) == {k \in Keys : ShardOf[k] = s}

\* s: the shard at hand; old: what a lookup found; n: Len's sum; out: what
\* Range has passed to fn, or Sample has drawn; budget: Sample's draws left.
NoLocals == [op |-> "none", key |-> CHOOSE k \in Keys : TRUE,
             val |-> CHOOSE v \in Vals : TRUE, s |-> 0, old |-> Absent,
             n |-> 0, out |-> {}, budget |-> 0]

Init ==
  /\ table = [k \in Keys |-> Absent] /\ count = [s \in Shards |-> 0]
  /\ readers = [s \in Shards |-> {}] /\ writer = [s \in Shards |-> {}]
  /\ pc = [g \in Goroutines |-> "idle"]
  /\ loc = [g \in Goroutines |-> NoLocals]
  /\ calls = 0
  /\ always = [g \in Goroutines |-> {}] /\ ever = [g \in Goroutines |-> {}]

Goto(g, label) == pc' = [pc EXCEPT ![g] = label]

\* The caller has its answer, and the locals are gone.
Forget(g) ==
  /\ Goto(g, "idle")
  /\ loc' = [loc EXCEPT ![g] = NoLocals]
  /\ always' = [always EXCEPT ![g] = {}] /\ ever' = [ever EXCEPT ![g] = {}]

-----------------------------------------------------------------------------
(* A call finds its shard and waits for the shard's lock. *)

Call(g, locals) ==
  /\ pc[g] = "idle" /\ locals.op \in Ops /\ calls < MaxOps
  /\ calls' = calls + 1
  /\ loc' = [loc EXCEPT ![g] = locals]
  /\ always' = [always EXCEPT ![g] = stored]
  /\ ever' = [ever EXCEPT ![g] = stored]
  /\ Goto(g, IF locals.op \in Writes THEN "lock" ELSE "rlock")
  /\ UNCHANGED <<table, count, locks>>

CallKey(g, op, k, v) ==
  Call(g, [NoLocals EXCEPT !.op = op, !.key = k, !.val = v, !.s = ShardOf[k]])

\* Len and Range begin with the first shard, Sample with a random one.
CallScan(g, op) == Call(g, [NoLocals EXCEPT !.op = op])

CallSample(g, s) ==
  Call(g, [NoLocals EXCEPT !.op = "Sample", !.s = s,
                           !.budget = SampleN * DrawFactor + DrawFloor])

RLock(g) ==
  LET s == loc[g].s
  IN  /\ pc[g] = "rlock" /\ writer[s] = {}
      /\ readers' = [readers EXCEPT ![s] = @ \cup {g}]
      /\ Goto(g, "read")
      /\ UNCHANGED <<table, count, writer, loc, calls, history>>

\* Mutant: the lock does not wait for readers.
LockOverReaders(g) ==
  LET s == loc[g].s
  IN  /\ pc[g] = "lock" /\ writer[s] = {}
      /\ writer' = [writer EXCEPT ![s] = {g}]
      /\ Goto(g, "lookup")
      /\ UNCHANGED <<table, count, readers, loc, calls, history>>

Lock(g) ==
  LET s == loc[g].s
  IN  /\ pc[g] = "lock" /\ writer[s] = {} /\ readers[s] = {}
      /\ writer' = [writer EXCEPT ![s] = {g}]
      /\ Goto(g, "lookup")
      /\ UNCHANGED <<table, count, readers, loc, calls, history>>

-----------------------------------------------------------------------------
(* Set, Swap and Delete, under the write lock. *)

\* Mutant: the lookup takes the lock for itself, and the store again.
LookupApart(g) ==
  /\ pc[g] = "lookup"
  /\ \/ /\ loc[g].n = 0
        /\ loc' = [loc EXCEPT ![g].n = 1, ![g].old = table[loc[g].key]]
        /\ writer' = [writer EXCEPT ![loc[g].s] = {}]
        /\ Goto(g, "lock")
     \/ loc[g].n = 1 /\ Goto(g, "store") /\ UNCHANGED <<loc, writer>>
  /\ UNCHANGED <<table, count, readers, calls, history>>

Lookup(g) ==
  /\ pc[g] = "lookup"
  /\ loc' = [loc EXCEPT ![g].old =
       IF loc[g].op = "Set" THEN Absent ELSE table[loc[g].key]]
  /\ Goto(g, "store")
  /\ UNCHANGED <<table, count, locks, calls, history>>

\* The slots change, and the histories of the calls under way with them.
Store(g) ==
  LET k == loc[g].key
      v == IF loc[g].op = "Delete" THEN Absent ELSE loc[g].val
  IN  /\ pc[g] = "store"
      /\ table' = [table EXCEPT ![k] = v]
      /\ loc' = [loc EXCEPT ![g].n = CASE v # Absent /\ table[k] = Absent -> 1
                                       [] v = Absent /\ table[k] # Absent -> -1
                                       [] OTHER -> 0]
      /\ always' = [h \in Goroutines |->
                      IF v = Absent THEN always[h] \ {k} ELSE always[h]]
      /\ ever' = [h \in Goroutines |->
                    IF v = Absent THEN ever[h] ELSE ever[h] \cup {k}]
      /\ Goto(g, "count")
      /\ UNCHANGED <<count, locks, calls>>

\* The counter follows, and the lock is released.
Count(g) ==
  LET s == loc[g].s
  IN  /\ pc[g] = "count"
      /\ count' = [count EXCEPT ![s] = @ + loc[g].n]
      /\ writer' = [writer EXCEPT ![s] = @ \ {g}]
      /\ Forget(g)
      /\ UNCHANGED <<table, readers, calls>>

-----------------------------------------------------------------------------
(* Reads, under the read lock. *)

\* What the call has read, and whether it goes on to shard next.
ReadThen(g, locals, more, next) ==
  /\ pc[g] = "read"
  /\ loc' = [loc EXCEPT ![g] = IF more THEN [locals EXCEPT !.s = next]
                                       ELSE locals]
  /\ readers' = [readers EXCEPT ![loc[g].s] = @ \ {g}]
  /\ Goto(g, IF more THEN "rlock" ELSE "done")
  /\ UNCHANGED <<table, count, writer, calls, history>>

ReadGet(g) ==
  /\ loc[g].op = "Get"
  /\ ReadThen(g, [loc[g] EXCEPT !.old = table[loc[g].key]], FALSE, 0)

\* Mutant: the last shard is left out.
ReadLenShort(g) ==
  /\ loc[g].op = "Len"
  /\ ReadThen(g, [loc[g] EXCEPT !.n = @ + count[loc[g].s]],
              loc[g].s < NShards - 2, loc[g].s + 1)

ReadLen(g) ==
  /\ loc[g].op = "Len"
  /\ ReadThen(g, [loc[g] EXCEPT !.n = @ + count[loc[g].s]],
              loc[g].s < NShards - 1, loc[g].s + 1)

\* rangeShard: fn has every entry of the shard, or ends the walk (n = 1) at
\* one of them.
ReadRange(g) ==
  LET entries == stored \cap ownedBy(loc[g].s)
  IN  /\ loc[g].op = "Range"
      /\ \/ ReadThen(g, [loc[g] EXCEPT !.out = @ \cup entries],
                      loc[g].s < NShards - 1, loc[g].s + 1)
         \/ \E passed \in SUBSET entries \ {{}} :
              ReadThen(g, [loc[g] EXCEPT !.out = @ \cup passed, !.n = 1],
                       FALSE, 0)

\* One draw: nothing from an empty shard, else any entry, which may have been
\* drawn before.  The next draw, if there is one, is from a random shard.
Draw(g, drawn, cost) ==
  \E k \in drawn, s \in Shards :
    LET out == loc[g].out \cup (IF k = NoReply THEN {} ELSE {k})
        budget == loc[g].budget - cost
    IN  ReadThen(g, [loc[g] EXCEPT !.out = out, !.budget = budget],
                 Cardinality(out) < SampleN /\ budget > 0, s)

\* Mutants: a random slot may be empty, and the shard is not scanned for one;
\* a draw is free.
ReadSampleNoScan(g) ==
  /\ loc[g].op = "Sample"
  /\ Draw(g, (stored \cap ownedBy(loc[g].s)) \cup {NoReply}, 1)

ReadSampleUnbudgeted(g) ==
  /\ loc[g].op = "Sample"
  /\ Draw(g, IF count[loc[g].s] = 0 THEN {NoReply}
             ELSE stored \cap ownedBy(loc[g].s), 0)

ReadSample(g) ==
  /\ loc[g].op = "Sample"
  /\ Draw(g, IF count[loc[g].s] = 0 THEN {NoReply}
             ELSE stored \cap ownedBy(loc[g].s), 1)

Return(g) ==
  /\ pc[g] = "done" /\ Forget(g)
  /\ UNCHANGED <<table, count, locks, calls>>

-----------------------------------------------------------------------------

\* A step of the call g is in that takes no lock.
Body(g) ==
  \/ Lookup(g) \/ Store(g) \/ Count(g)
  \/ ReadGet(g) \/ ReadLen(g) \/ ReadRange(g) \/ ReadSample(g) \/ Return(g)

Start(g) ==
  \/ \E op \in {"Len", "Range"} : CallScan(g, op)
  \/ \E k \in Keys :
       \/ \E op \in {"Get", "Delete"} : CallKey(g, op, k, NoLocals.val)
       \/ \E op \in {"Set", "Swap"}, v \in Vals : CallKey(g, op, k, v)
  \/ \E s \in Shards : CallSample(g, s)

\* Every call has returned and no more are made.
Finished ==
  /\ calls = MaxOps /\ \A g \in Goroutines : pc[g] = "idle"
  /\ UNCHANGED vars

Next ==
  \/ \E g \in Goroutines : Start(g) \/ RLock(g) \/ Lock(g) \/ Body(g)
  \/ Finished

Spec == Init /\ [][Next]_vars

\* Goroutines that can run do run, and an RWMutex starves neither side.
FairSpec ==
  /\ Spec
  /\ \A g \in Goroutines :
       WF_vars(Body(g)) /\ SF_vars(RLock(g)) /\ SF_vars(Lock(g))

-----------------------------------------------------------------------------
(* Properties. *)

\* Types.
TypeOK ==
  /\ table \in [Keys -> Vals \cup {Absent}]
  /\ count \in [Shards -> 0..Cardinality(Keys)]
  /\ readers \in [Shards -> SUBSET Goroutines]
  /\ writer \in [Shards -> SUBSET Goroutines]
  /\ pc \in [Goroutines -> {"idle", "lock", "rlock", "lookup", "store",
                            "count", "read", "done"}]
  /\ calls \in 0..MaxOps
  /\ \A g \in Goroutines : loc[g].s \in Shards /\ loc[g].out \subseteq Keys

\* map.go:142: "concurrent readers never observe a torn table": whoever reads a
\* shard, or comes to one that nobody writes, finds slots and counter in
\* agreement, and everything within its type.
NeverTorn ==
  /\ TypeOK
  /\ \A g \in Goroutines, s \in Shards :
       (pc[g] = "read" /\ loc[g].s = s) \/ writer[s] = {} =>
         count[s] = Cardinality(stored \cap ownedBy(s))

\* The single-key operation of a goroutine at label at with locals l, and its
\* answer once it has taken effect: a write when it stores, a Get when it reads.
callOf(at, l) ==
  CASE at = "idle" \/ l.op \in Scans -> NoCall
    [] at # "idle" /\ l.op \in {"Get", "Delete"} -> [op |-> l.op, key |-> l.key]
    [] at # "idle" /\ l.op \in {"Set", "Swap"} ->
         [op |-> l.op, key |-> l.key, val |-> l.val]

replyOf(at, l) ==
  IF at \in {"count", "done"} /\ l.op \notin Scans THEN l.old ELSE NoReply

Atomic == INSTANCE AtomicMap WITH
  map <- table,
  call <- [g \in Goroutines |-> callOf(pc[g], loc[g])],
  reply <- [g \in Goroutines |-> replyOf(pc[g], loc[g])]

\* map.go:151: single-key operations are atomic, and a Swap answers with the
\* value that it actually replaced.
ImplementsAtomicMap == Atomic!Spec

\* map.go:183 and 199: Len and Range are "per-shard-consistent": what they
\* return is not the map at one instant, but they miss nothing that is stored
\* all the time (unless fn ends the walk) and report nothing that never is.
ScanBounded ==
  \A g \in Goroutines :
    /\ pc[g] = "done" /\ loc[g].op = "Len" =>
         /\ Cardinality(always[g]) <= loc[g].n
         /\ loc[g].n <= Cardinality(ever[g])
    /\ pc[g] = "done" /\ loc[g].op = "Range" =>
         /\ loc[g].n = 0 => always[g] \subseteq loc[g].out
         /\ loc[g].out \subseteq ever[g]

\* What the eviction pass relies on: Sample draws entries that were stored
\* while it ran, and comes back empty-handed only if some shard was empty.
SampleFinds ==
  \A g \in Goroutines :
    pc[g] = "done" /\ loc[g].op = "Sample" =>
      /\ loc[g].out \subseteq ever[g] /\ Cardinality(loc[g].out) <= SampleN
      /\ (\A s \in Shards : always[g] \cap ownedBy(s) # {}) => loc[g].out # {}

\* Every operation returns: none takes a second lock while it holds one, and a
\* Sample of too few entries runs out of draws.
OpsReturn == \A g \in Goroutines : pc[g] # "idle" ~> pc[g] = "idle"
=============================================================================
