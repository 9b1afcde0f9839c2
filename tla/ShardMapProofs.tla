--------------------------- MODULE ShardMapProofs ---------------------------
(***************************************************************************)
(* Proofs about ShardMap, for any number of goroutines, keys, values and   *)
(* shards, any placement of the keys and any number of calls: the locks    *)
(* exclude, so the single-key operations are atomic (AtomicMap) and every  *)
(* reader finds a table that is not torn; and what the scans return lies   *)
(* between the keys stored all the time and those stored at some time.     *)
(***************************************************************************)
EXTENDS ShardMap, FiniteSetTheorems, TLAPS

Held == {"lookup", "store", "count"}
Labels == {"idle", "lock", "rlock", "read", "done"} \cup Held

Locals ==
  [op: Writes \cup Scans \cup {"Get", "none"}, key: Keys, val: Vals, s: Shards,
   old: Vals \cup {Absent}, n: Int, out: SUBSET Keys, budget: Int]

Types ==
  /\ table \in [Keys -> Vals \cup {Absent}]
  /\ count \in [Shards -> Int]
  /\ readers \in [Shards -> SUBSET Goroutines]
  /\ writer \in [Shards -> SUBSET Goroutines]
  /\ pc \in [Goroutines -> Labels]
  /\ loc \in [Goroutines -> Locals]
  /\ calls \in 0..MaxOps
  /\ always \in [Goroutines -> SUBSET Keys]
  /\ ever \in [Goroutines -> SUBSET Keys]

\* A write is at its own steps, a read at its own, and a single-key operation
\* is on the shard of its key.
Placed ==
  \A g \in Goroutines :
    /\ pc[g] \in Held \cup {"lock"} => loc[g].op \in Writes
    /\ pc[g] \in {"rlock", "read", "done"} => loc[g].op \in Scans \cup {"Get"}
    /\ pc[g] # "idle" /\ loc[g].op \notin Scans =>
         loc[g].s = ShardOf[loc[g].key]

\* Between Lock and Unlock a goroutine is the only one with the shard, and a
\* reader has no writer beside it.
WriterAlone == \A g \in Goroutines : pc[g] \in Held => writer[loc[g].s] = {g}
ReaderKnown ==
  \A g \in Goroutines : pc[g] = "read" => g \in readers[loc[g].s]
WriterKnown ==
  \A s \in Shards, g \in Goroutines :
    g \in writer[s] => pc[g] \in Held /\ loc[g].s = s
OneSide == \A s \in Shards : writer[s] = {} \/ readers[s] = {}

Exclusive == WriterAlone /\ ReaderKnown /\ WriterKnown /\ OneSide

LockInv == Types /\ Placed /\ Exclusive

\* The locals of a goroutine that is in no call, and of one that enters one.
LEMMA NoLocalsType ==
  /\ NoLocals \in Locals
  /\ 0 \in Shards
<1>1. 0 \in Shards
  BY ShardMapAssumption DEF Shards
<1>2. (CHOOSE k \in Keys : TRUE) \in Keys /\ (CHOOSE v \in Vals : TRUE) \in Vals
  BY ShardMapAssumption, Zenon
<1> QED  BY <1>1, <1>2 DEF NoLocals, Locals

LEMMA LockInit == Init => LockInv
<1> SUFFICES ASSUME Init PROVE LockInv
  BY Zenon
<1>1. Cardinality(Keys) \in Nat
  BY FS_CardinalityType, ShardMapAssumption, Zenon
<1>2. Types
  BY <1>1, NoLocalsType, ShardMapAssumption DEF Init, Types, Labels
<1>3. \A g \in Goroutines : pc[g] = "idle"
  BY Zenon DEF Init
<1>4. Placed /\ Exclusive
  BY <1>3, Zenon
     DEF Placed, Exclusive, WriterAlone, WriterKnown, ReaderKnown, OneSide,
         Held, Init
<1> QED  BY <1>2, <1>4, Zenon DEF LockInv

\* What the locals of a call are, by the operation it is for.
Entered(locals) ==
  /\ locals \in Locals
  /\ locals.op \in Ops
  /\ locals.op \notin Scans => locals.s = ShardOf[locals.key]
  /\ locals.op \in {"Len", "Range"} => locals.s = 0
  /\ locals.n = 0 /\ locals.out = {}

LEMMA StartCall ==
  ASSUME NEW g \in Goroutines, Start(g)
  PROVE  \E locals : Entered(locals) /\ Call(g, locals)
<1>0. NoLocals \in Locals /\ NoLocals.n = 0 /\ NoLocals.out = {}
      /\ NoLocals.s = 0
  BY NoLocalsType, Zenon DEF NoLocals
<1> USE DEF Entered
<1>1. \A op \in {"Len", "Range"} : CallScan(g, op) =>
        \E locals : Entered(locals) /\ Call(g, locals)
  BY <1>0, ZenonT(30) DEF CallScan, Call, Locals, Scans
<1>2. ASSUME NEW k \in Keys, NEW v \in Vals,
             NEW op \in {"Get", "Delete", "Set", "Swap"}, CallKey(g, op, k, v)
      PROVE  \E locals : Entered(locals) /\ Call(g, locals)
  <2> DEFINE l == [NoLocals EXCEPT !.op = op, !.key = k, !.val = v,
                                   !.s = ShardOf[k]]
  <2>1. l \in Locals /\ l.op = op /\ l.s = ShardOf[l.key]
        /\ l.n = 0 /\ l.out = {}
    BY <1>0, ShardMapAssumption, ZenonT(30) DEF Locals, Writes
  <2>2. Call(g, l)
    BY <1>2, Zenon DEF CallKey
  <2>3. l.op \in Ops
    BY <2>2, Zenon DEF Call
  <2> HIDE DEF l
  <2> QED  BY <2>1, <2>2, <2>3, Zenon
<1>3. ASSUME NEW s \in Shards, CallSample(g, s)
      PROVE  \E locals : Entered(locals) /\ Call(g, locals)
  <2> DEFINE l == [NoLocals EXCEPT !.op = "Sample", !.s = s,
                            !.budget = SampleN * DrawFactor + DrawFloor]
  <2>1. SampleN * DrawFactor + DrawFloor \in Int
    BY ShardMapAssumption
  <2>2. l \in Locals /\ l.op = "Sample" /\ l.n = 0 /\ l.out = {}
    BY <1>0, <2>1, Zenon DEF Locals, Scans
  <2>3. Call(g, l)
    BY <1>3, Zenon DEF CallSample
  <2>4. l.op \in Ops
    BY <2>3, Zenon DEF Call
  <2> HIDE DEF l
  <2> QED  BY <2>2, <2>3, <2>4, Zenon DEF Scans
<1>4. NoLocals.val \in Vals
  BY <1>0, Zenon DEF Locals
<1> QED  BY <1>1, <1>2, <1>3, <1>4, Zenon DEF Start

\* A reading step changes nothing but the locals and the goroutine's place
\* among the readers; only a scan goes on, to another shard.
Reads(g, locals, more, next) ==
  /\ ReadThen(g, locals, more, next)
  /\ locals \in Locals /\ locals.op = loc[g].op /\ locals.s = loc[g].s
  /\ locals.key = loc[g].key /\ locals.val = loc[g].val
  /\ more \in BOOLEAN
  /\ more => next \in Shards /\ loc[g].op \in Scans

LEMMA ReadStep ==
  ASSUME Types, NEW g \in Goroutines,
         ReadGet(g) \/ ReadLen(g) \/ ReadRange(g) \/ ReadSample(g)
  PROVE  \E locals, more, next : Reads(g, locals, more, next)
<1> USE DEF Reads
<1>1. loc[g] \in Locals /\ loc[g].s \in Shards /\ loc[g].key \in Keys
  BY Zenon DEF Types, Locals
<1>2. ASSUME ReadGet(g) PROVE \E l, m, n : Reads(g, l, m, n)
  <2> DEFINE l == [loc[g] EXCEPT !.old = table[loc[g].key]]
  <2>1. table[loc[g].key] \in Vals \cup {Absent}
    BY <1>1, Zenon DEF Types
  <2>2. l \in Locals /\ l.op = loc[g].op /\ l.s = loc[g].s
        /\ l.key = loc[g].key /\ l.val = loc[g].val
    BY <1>1, <2>1, Zenon DEF Locals
  <2>3. ReadThen(g, l, FALSE, 0)
    BY <1>2, Zenon DEF ReadGet
  <2> HIDE DEF l
  <2>4. Reads(g, l, FALSE, 0)
    BY <2>2, <2>3, Zenon
  <2> QED  BY <2>4, Zenon
<1>3. loc[g].s < NShards - 1 => loc[g].s + 1 \in Shards
  BY <1>1, ShardMapAssumption DEF Shards
<1>4. (loc[g].s < NShards - 1) \in BOOLEAN
  OBVIOUS
<1>5. ASSUME ReadLen(g) PROVE \E l, m, n : Reads(g, l, m, n)
  <2> DEFINE l == [loc[g] EXCEPT !.n = @ + count[loc[g].s]]
  <2>1. loc[g].n + count[loc[g].s] \in Int
    BY <1>1, FS_CardinalityType, ShardMapAssumption DEF Types, Locals
  <2>2. l \in Locals /\ l.op = loc[g].op /\ l.s = loc[g].s
        /\ l.key = loc[g].key /\ l.val = loc[g].val
    BY <1>1, <2>1, Zenon DEF Locals
  <2>3. ReadThen(g, l, loc[g].s < NShards - 1, loc[g].s + 1)
        /\ loc[g].op \in Scans
    BY <1>5, Zenon DEF ReadLen, Scans
  <2> HIDE DEF l
  <2>4. Reads(g, l, loc[g].s < NShards - 1, loc[g].s + 1)
    BY <1>3, <1>4, <2>2, <2>3, Zenon
  <2> QED  BY <2>4, Zenon
<1>6. ASSUME ReadRange(g) PROVE \E l, m, n : Reads(g, l, m, n)
  <2> DEFINE entries == stored \cap ownedBy(loc[g].s)
             all == [loc[g] EXCEPT !.out = @ \cup entries]
             some(passed) == [loc[g] EXCEPT !.out = @ \cup passed, !.n = 1]
  <2>1. entries \subseteq Keys /\ loc[g].out \subseteq Keys
    BY <1>1, Zenon DEF stored, Locals
  <2>2. all \in Locals /\ all.op = loc[g].op /\ all.s = loc[g].s
        /\ all.key = loc[g].key /\ all.val = loc[g].val
    <3> HIDE DEF entries
    <3> QED  BY <1>1, <2>1, Zenon DEF Locals
  <2>3. ASSUME NEW passed \in SUBSET entries
        PROVE  some(passed) \in Locals /\ some(passed).op = loc[g].op
               /\ some(passed).s = loc[g].s /\ some(passed).key = loc[g].key
               /\ some(passed).val = loc[g].val
    <3> DEFINE o == loc[g].out \cup passed
    <3>1. o \in SUBSET Keys
      BY <2>1, Zenon
    <3>2. some(passed) = [loc[g] EXCEPT !.out = o, !.n = 1]
      BY <1>1, Zenon DEF Locals
    <3> DEFINE r == [loc[g] EXCEPT !.out = o]
    <3>3. r \in Locals /\ r.op = loc[g].op /\ r.s = loc[g].s
          /\ r.key = loc[g].key /\ r.val = loc[g].val
      <4> HIDE DEF entries, o
      <4> QED  BY <1>1, <3>1, Zenon DEF Locals
    <3>4. some(passed) = [r EXCEPT !.n = 1]
      BY <3>2, Zenon
    <3> HIDE DEF entries, o, some, r
    <3> QED  BY <3>3, <3>4 DEF Locals
  <2>4. \/ ReadThen(g, all, loc[g].s < NShards - 1, loc[g].s + 1)
        \/ \E passed \in SUBSET entries : ReadThen(g, some(passed), FALSE, 0)
    BY <1>6, Zenon DEF ReadRange
  <2>5. loc[g].op \in Scans
    BY <1>6, Zenon DEF ReadRange, Scans
  <2> HIDE DEF entries, all, some
  <2>6. CASE ReadThen(g, all, loc[g].s < NShards - 1, loc[g].s + 1)
    <3>1. Reads(g, all, loc[g].s < NShards - 1, loc[g].s + 1)
      BY <1>3, <1>4, <2>2, <2>5, <2>6, Zenon
    <3> QED  BY <3>1, Zenon
  <2>7. ASSUME NEW passed \in SUBSET entries,
               ReadThen(g, some(passed), FALSE, 0)
        PROVE  \E l, m, n : Reads(g, l, m, n)
    <3>1. Reads(g, some(passed), FALSE, 0)
      BY <2>3, <2>7, Zenon
    <3> QED  BY <3>1, Zenon
  <2> QED  BY <2>4, <2>6, <2>7, Zenon
<1>7. ASSUME ReadSample(g) PROVE \E l, m, n : Reads(g, l, m, n)
  <2> DEFINE drawn == IF count[loc[g].s] = 0 THEN {NoReply}
                      ELSE stored \cap ownedBy(loc[g].s)
             outOf(k) == loc[g].out \cup (IF k = NoReply THEN {} ELSE {k})
             l(k) == [loc[g] EXCEPT !.out = outOf(k),
                                    !.budget = loc[g].budget - 1]
             m(k) == Cardinality(outOf(k)) < SampleN /\ loc[g].budget - 1 > 0
  <2>1. PICK k \in drawn, s \in Shards : ReadThen(g, l(k), m(k), s)
    BY <1>7, Zenon DEF ReadSample, Draw
  <2>2. outOf(k) \subseteq Keys
    BY <1>1, <2>1, Zenon DEF stored, Locals
  <2>3. loc[g].budget - 1 \in Int
    BY <1>1 DEF Locals
  <2>4. l(k) \in Locals /\ l(k).op = loc[g].op /\ l(k).s = loc[g].s
        /\ l(k).key = loc[g].key /\ l(k).val = loc[g].val
    <3> HIDE DEF outOf
    <3> QED  BY <1>1, <2>2, <2>3, Zenon DEF Locals
  <2>5. loc[g].op \in Scans
    BY <1>7, Zenon DEF ReadSample, Scans
  <2>6. m(k) \in BOOLEAN
    BY Zenon
  <2> HIDE DEF l, m, drawn
  <2>7. Reads(g, l(k), m(k), s)
    BY <2>1, <2>4, <2>5, <2>6, Zenon
  <2> QED  BY <2>7, Zenon
<1> QED  BY <1>2, <1>5, <1>6, <1>7, Zenon

\* A step that takes and releases no lock and leaves every goroutine that
\* holds one where it is.
LEMMA SameHolders ==
  ASSUME Exclusive, UNCHANGED <<readers, writer>>,
         \A h \in Goroutines :
           /\ (pc[h] \in Held) = (pc'[h] \in Held)
           /\ (pc'[h] = "read") => (pc[h] = "read")
           /\ pc[h] \in Held \cup {"read"} => loc'[h].s = loc[h].s
  PROVE  Exclusive'
<1>1. WriterAlone' /\ ReaderKnown'
  BY Zenon DEF Exclusive, WriterAlone, ReaderKnown
<1>2. WriterKnown' /\ OneSide'
  BY Zenon DEF Exclusive, WriterKnown, OneSide
<1> QED  BY <1>1, <1>2, Zenon DEF Exclusive

\* Who is in which shard: preserved by every step.
LEMMA LockNext == LockInv /\ [Next]_vars => LockInv'
<1> SUFFICES ASSUME LockInv, [Next]_vars PROVE LockInv'
  BY Zenon
<1> USE DEF LockInv
<1>1. ASSUME NEW g \in Goroutines, Start(g) PROVE LockInv'
  <2>1. PICK l : Entered(l) /\ Call(g, l)
    BY <1>1, StartCall, Zenon
  <2>2. stored \subseteq Keys
    BY Zenon DEF stored
  <2>3. l.op \in Writes \cup Scans \cup {"Get"}
    BY <2>1, ShardMapAssumption, Zenon DEF Entered
  <2>4. Types'
    BY <2>1, <2>2, ShardMapAssumption
       DEF Types, Entered, Call, Goto, Labels, locks
  <2>5. pc' = [pc EXCEPT ![g] = IF l.op \in Writes THEN "lock" ELSE "rlock"]
        /\ loc' = [loc EXCEPT ![g] = l] /\ pc[g] = "idle"
        /\ UNCHANGED <<readers, writer>>
    BY <2>1, Zenon DEF Call, Goto, locks
  <2>6. Placed'
    BY <2>1, <2>3, <2>5, ZenonT(30) DEF Types, Placed, Entered, Held
  <2>7. Exclusive'
    BY <2>5, SameHolders DEF Types, Held
  <2> QED  BY <2>4, <2>6, <2>7, Zenon
<1>2. ASSUME NEW g \in Goroutines, RLock(g) PROVE LockInv'
  <2>1. loc[g].s \in Shards
    BY Zenon DEF Types, Locals
  <2>2. Types'
    BY <1>2, <2>1, Zenon DEF RLock, Types, Goto, Labels, history
  <2>3. Placed'
    BY <1>2, Zenon DEF RLock, Types, Placed, Goto, Held
  <2>4. WriterAlone' /\ WriterKnown'
    BY <1>2 DEF RLock, Types, Exclusive, WriterAlone, WriterKnown, Goto, Held
  <2>5. ReaderKnown' /\ OneSide'
    BY <1>2, <2>1 DEF RLock, Types, Exclusive, ReaderKnown, OneSide, Goto
  <2> QED  BY <2>2, <2>3, <2>4, <2>5, Zenon DEF Exclusive
<1>3. ASSUME NEW g \in Goroutines, Lock(g) PROVE LockInv'
  <2>1. loc[g].s \in Shards
    BY Zenon DEF Types, Locals
  <2>2. Types'
    BY <1>3, <2>1, Zenon DEF Lock, Types, Goto, Labels, Held, history
  <2>3. Placed'
    BY <1>3, Zenon DEF Lock, Types, Placed, Goto, Held
  <2>4. \A h \in Goroutines : loc[h].s \in Shards
    BY Zenon DEF Types, Locals
  <2>5. ASSUME NEW h \in Goroutines, pc'[h] \in Held
        PROVE  writer'[loc'[h].s] = {h}
    <3>1. CASE h = g
      BY <1>3, <2>1, <3>1, Zenon DEF Lock, Types
    <3>2. CASE h # g
      <4>1. pc[h] \in Held /\ loc'[h] = loc[h]
        BY <1>3, <2>5, <3>2, Zenon DEF Lock, Types, Goto
      <4>2. writer[loc[h].s] = {h} /\ writer[loc[g].s] = {}
        BY <1>3, <4>1, Zenon DEF Lock, Exclusive, WriterAlone
      <4> QED  BY <1>3, <2>1, <2>4, <4>1, <4>2, Zenon DEF Lock, Types
    <3> QED  BY <3>1, <3>2, Zenon
  <2>6. WriterKnown'
    BY <1>3, <2>1 DEF Lock, Types, Exclusive, WriterKnown, Goto, Held
  <2>7. ReaderKnown' /\ OneSide'
    BY <1>3, <2>1, Zenon DEF Lock, Types, Exclusive, ReaderKnown, OneSide, Goto
  <2> QED  BY <2>2, <2>3, <2>5, <2>6, <2>7, Zenon DEF Exclusive, WriterAlone
<1>4. ASSUME NEW g \in Goroutines, Lookup(g) PROVE LockInv'
  <2> DEFINE found == IF loc[g].op = "Set" THEN Absent ELSE table[loc[g].key]
  <2>1. loc[g] \in Locals /\ found \in Vals \cup {Absent}
    BY Zenon DEF Types, Locals
  <2>2. loc' = [loc EXCEPT ![g] = [loc[g] EXCEPT !.old = found]]
        /\ pc' = [pc EXCEPT ![g] = "store"] /\ pc[g] = "lookup"
        /\ UNCHANGED <<table, count, readers, writer, calls, always, ever>>
    BY <1>4, Zenon DEF Lookup, Goto, locks, history, Types
  <2> HIDE DEF found
  <2>3. [loc[g] EXCEPT !.old = found] \in Locals
    BY <2>1, Zenon DEF Locals
  <2>4. Types'
    BY <2>2, <2>3, Zenon DEF Types, Labels, Held
  <2>5. loc'[g].op = loc[g].op /\ loc'[g].s = loc[g].s
        /\ loc'[g].key = loc[g].key
    BY <2>1, <2>2, Zenon DEF Types, Locals
  <2>6. Placed'
    BY <2>2, <2>5, ZenonT(30) DEF Types, Placed, Held
  <2>7. Exclusive'
    BY <2>2, <2>5, SameHolders DEF Types, Held
  <2> QED  BY <2>4, <2>6, <2>7, Zenon
<1>5. ASSUME NEW g \in Goroutines, Store(g) PROVE LockInv'
  <2> DEFINE k == loc[g].key
             v == IF loc[g].op = "Delete" THEN Absent ELSE loc[g].val
             d == CASE v # Absent /\ table[k] = Absent -> 1
                    [] v = Absent /\ table[k] # Absent -> -1
                    [] OTHER -> 0
  <2>1. loc[g] \in Locals /\ k \in Keys /\ v \in Vals \cup {Absent} /\ d \in Int
    BY DEF Types, Locals
  <2>2. loc' = [loc EXCEPT ![g] = [loc[g] EXCEPT !.n = d]]
        /\ pc' = [pc EXCEPT ![g] = "count"] /\ pc[g] = "store"
        /\ table' = [table EXCEPT ![k] = v]
        /\ UNCHANGED <<count, readers, writer, calls>>
    BY <1>5, Zenon DEF Store, Goto, locks, Types
  <2>3. always' \in [Goroutines -> SUBSET Keys]
        /\ ever' \in [Goroutines -> SUBSET Keys]
    BY <1>5, <2>1, Zenon DEF Store, Types
  <2> HIDE DEF d, k, v
  <2>4. [loc[g] EXCEPT !.n = d] \in Locals
    BY <2>1, Zenon DEF Locals
  <2>5. Types'
    BY <2>1, <2>2, <2>3, <2>4, Zenon DEF Types, Labels, Held
  <2>6. loc'[g].op = loc[g].op /\ loc'[g].s = loc[g].s
        /\ loc'[g].key = loc[g].key
    BY <2>1, <2>2, Zenon DEF Types, Locals
  <2>7. Placed'
    BY <2>2, <2>6, ZenonT(30) DEF Types, Placed, Held
  <2>8. Exclusive'
    BY <2>2, <2>6, SameHolders DEF Types, Held
  <2> QED  BY <2>5, <2>7, <2>8, Zenon
<1>6. ASSUME NEW g \in Goroutines, Count(g) PROVE LockInv'
  <2>1. loc[g].s \in Shards /\ loc[g].n \in Int
    BY Zenon DEF Types, Locals
  <2>2. writer[loc[g].s] = {g}
    BY <1>6, Zenon DEF Count, Exclusive, WriterAlone, Held
  <2>3. pc' = [pc EXCEPT ![g] = "idle"] /\ pc[g] = "count"
        /\ loc' = [loc EXCEPT ![g] = NoLocals]
        /\ writer' = [writer EXCEPT ![loc[g].s] = {}]
        /\ UNCHANGED <<table, readers, calls>>
    BY <1>6, <2>2, Zenon DEF Count, Forget, Goto, Types
  <2>4. Types'
    BY <1>6, <2>1, <2>3, NoLocalsType DEF Count, Forget, Types, Labels
  <2>5. Placed'
    BY <2>3, Zenon DEF Types, Placed, Held
  <2>6. WriterAlone'
    <3> SUFFICES ASSUME NEW h \in Goroutines, pc'[h] \in Held
                 PROVE  writer'[loc'[h].s] = {h}
      BY Zenon DEF WriterAlone
    <3>1. h # g /\ pc[h] \in Held /\ loc'[h] = loc[h]
      BY <2>3, Zenon DEF Types, Held
    <3>2. writer[loc[h].s] = {h} /\ loc[h].s \in Shards
      BY <3>1, Zenon DEF Exclusive, WriterAlone, Types, Locals
    <3> QED  BY <2>1, <2>2, <2>3, <3>1, <3>2, Zenon DEF Types
  <2>7. WriterKnown'
    BY <2>1, <2>2, <2>3, ZenonT(30) DEF Types, Exclusive, WriterKnown, Held
  <2>8. ReaderKnown' /\ OneSide'
    BY <2>1, <2>3, Zenon DEF Types, Exclusive, ReaderKnown, OneSide
  <2> QED  BY <2>4, <2>5, <2>6, <2>7, <2>8, Zenon DEF Exclusive
<1>7. ASSUME NEW g \in Goroutines,
             ReadGet(g) \/ ReadLen(g) \/ ReadRange(g) \/ ReadSample(g)
      PROVE  LockInv'
  <2>1. PICK l, more, next : Reads(g, l, more, next)
    BY <1>7, ReadStep, Zenon
  <2>2. loc[g] \in Locals /\ loc[g].s \in Shards
    BY Zenon DEF Types, Locals
  <2> DEFINE new == IF more THEN [l EXCEPT !.s = next] ELSE l
  <2>3. new \in Locals /\ new.op = loc[g].op
        /\ (loc[g].op \notin Scans => new.s = loc[g].s)
        /\ new.key = loc[g].key
    BY <2>1, Zenon DEF Reads, Locals
  <2>4. loc' = [loc EXCEPT ![g] = new] /\ pc[g] = "read"
        /\ pc' = [pc EXCEPT ![g] = IF more THEN "rlock" ELSE "done"]
        /\ readers' = [readers EXCEPT ![loc[g].s] = @ \ {g}]
        /\ UNCHANGED <<table, count, writer, calls, always, ever>>
    BY <2>1, Zenon DEF Reads, ReadThen, Goto, history
  <2> HIDE DEF new
  <2>5. Types'
    BY <2>2, <2>3, <2>4, Zenon DEF Types, Labels
  <2>6. Placed'
    BY <2>3, <2>4, ZenonT(30) DEF Types, Placed, Held
  <2>7. WriterAlone' /\ WriterKnown'
    BY <2>4, SMTT(30) DEF Types, Exclusive, WriterAlone, WriterKnown, Held
  <2>8. ReaderKnown' /\ OneSide'
    BY <2>2, <2>4 DEF Types, Exclusive, ReaderKnown, OneSide
  <2> QED  BY <2>5, <2>6, <2>7, <2>8, Zenon DEF Exclusive
<1>8. ASSUME NEW g \in Goroutines, Return(g) PROVE LockInv'
  <2>1. Types'
    BY <1>8, NoLocalsType, Zenon DEF Return, Forget, Goto, locks, Types, Labels
  <2>2. Placed'
    BY <1>8, Zenon DEF Return, Forget, Goto, Types, Placed, Held
  <2>3. Exclusive'
    BY <1>8, SameHolders, SMTT(30) DEF Return, Forget, Goto, locks, Types, Held
  <2> QED  BY <2>1, <2>2, <2>3, Zenon
<1>9. CASE UNCHANGED vars
  BY <1>9, Zenon
     DEF vars, locks, history, Types, Placed, Exclusive, WriterAlone,
         WriterKnown, ReaderKnown, OneSide
<1> QED  BY <1>1, <1>2, <1>3, <1>4, <1>5, <1>6, <1>7, <1>8, <1>9, Zenon
            DEF Next, Body, Finished

-----------------------------------------------------------------------------
(* No reader finds a torn table. *)

size(s) == Cardinality(stored \cap ownedBy(s))

\* The counter is that of the slots, except while the goroutine between Store
\* and Count still owes it its change.
Counted ==
  /\ count \in [Shards -> 0..Cardinality(Keys)]
  /\ \A s \in Shards : writer[s] = {} => count[s] = size(s)
  /\ \A g \in Goroutines :
       /\ pc[g] \in {"lookup", "store"} => count[loc[g].s] = size(loc[g].s)
       /\ pc[g] = "count" => count[loc[g].s] + loc[g].n = size(loc[g].s)

\* A shard has no more entries than there are keys.
LEMMA SizeType ==
  \A s : /\ IsFiniteSet(stored \cap ownedBy(s))
         /\ size(s) \in 0..Cardinality(Keys)
<1> TAKE s
<1>1. stored \cap ownedBy(s) \in SUBSET Keys
  BY Zenon DEF stored
<1>2. IsFiniteSet(stored \cap ownedBy(s))
      /\ Cardinality(stored \cap ownedBy(s)) <= Cardinality(Keys)
  BY <1>1, FS_Subset, ShardMapAssumption, Zenon
<1>3. Cardinality(stored \cap ownedBy(s)) \in Nat /\ Cardinality(Keys) \in Nat
  BY <1>2, FS_CardinalityType, ShardMapAssumption, Zenon
<1> QED  BY <1>2, <1>3 DEF size

\* What Store does to the slots of a shard.
LEMMA StoreSize ==
  ASSUME LockInv, NEW g \in Goroutines, Store(g)
  PROVE  /\ \A s \in Shards \ {loc[g].s} : size(s)' = size(s)
         /\ size(loc[g].s)' = size(loc[g].s) + loc'[g].n
         /\ loc'[g].s = loc[g].s
<1> DEFINE k == loc[g].key
           v == IF loc[g].op = "Delete" THEN Absent ELSE loc[g].val
           E == stored \cap ownedBy(loc[g].s)
<1>1. k \in Keys /\ loc[g].s = ShardOf[k] /\ v \in Vals \cup {Absent}
  <2>1. pc[g] = "store"
    BY Zenon DEF Store
  <2>2. loc[g].op \in Writes
    BY <2>1, Zenon DEF LockInv, Placed, Held
  <2> QED  BY <2>1, <2>2, Zenon
              DEF LockInv, Types, Placed, Held, Locals, Writes, Scans
<1>2. table \in [Keys -> Vals \cup {Absent}] /\ table' = [table EXCEPT ![k] = v]
  BY Zenon DEF LockInv, Types, Store
<1>3. loc'[g].s = loc[g].s
      /\ loc'[g].n = CASE v # Absent /\ table[k] = Absent -> 1
                      [] v = Absent /\ table[k] # Absent -> -1
                      [] OTHER -> 0
  BY ZenonT(30) DEF Store, LockInv, Types, Locals
<1>4. stored' = IF v = Absent THEN stored \ {k} ELSE stored \cup {k}
  <2> HIDE DEF v, k
  <2> QED  BY <1>1, <1>2, Zenon DEF stored
<1>5. k \in stored <=> table[k] # Absent
  BY <1>1, Zenon DEF stored
<1>6. IsFiniteSet(E) /\ size(loc[g].s) = Cardinality(E)
      /\ Cardinality(E) \in Nat
  BY SizeType, FS_CardinalityType, Zenon DEF size
<1>7. \A s \in Shards \ {loc[g].s} : size(s)' = size(s)
  <2> HIDE DEF v
  <2> SUFFICES ASSUME NEW s \in Shards \ {loc[g].s}
               PROVE  (stored \cap ownedBy(s))' = stored \cap ownedBy(s)
    BY Zenon DEF size
  <2>1. k \notin ownedBy(s)
    BY <1>1, Zenon DEF ownedBy
  <2> QED  BY <1>4, <2>1, Zenon DEF ownedBy
<1>8. k \in ownedBy(loc[g].s)
  BY <1>1, Zenon DEF ownedBy
<1>9. size(loc[g].s)' = Cardinality(stored' \cap ownedBy(loc[g].s))
  BY <1>3, Zenon DEF size, ownedBy
<1>10. CASE v = Absent
  <2>1. stored' \cap ownedBy(loc[g].s) = E \ {k}
    BY <1>4, <1>10, Zenon
  <2>2. k \in E <=> table[k] # Absent
    BY <1>5, <1>8, Zenon
  <2> HIDE DEF E, v
  <2>3. Cardinality(E \ {k}) =
          IF k \in E THEN Cardinality(E) - 1 ELSE Cardinality(E)
    BY <1>6, FS_RemoveElement, Zenon
  <2>4. loc'[g].n = IF k \in E THEN -1 ELSE 0
    BY <1>3, <1>10, <2>2, Zenon
  <2>5. size(loc[g].s)' = size(loc[g].s) + loc'[g].n
    <3>1. size(loc[g].s)' = Cardinality(E \ {k})
      BY <1>9, <2>1, Zenon
    <3> HIDE DEF k
    <3>2. CASE k \in E
      <4>1. loc'[g].n = -1 /\ Cardinality(E \ {k}) = Cardinality(E) - 1
        BY <2>3, <2>4, <3>2, Zenon
      <4> QED  BY <1>6, <3>1, <4>1, Zenon
    <3>3. CASE k \notin E
      <4>1. loc'[g].n = 0 /\ Cardinality(E \ {k}) = Cardinality(E)
        BY <2>3, <2>4, <3>3, Zenon
      <4> QED  BY <1>6, <3>1, <4>1
    <3> QED  BY <3>2, <3>3, Zenon
  <2> QED  BY <1>3, <1>7, <2>5, Zenon
<1>11. CASE v # Absent
  <2>1. stored' \cap ownedBy(loc[g].s) = E \cup {k}
    BY <1>4, <1>8, <1>11, Zenon
  <2>2. k \in E <=> table[k] # Absent
    BY <1>5, <1>8, Zenon
  <2> HIDE DEF E, v
  <2>3. Cardinality(E \cup {k}) =
          IF k \in E THEN Cardinality(E) ELSE Cardinality(E) + 1
    BY <1>6, FS_AddElement, Zenon
  <2>4. loc'[g].n = IF k \in E THEN 0 ELSE 1
    BY <1>3, <1>11, <2>2, Zenon
  <2>5. size(loc[g].s)' = size(loc[g].s) + loc'[g].n
    <3> HIDE DEF k
    <3> QED  BY <1>6, <1>9, <2>1, <2>3, <2>4
  <2> QED  BY <1>3, <1>7, <2>5, Zenon
<1> QED  BY <1>10, <1>11, Zenon

\* A step that leaves slots, counters and write locks alone, and every
\* goroutine that holds one before its Count.
LEMMA SameCounts ==
  ASSUME Counted, UNCHANGED <<table, count, writer>>,
         \A h \in Goroutines :
           /\ pc'[h] \in Held => /\ pc[h] \in Held /\ loc'[h].s = loc[h].s
                                 /\ pc'[h] = "count" =>
                                      pc[h] = "count" /\ loc'[h].n = loc[h].n
                                 /\ pc'[h] # "count" => pc[h] # "count"
  PROVE  Counted'
<1>1. \A s : size(s)' = size(s)
  BY Zenon DEF size, stored, ownedBy
<1>2. ASSUME NEW h \in Goroutines
      PROVE  /\ pc'[h] \in {"lookup", "store"} =>
                  count'[loc'[h].s] = size(loc[h].s)'
             /\ pc'[h] = "count" =>
                  count'[loc'[h].s] + loc'[h].n = size(loc[h].s)'
  <2>1. size(loc[h].s)' = Cardinality(stored \cap ownedBy(loc'[h].s))
    BY Zenon DEF size, stored, ownedBy
  <2> QED  BY <2>1, Zenon DEF Counted, Held, size
<1> QED  BY <1>1, <1>2, Zenon DEF Counted

LEMMA CountedNext == LockInv /\ Counted /\ [Next]_vars => Counted'
<1> SUFFICES ASSUME LockInv, Counted, [Next]_vars PROVE Counted'
  BY Zenon
<1>0. pc \in [Goroutines -> Labels] /\ loc \in [Goroutines -> Locals]
      /\ writer \in [Shards -> SUBSET Goroutines]
      /\ \A h \in Goroutines : loc[h].s \in Shards /\ loc[h].n \in Int
  BY Zenon DEF LockInv, Types, Locals
<1>1. ASSUME NEW g \in Goroutines, Start(g) PROVE Counted'
  <2>1. PICK l : Call(g, l)
    BY <1>1, StartCall, Zenon
  <2> QED  BY <1>0, <2>1, SameCounts, Zenon DEF Call, Goto, Held, locks
<1>2. ASSUME NEW g \in Goroutines, RLock(g) PROVE Counted'
  BY <1>0, <1>2, SameCounts, Zenon DEF RLock, Goto, Held
<1>3. ASSUME NEW g \in Goroutines, Lock(g) PROVE Counted'
  <2>1. \A s : size(s)' = size(s)
    BY <1>3, Zenon DEF Lock, size, stored, ownedBy
  <2>2. \A h \in Goroutines : size(loc[h].s)' = size(loc[h].s)
    BY <1>3, Zenon DEF Lock, size, stored, ownedBy
  <2>3. count[loc[g].s] = size(loc[g].s)
    BY <1>0, <1>3, Zenon DEF Lock, Counted
  <2>4. \A s \in Shards : writer'[s] = {} => writer[s] = {}
    BY <1>0, <1>3, Zenon DEF Lock
  <2> QED  BY <1>0, <1>3, <2>1, <2>2, <2>3, <2>4, Zenon DEF Lock, Goto, Counted
<1>4. ASSUME NEW g \in Goroutines, Lookup(g) PROVE Counted'
  <2>1. loc'[g].s = loc[g].s
    BY <1>0, <1>4, Zenon DEF Lookup, Locals
  <2> QED  BY <1>0, <1>4, <2>1, SameCounts, Zenon DEF Lookup, Goto, Held, locks
<1>5. ASSUME NEW g \in Goroutines, Store(g) PROVE Counted'
  <2>1. /\ \A s \in Shards \ {loc[g].s} : size(s)' = size(s)
        /\ size(loc[g].s)' = size(loc[g].s) + loc'[g].n
        /\ loc'[g].s = loc[g].s
    BY <1>5, StoreSize, Zenon
  <2>2. pc[g] = "store" /\ pc' = [pc EXCEPT ![g] = "count"]
        /\ UNCHANGED <<count, writer>>
        /\ \A h \in Goroutines \ {g} : loc'[h] = loc[h]
    BY <1>0, <1>5, Zenon DEF Store, Goto, locks
  <2>3. writer[loc[g].s] = {g}
    BY <2>2, Zenon DEF LockInv, Exclusive, WriterAlone, Held
  <2>4. ASSUME NEW h \in Goroutines \ {g}, pc[h] \in Held
        PROVE  loc[h].s # loc[g].s /\ size(loc[h].s)' = size(loc[h].s)
    <3>1. writer[loc[h].s] = {h}
      BY <2>4, Zenon DEF LockInv, Exclusive, WriterAlone
    <3>2. loc[h].s \in Shards \ {loc[g].s}
      BY <1>0, <2>3, <3>1, Zenon
    <3>3. size(loc[h].s)' = Cardinality(stored' \cap ownedBy(loc[h].s))
      BY <2>2, Zenon DEF size, ownedBy
    <3>4. size(loc[h].s) = Cardinality(stored' \cap ownedBy(loc[h].s))
      BY <2>1, <3>2, Zenon DEF size, ownedBy
    <3> QED  BY <3>2, <3>3, <3>4, Zenon
  <2>5. \A s \in Shards : writer'[s] = {} => count'[s] = size(s)'
    BY <2>1, <2>2, <2>3, Zenon DEF Counted
  <2>6. count'[loc'[g].s] + loc'[g].n = size(loc[g].s)'
    BY <2>1, <2>2, Zenon DEF Counted
  <2>7. ASSUME NEW h \in Goroutines
        PROVE  /\ pc'[h] \in {"lookup", "store"} =>
                    count'[loc'[h].s] = size(loc[h].s)'
               /\ pc'[h] = "count" =>
                    count'[loc'[h].s] + loc'[h].n = size(loc[h].s)'
    BY <1>0, <2>2, <2>4, <2>6, Zenon DEF Counted, Held
  <2> QED  BY <2>2, <2>5, <2>7, Zenon DEF Counted
<1>6. ASSUME NEW g \in Goroutines, Count(g) PROVE Counted'
  <2>1. pc[g] = "count" /\ pc' = [pc EXCEPT ![g] = "idle"]
        /\ table' = table
        /\ count' = [count EXCEPT ![loc[g].s] = @ + loc[g].n]
        /\ \A h \in Goroutines \ {g} : loc'[h] = loc[h]
    BY <1>0, <1>6, Zenon DEF Count, Forget, Goto
  <2>2. writer[loc[g].s] = {g}
    BY <2>1, Zenon DEF LockInv, Exclusive, WriterAlone, Held
  <2>3. \A s : size(s)' = size(s) /\ size(s) \in 0..Cardinality(Keys)
    BY <2>1, SizeType, Zenon DEF size, stored, ownedBy
  <2>4. count[loc[g].s] + loc[g].n = size(loc[g].s)
    BY <2>1, Zenon DEF Counted
  <2>5. count' = [count EXCEPT ![loc[g].s] = size(loc[g].s)]
    BY <1>0, <2>1, <2>4, Zenon DEF Counted
  <2>6. count' \in [Shards -> 0..Cardinality(Keys)]
    BY <1>0, <2>3, <2>5, Zenon DEF Counted
  <2>7. \A s \in Shards \ {loc[g].s} : writer'[s] = writer[s]
    BY <1>0, <1>6, Zenon DEF Count
  <2>8. \A s \in Shards : writer'[s] = {} => count'[s] = size(s)'
    BY <1>0, <2>3, <2>5, <2>7, Zenon DEF Counted
  <2>9. ASSUME NEW h \in Goroutines, pc'[h] \in Held
        PROVE  /\ pc[h] = pc'[h] /\ loc'[h] = loc[h]
               /\ count'[loc[h].s] = count[loc[h].s]
               /\ size(loc[h].s)' = size(loc[h].s)
    <3>1. h # g /\ pc[h] = pc'[h] /\ loc'[h] = loc[h]
      BY <1>0, <2>1, <2>9, Zenon DEF Held
    <3>2. writer[loc[h].s] = {h}
      BY <2>9, <3>1, Zenon DEF LockInv, Exclusive, WriterAlone
    <3>3. loc[h].s # loc[g].s
      BY <2>2, <3>1, <3>2, Zenon
    <3>4. size(loc[h].s)' = size(loc[h].s)
      BY <2>1, <3>1, Zenon DEF size, stored, ownedBy
    <3> QED  BY <1>0, <2>5, <3>1, <3>3, <3>4, Zenon DEF Counted
  <2>10. ASSUME NEW h \in Goroutines
        PROVE  /\ pc'[h] \in {"lookup", "store"} =>
                    count'[loc'[h].s] = size(loc[h].s)'
               /\ pc'[h] = "count" =>
                    count'[loc'[h].s] + loc'[h].n = size(loc[h].s)'
    BY <2>9 DEF Counted, Held
  <2> QED  BY <2>6, <2>8, <2>10, Zenon DEF Counted
<1>7. ASSUME NEW g \in Goroutines,
             ReadGet(g) \/ ReadLen(g) \/ ReadRange(g) \/ ReadSample(g)
      PROVE  Counted'
  <2>1. PICK l, more, next : Reads(g, l, more, next)
    BY <1>7, ReadStep, Zenon DEF LockInv
  <2> QED  BY <1>0, <2>1, SameCounts, Zenon DEF Reads, ReadThen, Goto, Held
<1>8. ASSUME NEW g \in Goroutines, Return(g) PROVE Counted'
  BY <1>0, <1>8, SameCounts, Zenon DEF Return, Forget, Goto, Held, locks
<1>9. CASE UNCHANGED vars
  BY <1>0, <1>9, SameCounts, Zenon DEF vars, locks
<1> QED  BY <1>1, <1>2, <1>3, <1>4, <1>5, <1>6, <1>7, <1>8, <1>9, Zenon
            DEF Next, Body, Finished

LEMMA TableInvHolds == Spec => [](LockInv /\ Counted)
<1>1. Init => LockInv
  BY LockInit, Zenon
<1>2. ASSUME Init PROVE Counted
  <2>1. stored = {}
    BY <1>2, Zenon DEF Init, stored
  <2>2. \A s : size(s) = 0
    <3> TAKE s
    <3>1. stored \cap ownedBy(s) = {}
      BY <2>1, Zenon
    <3> QED  BY <3>1, FS_EmptySet, Zenon DEF size
  <2>3. Cardinality(Keys) \in Nat
    BY FS_CardinalityType, ShardMapAssumption, Zenon
  <2> QED  BY <1>2, <2>2, <2>3 DEF Init, Counted
<1>3. LockInv /\ Counted /\ [Next]_vars => (LockInv /\ Counted)'
  BY LockNext, CountedNext, Zenon
<1> QED  BY <1>1, <1>2, <1>3, PTL DEF Spec

\* Under the read lock the counter is that of the slots.
LEMMA ReaderSees ==
  ASSUME LockInv, Counted, NEW g \in Goroutines, pc[g] = "read"
  PROVE  count[loc[g].s] = size(loc[g].s)
<1>1. g \in readers[loc[g].s] /\ loc[g].s \in Shards
  BY Zenon DEF LockInv, Exclusive, ReaderKnown, Types, Locals
<1>2. writer[loc[g].s] = {}
  BY <1>1, Zenon DEF LockInv, Exclusive, OneSide
<1> QED  BY <1>1, <1>2, Zenon DEF Counted

\* map.go:131 to 225 and sample.go:65 to 79: whoever reads a shard under its read
\* lock, and whoever comes to one that nobody writes, finds slots and counter in
\* agreement.
THEOREM NeverTornHolds == Spec => []NeverTorn
<1>1. ASSUME LockInv, Counted PROVE NeverTorn
  <2>1. TypeOK
    BY <1>1, Zenon DEF LockInv, Counted, Types, TypeOK, Locals, Labels, Held
  <2>2. ASSUME NEW g \in Goroutines, pc[g] = "read"
        PROVE  count[loc[g].s] = size(loc[g].s)
    BY <1>1, <2>2, ReaderSees, Zenon
  <2> QED  BY <1>1, <2>1, <2>2, Zenon DEF NeverTorn, Counted, size
<1> QED  BY <1>1, TableInvHolds, PTL

-----------------------------------------------------------------------------
(* Single-key operations are atomic. *)

\* What a write has looked up is still there when it stores.
Found ==
  \A g \in Goroutines :
    pc[g] = "store" =>
      loc[g].old = IF loc[g].op = "Set" THEN Absent ELSE table[loc[g].key]

LEMMA FoundNext == LockInv /\ Found /\ [Next]_vars => Found'
<1> SUFFICES ASSUME LockInv, Found, [Next]_vars PROVE Found'
  BY Zenon
<1>0. pc \in [Goroutines -> Labels] /\ loc \in [Goroutines -> Locals]
      /\ table \in [Keys -> Vals \cup {Absent}]
      /\ \A h \in Goroutines : loc[h].key \in Keys
  BY Zenon DEF LockInv, Types, Locals
<1>1. ASSUME NEW g \in Goroutines,
             \/ \E l : Call(g, l)
             \/ RLock(g) \/ Lock(g) \/ Count(g) \/ Return(g)
             \/ \E l, m, n : ReadThen(g, l, m, n)
      PROVE  Found'
  BY <1>0, <1>1
     DEF Found, Call, RLock, Lock, Count, Return, ReadThen, Forget, Goto
<1>2. ASSUME NEW g \in Goroutines, Lookup(g) PROVE Found'
  <2>1. loc'[g].op = loc[g].op /\ loc'[g].key = loc[g].key
        /\ loc'[g].old =
             IF loc[g].op = "Set" THEN Absent ELSE table[loc[g].key]
    BY <1>0, <1>2, ZenonT(30) DEF Lookup, Locals
  <2> QED  BY <1>0, <1>2, <2>1, ZenonT(30) DEF Found, Lookup, Goto
<1>3. ASSUME NEW g \in Goroutines, Store(g) PROVE Found'
  <2> SUFFICES ASSUME NEW h \in Goroutines, pc'[h] = "store"
               PROVE  loc'[h].old =
                        IF loc'[h].op = "Set" THEN Absent
                        ELSE table'[loc'[h].key]
    BY Zenon DEF Found
  <2>1. h # g /\ pc[h] = "store" /\ loc'[h] = loc[h] /\ pc[g] = "store"
    BY <1>0, <1>3, Zenon DEF Store, Goto
  <2>2. writer[loc[h].s] = {h} /\ writer[loc[g].s] = {g}
    BY <2>1, Zenon DEF LockInv, Exclusive, WriterAlone, Held
  <2>3. loc[h].s = ShardOf[loc[h].key] /\ loc[g].s = ShardOf[loc[g].key]
    <3>1. loc[h].op \in Writes /\ loc[g].op \in Writes
      BY <2>1, Zenon DEF LockInv, Placed, Held
    <3> QED  BY <2>1, <3>1, Zenon DEF LockInv, Placed, Writes, Scans
  <2>4. loc[h].key # loc[g].key
    BY <2>1, <2>2, <2>3, Zenon
  <2>5. table'[loc[h].key] = table[loc[h].key]
    BY <1>0, <1>3, <2>4, Zenon DEF Store
  <2> QED  BY <2>1, <2>5, Zenon DEF Found
<1>4. CASE UNCHANGED vars
  BY <1>4, Zenon DEF vars, Found
<1>5. ASSUME NEW g \in Goroutines, Start(g) PROVE \E l : Call(g, l)
  BY <1>5, StartCall, Zenon
<1>6. ASSUME NEW g \in Goroutines,
             ReadGet(g) \/ ReadLen(g) \/ ReadRange(g) \/ ReadSample(g)
      PROVE  \E l, m, n : ReadThen(g, l, m, n)
  BY <1>6, ReadStep, Zenon DEF LockInv, Reads
<1> QED  BY <1>1, <1>2, <1>3, <1>4, <1>5, <1>6, Zenon DEF Next, Body, Finished

\* The operation and the answer that AtomicMap sees.
LEMMA Seen ==
  ASSUME NEW at \in Labels, NEW l \in Locals
  PROVE  /\ at = "idle" \/ l.op \in Scans =>
              callOf(at, l) = NoCall /\ replyOf(at, l) = NoReply
         /\ at # "idle" /\ l.op \in {"Get", "Delete"} =>
              callOf(at, l) = [op |-> l.op, key |-> l.key]
         /\ at # "idle" /\ l.op \in {"Set", "Swap"} =>
              callOf(at, l) = [op |-> l.op, key |-> l.key, val |-> l.val]
         /\ at \notin {"count", "done"} => replyOf(at, l) = NoReply
         /\ at \in {"count", "done"} /\ l.op \notin Scans =>
              replyOf(at, l) = l.old
<1>1. at = "idle" \/ l.op \in Scans =>
        callOf(at, l) = NoCall /\ replyOf(at, l) = NoReply
  BY Zenon DEF callOf, replyOf, Scans
<1>2. at # "idle" /\ l.op \in {"Get", "Delete"} =>
        callOf(at, l) = [op |-> l.op, key |-> l.key]
  BY Zenon DEF callOf, Scans
<1>3. at # "idle" /\ l.op \in {"Set", "Swap"} =>
        callOf(at, l) = [op |-> l.op, key |-> l.key, val |-> l.val]
  BY Zenon DEF callOf, Scans
<1>4. /\ at \notin {"count", "done"} => replyOf(at, l) = NoReply
      /\ at \in {"count", "done"} /\ l.op \notin Scans =>
           replyOf(at, l) = l.old
  BY Zenon DEF replyOf
<1> QED  BY <1>1, <1>2, <1>3, <1>4, Zenon

callBar == [g \in Goroutines |-> callOf(pc[g], loc[g])]
replyBar == [g \in Goroutines |-> replyOf(pc[g], loc[g])]

\* A step of g takes it to label at with locals l.
Moves(g, at, l) ==
  pc' = [pc EXCEPT ![g] = at] /\ loc' = [loc EXCEPT ![g] = l]

\* A step of g changes only what AtomicMap sees of g.
LEMMA SeenStep ==
  ASSUME Types, NEW g \in Goroutines, NEW at, NEW l,
         Moves(g, at, l)
  PROVE  /\ callBar' = [callBar EXCEPT ![g] = callOf(at, l)]
         /\ replyBar' = [replyBar EXCEPT ![g] = replyOf(at, l)]
<1>1. pc'[g] = at /\ loc'[g] = l
      /\ \A h \in Goroutines \ {g} : pc'[h] = pc[h] /\ loc'[h] = loc[h]
  BY Zenon DEF Types, Moves
<1>2. callBar' = [h \in Goroutines |-> callOf(pc'[h], loc'[h])]
      /\ replyBar' = [h \in Goroutines |-> replyOf(pc'[h], loc'[h])]
  BY Zenon DEF callBar, replyBar, callOf, replyOf
<1>3. \A h \in Goroutines :
        /\ callOf(pc'[h], loc'[h]) =
             IF h = g THEN callOf(at, l) ELSE callOf(pc[h], loc[h])
        /\ replyOf(pc'[h], loc'[h]) =
             IF h = g THEN replyOf(at, l) ELSE replyOf(pc[h], loc[h])
  BY <1>1, Zenon
<1> QED  BY <1>2, <1>3, Zenon DEF callBar, replyBar

MapStep == Atomic!Next \/ UNCHANGED <<table, callBar, replyBar>>

\* The four ways a step of g looks to AtomicMap: nothing, a call, an operation
\* that takes effect, a return.
LEMMA Stutters ==
  ASSUME Types, NEW g \in Goroutines, NEW at, NEW l,
         Moves(g, at, l),
         table' = table,
         callOf(at, l) = callOf(pc[g], loc[g]),
         replyOf(at, l) = replyOf(pc[g], loc[g])
  PROVE  MapStep
<1>1. callBar' = [callBar EXCEPT ![g] = callOf(at, l)]
      /\ replyBar' = [replyBar EXCEPT ![g] = replyOf(at, l)]
  BY SeenStep
<1>2. callBar[g] = callOf(at, l) /\ replyBar[g] = replyOf(at, l)
  BY Zenon DEF callBar, replyBar
<1>3. callBar = [callBar EXCEPT ![g] = callBar[g]]
      /\ replyBar = [replyBar EXCEPT ![g] = replyBar[g]]
  BY Zenon DEF callBar, replyBar
<1> QED  BY <1>1, <1>2, <1>3, Zenon DEF MapStep

LEMMA Invokes ==
  ASSUME Types, NEW g \in Goroutines, NEW at, NEW l,
         Moves(g, at, l),
         table' = table,
         callOf(pc[g], loc[g]) = NoCall,
         callOf(at, l) \in Atomic!Operations,
         replyOf(at, l) = replyOf(pc[g], loc[g])
  PROVE  MapStep
<1>1. callBar' = [callBar EXCEPT ![g] = callOf(at, l)]
      /\ replyBar' = [replyBar EXCEPT ![g] = replyOf(at, l)]
  BY SeenStep
<1>2. callBar[g] = NoCall /\ replyBar[g] = replyOf(at, l)
  BY Zenon DEF callBar, replyBar
<1>3. replyBar = [replyBar EXCEPT ![g] = replyBar[g]]
  BY Zenon DEF replyBar
<1>4. Atomic!Invoke(g, callOf(at, l))
  BY <1>1, <1>2, <1>3, Zenon DEF Atomic!Invoke, callBar, replyBar
<1> QED  BY <1>4, Zenon DEF MapStep, Atomic!Next

LEMMA Performs ==
  ASSUME Types, NEW g \in Goroutines, NEW at, NEW l,
         Moves(g, at, l),
         callOf(pc[g], loc[g]) # NoCall,
         replyOf(pc[g], loc[g]) = NoReply,
         callOf(at, l) = callOf(pc[g], loc[g]),
         table' = Atomic!after(callOf(at, l)),
         replyOf(at, l) = Atomic!answer(callOf(at, l))
  PROVE  MapStep
<1>1. callBar' = [callBar EXCEPT ![g] = callOf(at, l)]
      /\ replyBar' = [replyBar EXCEPT ![g] = replyOf(at, l)]
  BY SeenStep, SMTT(30)
<1>2. callBar[g] = callOf(at, l) /\ callBar[g] # NoCall
      /\ replyBar[g] = NoReply
  BY Zenon DEF callBar, replyBar
<1>3. callBar = [callBar EXCEPT ![g] = callBar[g]]
  BY Zenon DEF callBar
<1>4. Atomic!Perform(g)
  BY <1>1, <1>2, <1>3, Zenon DEF Atomic!Perform, callBar, replyBar
<1> QED  BY <1>4, Zenon DEF MapStep, Atomic!Next

LEMMA Responds ==
  ASSUME Types, NEW g \in Goroutines,
         Moves(g, "idle", NoLocals),
         table' = table,
         replyOf(pc[g], loc[g]) # NoReply
  PROVE  MapStep
<1>1. callOf("idle", NoLocals) = NoCall /\ replyOf("idle", NoLocals) = NoReply
  BY Seen, NoLocalsType, Zenon DEF Labels
<1>2. callBar' = [callBar EXCEPT ![g] = NoCall]
      /\ replyBar' = [replyBar EXCEPT ![g] = NoReply]
  BY <1>1, SeenStep, SMTT(30)
<1>3. replyBar[g] # NoReply
  BY Zenon DEF replyBar
<1>4. Atomic!Respond(g)
  BY <1>2, <1>3, Zenon DEF Atomic!Respond, callBar, replyBar
<1> QED  BY <1>4, Zenon DEF MapStep, Atomic!Next

LEMMA RefinesNext == LockInv /\ Found /\ [Next]_vars => MapStep
<1> SUFFICES ASSUME LockInv, Found, [Next]_vars PROVE MapStep
  BY Zenon
<1>0. Types /\ Placed
      /\ \A h \in Goroutines : pc[h] \in Labels /\ loc[h] \in Locals
  BY Zenon DEF LockInv, Types
<1>1. ASSUME NEW g \in Goroutines, Start(g) PROVE MapStep
  <2>1. PICK l : Entered(l) /\ Call(g, l)
    BY <1>1, StartCall, Zenon
  <2> DEFINE at == IF l.op \in Writes THEN "lock" ELSE "rlock"
  <2>2. Moves(g, at, l) /\ table' = table /\ pc[g] = "idle"
    BY <2>1, Zenon DEF Call, Goto, Moves
  <2>3. at \in Labels /\ at \notin {"idle", "count", "done"}
        /\ l \in Locals /\ l.op \in Writes \cup Scans \cup {"Get"}
    BY <2>1, ShardMapAssumption, Zenon DEF Labels, Held, Entered
  <2>4. callOf(pc[g], loc[g]) = NoCall /\ replyOf(pc[g], loc[g]) = NoReply
    BY <1>0, <2>2, Seen, Zenon
  <2> HIDE DEF at
  <2>5. replyOf(at, l) = NoReply
    BY <2>3, Seen, Zenon
  <2>6. CASE l.op \in Scans
    <3>1. callOf(at, l) = NoCall
      BY <2>3, <2>6, Seen, Zenon
    <3> QED  BY <1>0, <2>2, <2>4, <2>5, <3>1, Stutters, Zenon
  <2>7. CASE l.op \in {"Get", "Delete"}
    <3>1. callOf(at, l) = [op |-> l.op, key |-> l.key]
      BY <2>3, <2>7, Seen, Zenon
    <3>2. callOf(at, l) \in Atomic!Operations
      BY <2>3, <2>7, <3>1, SMTT(30) DEF Atomic!Operations, Locals
    <3> QED  BY <1>0, <2>2, <2>4, <2>5, <3>2, Invokes, Zenon
  <2>8. CASE l.op \in {"Set", "Swap"}
    <3>1. callOf(at, l) = [op |-> l.op, key |-> l.key, val |-> l.val]
      BY <2>3, <2>8, Seen, Zenon
    <3>2. callOf(at, l) \in Atomic!Operations
      BY <2>3, <2>8, <3>1, SMTT(30) DEF Atomic!Operations, Locals
    <3> QED  BY <1>0, <2>2, <2>4, <2>5, <3>2, Invokes, Zenon
  <2> QED  BY <2>3, <2>6, <2>7, <2>8, Zenon DEF Writes
<1>2. ASSUME NEW g \in Goroutines, NEW at \in Labels, NEW l \in Locals,
             Moves(g, at, l), table' = table, pc[g] # "idle", at # "idle",
             loc[g].op # "none", l.op = loc[g].op, l.key = loc[g].key,
             l.val = loc[g].val,
             l.op \in Scans \/ {at, pc[g]} \cap {"count", "done"} = {}
      PROVE  MapStep
  <2>1. callOf(at, l) = callOf(pc[g], loc[g])
    BY <1>0, <1>2, Seen, SMTT(30) DEF Locals, Writes
  <2>2. replyOf(at, l) = replyOf(pc[g], loc[g])
    BY <1>0, <1>2, Seen, ZenonT(30)
  <2> QED  BY <1>0, <1>2, <2>1, <2>2, Stutters, Zenon
<1>3. ASSUME NEW g \in Goroutines, RLock(g) \/ Lock(g) PROVE MapStep
  <2> DEFINE at == IF pc[g] = "lock" THEN "lookup" ELSE "read"
  <2>1. Moves(g, at, loc[g]) /\ table' = table /\ pc[g] \in {"lock", "rlock"}
    BY <1>0, <1>3, Zenon DEF RLock, Lock, Goto, Moves, Types
  <2>2. loc[g].op # "none"
    BY <1>0, <2>1, Zenon DEF Placed, Writes, Scans
  <2> QED  BY <1>0, <1>2, <2>1, <2>2, Zenon DEF Labels, Held
<1>4. ASSUME NEW g \in Goroutines, Lookup(g) PROVE MapStep
  <2> DEFINE found == IF loc[g].op = "Set" THEN Absent ELSE table[loc[g].key]
             l == [loc[g] EXCEPT !.old = found]
  <2>1. found \in Vals \cup {Absent}
    BY <1>0, Zenon DEF Types, Locals
  <2>2. Moves(g, "store", l) /\ table' = table /\ pc[g] = "lookup"
    BY <1>4, Zenon DEF Lookup, Goto, Moves
  <2>3. loc[g].op # "none"
    BY <1>0, <2>2, Zenon DEF Placed, Held, Writes
  <2> HIDE DEF found
  <2>4. l \in Locals /\ l.op = loc[g].op /\ l.key = loc[g].key
        /\ l.val = loc[g].val
    BY <1>0, <2>1, Zenon DEF Locals
  <2> HIDE DEF l
  <2> QED  BY <1>0, <1>2, <2>2, <2>3, <2>4, Zenon DEF Labels, Held
<1>5. ASSUME NEW g \in Goroutines, Store(g) PROVE MapStep
  <2> DEFINE k == loc[g].key
             v == IF loc[g].op = "Delete" THEN Absent ELSE loc[g].val
             d == CASE v # Absent /\ table[k] = Absent -> 1
                    [] v = Absent /\ table[k] # Absent -> -1
                    [] OTHER -> 0
             l == [loc[g] EXCEPT !.n = d]
             c == callOf(pc[g], loc[g])
  <2>1. Moves(g, "count", l) /\ table' = [table EXCEPT ![k] = v]
        /\ pc[g] = "store"
    BY <1>5, Zenon DEF Store, Goto, Moves
  <2>2. d \in Int
    OBVIOUS
  <2>3. loc[g].op \in Writes /\ k \in Keys /\ loc[g].val \in Vals
    BY <1>0, <2>1, Zenon DEF Placed, Held, Locals
  <2>4. loc[g].old = IF loc[g].op = "Set" THEN Absent ELSE table[k]
    BY <2>1, Zenon DEF Found
  <2>5. l \in Locals /\ l.op = loc[g].op /\ l.key = k /\ l.val = loc[g].val
        /\ l.old = loc[g].old
    <3> HIDE DEF d
    <3> QED  BY <1>0, <2>2, Zenon DEF Locals
  <2> HIDE DEF d, l
  <2>6. replyOf(pc[g], loc[g]) = NoReply /\ replyOf("count", l) = l.old
    BY <1>0, <2>1, <2>3, <2>5, Seen, Zenon DEF Labels, Held, Writes, Scans
  <2>7. CASE loc[g].op = "Delete"
    <3>1. c = [op |-> "Delete", key |-> k] /\ callOf("count", l) = c
      BY <1>0, <2>1, <2>5, <2>7, Seen, SMTT(60) DEF Labels, Held
    <3>2. c # NoCall
      BY <2>3, <3>1, ShardMapAssumption
    <3>3. c.op = "Delete" /\ c.key = k
      BY <3>1
    <3> HIDE DEF c, k
    <3>4. Atomic!after(c) = [table EXCEPT ![k] = Absent]
      BY <3>3, Zenon DEF Atomic!after
    <3>5. Atomic!answer(c) = table[k]
      BY <3>3, Zenon DEF Atomic!answer
    <3> QED  BY <1>0, <2>1, <2>4, <2>5, <2>6, <2>7, <3>1, <3>2, <3>4, <3>5,
                Performs, ZenonT(30) DEF c
  <2>8. CASE loc[g].op \in {"Set", "Swap"}
    <3>1. c = [op |-> loc[g].op, key |-> k, val |-> loc[g].val]
          /\ callOf("count", l) = c
      BY <1>0, <2>1, <2>5, <2>8, Seen, SMTT(30) DEF Labels, Held
    <3>2. c # NoCall
      BY <2>3, <2>8, <3>1, ShardMapAssumption, SMTT(60)
    <3>3. c.op = loc[g].op /\ c.key = k /\ c.val = loc[g].val
      BY <3>1
    <3> HIDE DEF c, k
    <3>4. Atomic!after(c) = [table EXCEPT ![k] = loc[g].val]
      BY <2>8, <3>3, Zenon DEF Atomic!after
    <3>5. Atomic!answer(c) = IF loc[g].op = "Set" THEN Absent ELSE table[k]
      BY <3>3, Zenon DEF Atomic!answer
    <3>6. v = loc[g].val
      BY <2>8, Zenon
    <3>7. table' = Atomic!after(callOf("count", l))
      BY <2>1, <3>1, <3>4, <3>6, Zenon
    <3>8. replyOf("count", l) = Atomic!answer(callOf("count", l))
      BY <2>4, <2>5, <2>6, <3>1, <3>5, Zenon
    <3> HIDE DEF v
    <3> QED  BY <1>0, <2>1, <2>6, <3>1, <3>2, <3>7, <3>8, Performs, Zenon DEF c
  <2> QED  BY <2>3, <2>7, <2>8, Zenon DEF Writes
<1>6. ASSUME NEW g \in Goroutines, Count(g) PROVE MapStep
  <2>1. Moves(g, "idle", NoLocals) /\ table' = table /\ pc[g] = "count"
    BY <1>6, Zenon DEF Count, Forget, Goto, Moves
  <2>2. loc[g].op \in Writes /\ loc[g].old \in Vals \cup {Absent}
    BY <1>0, <2>1, Zenon DEF Placed, Held, Locals
  <2>3. replyOf(pc[g], loc[g]) # NoReply
    BY <1>0, <2>1, <2>2, Seen, ShardMapAssumption, ZenonT(30) DEF Writes, Scans
  <2> QED  BY <1>0, <2>1, <2>3, Responds, Zenon
<1>7. ASSUME NEW g \in Goroutines, ReadGet(g) PROVE MapStep
  <2> DEFINE k == loc[g].key
             l == [loc[g] EXCEPT !.old = table[k]]
             c == callOf(pc[g], loc[g])
  <2>1. Moves(g, "done", l) /\ table' = table /\ pc[g] = "read"
        /\ loc[g].op = "Get"
    BY <1>7, Zenon DEF ReadGet, ReadThen, Goto, Moves
  <2>2. k \in Keys /\ table[k] \in Vals \cup {Absent}
    BY <1>0, Zenon DEF Types, Locals
  <2>3. l \in Locals /\ l.op = "Get" /\ l.key = k /\ l.old = table[k]
    BY <1>0, <2>1, <2>2, ZenonT(30) DEF Locals
  <2> HIDE DEF l
  <2>4. replyOf(pc[g], loc[g]) = NoReply /\ replyOf("done", l) = table[k]
    BY <1>0, <2>1, <2>3, Seen, Zenon DEF Labels, Scans
  <2>5. c = [op |-> "Get", key |-> k] /\ callOf("done", l) = c
    BY <1>0, <2>1, <2>3, Seen, SMTT(60) DEF Labels
  <2>6. c # NoCall
    BY <2>2, <2>5, ShardMapAssumption, SMTT(60)
  <2>7. c.op = "Get" /\ c.key = k
    BY <2>5
  <2> HIDE DEF c, k
  <2>8. Atomic!after(c) = table /\ Atomic!answer(c) = table[k]
    BY <2>7, Zenon DEF Atomic!after, Atomic!answer
  <2> QED  BY <1>0, <2>1, <2>4, <2>5, <2>6, <2>8, Performs, Zenon DEF c
<1>8. ASSUME NEW g \in Goroutines, ReadLen(g) \/ ReadRange(g) \/ ReadSample(g)
      PROVE  MapStep
  <2>1. PICK l, more, next : Reads(g, l, more, next)
    BY <1>0, <1>8, ReadStep, Zenon
  <2> DEFINE new == IF more THEN [l EXCEPT !.s = next] ELSE l
             at == IF more THEN "rlock" ELSE "done"
  <2>2. Moves(g, at, new) /\ table' = table /\ pc[g] = "read"
    BY <2>1, Zenon DEF Reads, ReadThen, Goto, Moves
  <2>3. loc[g].op \in Scans
    BY <1>8, Zenon DEF ReadLen, ReadRange, ReadSample, Scans
  <2>4. new \in Locals /\ new.op = loc[g].op /\ new.key = loc[g].key
        /\ new.val = loc[g].val
    BY <2>1, Zenon DEF Reads, Locals
  <2>5. at \in Labels /\ at # "idle" /\ loc[g].op # "none"
    BY <2>3, Zenon DEF Labels, Scans
  <2> HIDE DEF new, at
  <2> QED  BY <1>2, <2>2, <2>3, <2>4, <2>5, Zenon
<1>9. ASSUME NEW g \in Goroutines, Return(g) PROVE MapStep
  <2>1. Moves(g, "idle", NoLocals) /\ table' = table /\ pc[g] = "done"
    BY <1>9, Zenon DEF Return, Forget, Goto, Moves
  <2>2. CASE loc[g].op \in Scans
    <3>1. callOf("idle", NoLocals) = NoCall
          /\ replyOf("idle", NoLocals) = NoReply
      BY Seen, NoLocalsType, Zenon DEF Labels
    <3>2. callOf(pc[g], loc[g]) = NoCall /\ replyOf(pc[g], loc[g]) = NoReply
      BY <1>0, <2>2, Seen, Zenon
    <3> QED  BY <1>0, <2>1, <3>1, <3>2, Stutters, Zenon
  <2>3. CASE loc[g].op \notin Scans
    <3>1. loc[g].old \in Vals \cup {Absent}
      BY <1>0, Zenon DEF Locals
    <3>2. replyOf(pc[g], loc[g]) # NoReply
      BY <1>0, <2>1, <2>3, <3>1, Seen, ShardMapAssumption, Zenon
    <3> QED  BY <1>0, <2>1, <3>2, Responds, Zenon
  <2> QED  BY <2>2, <2>3, Zenon
<1>10. CASE UNCHANGED vars
  BY <1>10 DEF vars, MapStep, callBar, replyBar, callOf, replyOf
<1> QED  BY <1>1, <1>3, <1>4, <1>5, <1>6, <1>7, <1>8, <1>9, <1>10, Zenon
            DEF Next, Body, Finished

\* map.go:131 to 179: every Get, Set, Swap and Delete takes effect at one
\* instant between its call and its return, and answers with what the map held
\* under its key at that instant, however the goroutines interleave.
THEOREM AtomicMapImplemented == Spec => ImplementsAtomicMap
<1>1. Init => Atomic!Init /\ Found
  <2> SUFFICES ASSUME Init PROVE Atomic!Init /\ Found
    BY Zenon
  <2>1. \A g \in Goroutines : pc[g] = "idle" /\ loc[g] = NoLocals
    BY Zenon DEF Init
  <2>2. callOf("idle", NoLocals) = NoCall
        /\ replyOf("idle", NoLocals) = NoReply
    BY Seen, NoLocalsType, Zenon DEF Labels
  <2> QED  BY <2>1, <2>2, Zenon DEF Init, Atomic!Init, Found
<1>2. Spec => [](LockInv /\ Found)
  BY <1>1, LockInit, LockNext, FoundNext, PTL DEF Spec
<1>3. LockInv /\ Found /\ [Next]_vars =>
        [Atomic!Next]_<<table, [g \in Goroutines |-> callOf(pc[g], loc[g])],
                        [g \in Goroutines |-> replyOf(pc[g], loc[g])]>>
  BY RefinesNext, Zenon DEF MapStep, callBar, replyBar
<1> QED  BY <1>1, <1>2, <1>3, PTL DEF Spec, ImplementsAtomicMap, Atomic!Spec

-----------------------------------------------------------------------------
(* What the scans return. *)

visited(s) == {k \in Keys : ShardOf[k] < s}
covered(at, s) == IF at = "done" THEN Keys ELSE visited(s)

\* What a scan at label at with locals l has found so far, against the keys a
\* that were stored all the time and the keys e stored at some time.
ScanOK(at, l, a, e) ==
  /\ l.op = "Len" =>
       /\ Cardinality(a \cap covered(at, l.s)) <= l.n
       /\ l.n <= Cardinality(e \cap covered(at, l.s))
  /\ l.op = "Range" =>
       /\ l.out \subseteq e
       /\ at # "done" => l.n = 0
       /\ l.n = 0 => a \cap covered(at, l.s) \subseteq l.out
  /\ l.op = "Sample" =>
       /\ l.out \subseteq e /\ Cardinality(l.out) <= SampleN
       /\ at # "done" => Cardinality(l.out) < SampleN
       /\ at = "done" /\ (\A s \in Shards : a \cap ownedBy(s) # {}) =>
            l.out # {}

\* For every call under way, the keys stored all the time are stored now, and
\* those stored now were at some time.
ScanInv ==
  \A g \in Goroutines :
    pc[g] # "idle" =>
      /\ always[g] \subseteq stored /\ stored \subseteq ever[g]
      /\ ScanOK(pc[g], loc[g], always[g], ever[g])

\* The promise only weakens while other goroutines store and delete.
LEMMA ScanWeaker ==
  ASSUME NEW at, NEW l \in Locals, NEW a \in SUBSET Keys, NEW e \in SUBSET Keys,
         NEW a2 \in SUBSET a, NEW e2 \in SUBSET Keys, e \subseteq e2,
         ScanOK(at, l, a, e)
  PROVE  ScanOK(at, l, a2, e2)
<1> DEFINE c == covered(at, l.s)
<1>1. a \cap c \in SUBSET Keys /\ e2 \cap c \in SUBSET Keys
      /\ a2 \cap c \in SUBSET (a \cap c) /\ e \cap c \in SUBSET (e2 \cap c)
  BY Zenon
<1> HIDE DEF c
<1>2. IsFiniteSet(a \cap c) /\ IsFiniteSet(e2 \cap c)
  BY <1>1, FS_Subset, ShardMapAssumption, Zenon
<1>3. IsFiniteSet(a2 \cap c) /\ Cardinality(a2 \cap c) <= Cardinality(a \cap c)
  BY <1>1, <1>2, FS_Subset, Zenon
<1>4. IsFiniteSet(e \cap c) /\ Cardinality(e \cap c) <= Cardinality(e2 \cap c)
  BY <1>1, <1>2, FS_Subset, Zenon
<1>5. Cardinality(a \cap c) \in Nat /\ Cardinality(a2 \cap c) \in Nat
      /\ Cardinality(e \cap c) \in Nat /\ Cardinality(e2 \cap c) \in Nat
      /\ l.n \in Int
  BY <1>2, <1>3, <1>4, FS_CardinalityType, Zenon DEF Locals
<1>6. l.op = "Len" => Cardinality(a2 \cap c) <= l.n /\ l.n <= Cardinality(e2 \cap c)
  BY <1>3, <1>4, <1>5, SMTT(60) DEF ScanOK, c
<1>7. \A s : a \cap ownedBy(s) = {} => a2 \cap ownedBy(s) = {}
  BY Zenon
<1> QED  BY <1>6, <1>7, Zenon DEF ScanOK, c

\* A step that is not a scan's answer leaves its promise as it is.
LEMMA ScanGoesOn ==
  ASSUME NEW at, NEW at2, at # "done", at2 # "done", NEW l, NEW a, NEW e,
         ScanOK(at, l, a, e)
  PROVE  ScanOK(at2, l, a, e)
BY Zenon DEF ScanOK, covered

\* The keys of the shards up to s are those before it and its own.
LEMMA NextShard ==
  ASSUME NEW s \in Shards, NEW a \in SUBSET Keys,
         NEW v, v = (IF s < NShards - 1 THEN visited(s + 1) ELSE Keys)
  PROVE  /\ a \cap v = (a \cap visited(s)) \cup (a \cap ownedBy(s))
         /\ Cardinality(a \cap v) =
              Cardinality(a \cap visited(s)) + Cardinality(a \cap ownedBy(s))
         /\ Cardinality(a \cap v) \in Nat
         /\ Cardinality(a \cap visited(s)) \in Nat
         /\ Cardinality(a \cap ownedBy(s)) \in Nat
<1>1. \A k \in Keys : ShardOf[k] \in 0..(NShards - 1)
  BY ShardMapAssumption, Zenon DEF Shards
<1>2. s \in Nat /\ s <= NShards - 1 /\ NShards \in Nat
  BY ShardMapAssumption DEF Shards
<1>3. \A k \in Keys : k \in v <=> k \in visited(s) \/ k \in ownedBy(s)
  <2>1. CASE s < NShards - 1
    BY <1>1, <1>2, <2>1, SMTT(30) DEF visited, ownedBy
  <2>2. CASE ~(s < NShards - 1)
    BY <1>1, <1>2, <2>2 DEF visited, ownedBy
  <2> QED  BY <2>1, <2>2, Zenon
<1>4. a \cap v = (a \cap visited(s)) \cup (a \cap ownedBy(s))
  BY <1>3, Zenon
<1>5. (a \cap visited(s)) \cap (a \cap ownedBy(s)) = {}
  BY <1>1, <1>2, SMTT(30) DEF visited, ownedBy
<1>6. IsFiniteSet(a)
  BY FS_Subset, ShardMapAssumption, Zenon
<1>7. IsFiniteSet(a \cap visited(s)) /\ IsFiniteSet(a \cap ownedBy(s))
      /\ IsFiniteSet(a \cap v)
  BY <1>6, FS_Intersection, Zenon
<1>8. /\ Cardinality(a \cap v) \in Nat
      /\ Cardinality(a \cap visited(s)) \in Nat
      /\ Cardinality(a \cap ownedBy(s)) \in Nat
  BY <1>7, FS_CardinalityType, Zenon
<1>9. Cardinality(a \cap v) =
        Cardinality(a \cap visited(s)) + Cardinality(a \cap ownedBy(s)) - 0
  BY <1>4, <1>5, <1>7, FS_Union, FS_EmptySet
<1> QED  BY <1>4, <1>8, <1>9

\* One reading step of each scan, on shard s with the stored keys t: at2 and l2
\* are the label and the locals it leaves.
LEMMA LenStep ==
  ASSUME LockInv, Counted, NEW g \in Goroutines, ReadLen(g), pc[g] = "read",
         NEW a \in SUBSET stored, NEW e \in SUBSET Keys, stored \subseteq e,
         ScanOK(pc[g], loc[g], a, e)
  PROVE  ScanOK(pc'[g], loc'[g], a, e)
<1> DEFINE s == loc[g].s
           l == [loc[g] EXCEPT !.n = @ + count[loc[g].s]]
           more == s < NShards - 1
           v == IF more THEN visited(s + 1) ELSE Keys
           own(b) == Cardinality(b \cap ownedBy(s))
           old(b) == Cardinality(b \cap visited(s))
<1>1. loc[g] \in Locals /\ s \in Shards /\ loc[g].n \in Int
      /\ count[s] = own(stored) /\ loc[g].op = "Len"
  BY ReaderSees, Zenon DEF LockInv, Types, Locals, ReadLen, size
<1>2. pc'[g] = (IF more THEN "rlock" ELSE "done")
      /\ loc'[g] = (IF more THEN [l EXCEPT !.s = s + 1] ELSE l)
  BY Zenon DEF ReadLen, ReadThen, Goto, LockInv, Types
<1>3. loc'[g].op = "Len" /\ loc'[g].n = loc[g].n + own(stored)
      /\ covered(pc'[g], loc'[g].s) = v
  BY <1>1, <1>2, Zenon DEF Locals, covered
<1>4. stored \in SUBSET Keys /\ a \in SUBSET Keys
  BY Zenon DEF stored
<1>5. old(a) <= loc[g].n /\ loc[g].n <= old(e)
  BY <1>1, Zenon DEF ScanOK, covered
<1>6. /\ Cardinality(a \cap v) = old(a) + own(a) /\ old(a) \in Nat
      /\ own(a) \in Nat
      /\ Cardinality(e \cap v) = old(e) + own(e) /\ old(e) \in Nat
      /\ own(e) \in Nat
  <2>1. s \in Shards
    BY <1>1, Zenon
  <2> HIDE DEF s
  <2> QED  BY <2>1, <1>4, NextShard, Zenon
<1>7. own(a) <= own(stored) /\ own(stored) <= own(e) /\ own(stored) \in Nat
  <2>1. IsFiniteSet(stored \cap ownedBy(s)) /\ IsFiniteSet(e \cap ownedBy(s))
    <3>1. IsFiniteSet(stored) /\ IsFiniteSet(e)
      BY <1>4, FS_Subset, ShardMapAssumption, Zenon
    <3> QED  BY <3>1, FS_Intersection, Zenon
  <2>2. a \cap ownedBy(s) \in SUBSET (stored \cap ownedBy(s))
        /\ stored \cap ownedBy(s) \in SUBSET (e \cap ownedBy(s))
    BY Zenon
  <2> QED  BY <2>1, <2>2, FS_Subset, FS_CardinalityType, Zenon
<1> HIDE DEF old, own, v, s, l
<1>8. Cardinality(a \cap v) <= loc'[g].n /\ loc'[g].n <= Cardinality(e \cap v)
  BY <1>1, <1>3, <1>5, <1>6, <1>7, SMTT(60)
<1> QED  BY <1>3, <1>8, Zenon DEF ScanOK

LEMMA RangeStep ==
  ASSUME LockInv, NEW g \in Goroutines, ReadRange(g), pc[g] = "read",
         NEW a \in SUBSET stored, NEW e \in SUBSET Keys, stored \subseteq e,
         ScanOK(pc[g], loc[g], a, e)
  PROVE  ScanOK(pc'[g], loc'[g], a, e)
<1> DEFINE s == loc[g].s
           entries == stored \cap ownedBy(s)
           all == [loc[g] EXCEPT !.out = @ \cup entries]
           some(p) == [loc[g] EXCEPT !.out = @ \cup p, !.n = 1]
           more == s < NShards - 1
           v == IF more THEN visited(s + 1) ELSE Keys
<1>1. loc[g] \in Locals /\ s \in Shards /\ loc[g].op = "Range"
      /\ pc \in [Goroutines -> Labels] /\ loc \in [Goroutines -> Locals]
  BY Zenon DEF LockInv, Types, Locals, ReadRange
<1>2. loc[g].out \subseteq e /\ loc[g].n = 0 /\ a \cap visited(s) \subseteq loc[g].out
  BY <1>1, Zenon DEF ScanOK, covered
<1>3. CASE ReadThen(g, all, more, s + 1)
  <2>1. pc'[g] = (IF more THEN "rlock" ELSE "done")
        /\ loc'[g] = (IF more THEN [all EXCEPT !.s = s + 1] ELSE all)
    BY <1>1, <1>3, Zenon DEF ReadThen, Goto
  <2>2. loc'[g].op = "Range" /\ loc'[g].n = 0
        /\ loc'[g].out = loc[g].out \cup entries
        /\ covered(pc'[g], loc'[g].s) = v
    BY <1>1, <1>2, <2>1, Zenon DEF Locals, covered
  <2>3. a \cap v = (a \cap visited(s)) \cup (a \cap ownedBy(s))
    <3>1. a \in SUBSET Keys /\ s \in Shards
      BY <1>1, Zenon DEF stored
    <3> HIDE DEF s
    <3> QED  BY <3>1, NextShard, Zenon
  <2>4. a \cap v \subseteq loc'[g].out /\ loc'[g].out \subseteq e
    BY <1>2, <2>2, <2>3, Zenon
  <2> QED  BY <2>2, <2>4, Zenon DEF ScanOK
<1>4. ASSUME NEW p \in SUBSET entries, ReadThen(g, some(p), FALSE, 0)
      PROVE  ScanOK(pc'[g], loc'[g], a, e)
  <2>1. pc'[g] = "done" /\ loc'[g] = some(p)
    BY <1>1, <1>4, Zenon DEF ReadThen, Goto
  <2>2. loc'[g].op = "Range" /\ loc'[g].n = 1 /\ loc'[g].out = loc[g].out \cup p
    BY <1>1, <2>1, Zenon DEF Locals
  <2> QED  BY <1>2, <2>1, <2>2 DEF ScanOK
<1> QED  BY <1>3, <1>4, Zenon DEF ReadRange

LEMMA SampleStep ==
  ASSUME LockInv, Counted, NEW g \in Goroutines, ReadSample(g), pc[g] = "read",
         NEW a \in SUBSET stored, NEW e \in SUBSET Keys, stored \subseteq e,
         ScanOK(pc[g], loc[g], a, e)
  PROVE  ScanOK(pc'[g], loc'[g], a, e)
<1> DEFINE s == loc[g].s
           drawn == IF count[s] = 0 THEN {NoReply} ELSE stored \cap ownedBy(s)
           outOf(k) == loc[g].out \cup (IF k = NoReply THEN {} ELSE {k})
           l(k) == [loc[g] EXCEPT !.out = outOf(k),
                                  !.budget = loc[g].budget - 1]
           m(k) == Cardinality(outOf(k)) < SampleN /\ loc[g].budget - 1 > 0
<1>1. loc[g] \in Locals /\ s \in Shards /\ loc[g].op = "Sample"
      /\ pc \in [Goroutines -> Labels] /\ loc \in [Goroutines -> Locals]
  BY Zenon DEF LockInv, Types, Locals, ReadSample
<1>2. loc[g].out \subseteq e /\ Cardinality(loc[g].out) < SampleN
  BY <1>1, Zenon DEF ScanOK
<1>3. PICK k \in drawn, next \in Shards : ReadThen(g, l(k), m(k), next)
  BY Zenon DEF ReadSample, Draw
<1>4. pc'[g] = (IF m(k) THEN "rlock" ELSE "done")
      /\ loc'[g] = (IF m(k) THEN [l(k) EXCEPT !.s = next] ELSE l(k))
  <2> HIDE DEF l, m
  <2> QED  BY <1>1, <1>3, Zenon DEF ReadThen, Goto
<1>5. loc'[g].op = "Sample" /\ loc'[g].out = outOf(k)
  <2>1. l(k).op = "Sample" /\ l(k).out = outOf(k)
        /\ [l(k) EXCEPT !.s = next].op = l(k).op
        /\ [l(k) EXCEPT !.s = next].out = l(k).out
    <3> HIDE DEF outOf
    <3> QED  BY <1>1, Zenon DEF Locals
  <2> HIDE DEF outOf, l, m
  <2> QED  BY <1>4, <2>1, Zenon
<1>6. outOf(k) \subseteq e
  BY <1>2, <1>3, Zenon
<1>7. Cardinality(outOf(k)) \in Nat /\ Cardinality(outOf(k)) <= SampleN
  <2>1. IsFiniteSet(loc[g].out)
    BY <1>2, FS_Subset, ShardMapAssumption, Zenon
  <2>2. Cardinality(loc[g].out) \in Nat
    BY <2>1, FS_CardinalityType, Zenon
  <2>3. CASE k = NoReply
    BY <1>2, <2>2, <2>3, ShardMapAssumption, SMTT(30)
  <2>4. CASE k # NoReply
    <3>1. outOf(k) = loc[g].out \cup {k}
      BY <2>4, Zenon
    <3> DEFINE o == loc[g].out
    <3>2. IsFiniteSet(o)
      BY <2>1, Zenon
    <3> HIDE DEF outOf, o, s, drawn
    <3>3. Cardinality(o \cup {k}) =
            IF k \in o THEN Cardinality(o) ELSE Cardinality(o) + 1
      BY <3>2, FS_AddElement, Zenon
    <3> QED  BY <1>2, <2>2, <3>1, <3>3, ShardMapAssumption, SMTT(30) DEF o
  <2> QED  BY <2>3, <2>4, Zenon
<1>8. outOf(k) = {} => a \cap ownedBy(s) = {}
  <2> SUFFICES ASSUME k = NoReply PROVE a \cap ownedBy(s) = {}
    BY Zenon
  <2>1. count[s] = 0
    BY <1>3, ShardMapAssumption, Zenon DEF stored
  <2>2. Cardinality(stored \cap ownedBy(s)) = 0
    BY <2>1, ReaderSees, Zenon DEF size
  <2>3. stored \cap ownedBy(s) = {}
    BY <2>2, SizeType, FS_EmptySet, Zenon
  <2> QED  BY <2>3, Zenon
<1>9. pc'[g] # "done" => Cardinality(outOf(k)) < SampleN
  BY <1>4, Zenon
<1> HIDE DEF outOf, l, m
<1> QED  BY <1>1, <1>5, <1>6, <1>7, <1>8, <1>9, Zenon DEF ScanOK

LEMMA ScanNext == LockInv /\ Counted /\ ScanInv /\ [Next]_vars => ScanInv'
<1> SUFFICES ASSUME LockInv, Counted, ScanInv, [Next]_vars PROVE ScanInv'
  BY Zenon
<1>0. /\ pc \in [Goroutines -> Labels] /\ loc \in [Goroutines -> Locals]
      /\ always \in [Goroutines -> SUBSET Keys]
      /\ ever \in [Goroutines -> SUBSET Keys]
      /\ \A h \in Goroutines : loc[h] \in Locals
  BY Zenon DEF LockInv, Types
<1> DEFINE OK(h) == /\ always[h] \subseteq stored /\ stored \subseteq ever[h]
                    /\ ScanOK(pc[h], loc[h], always[h], ever[h])
           OKNext(h) == /\ always'[h] \subseteq stored' /\ stored' \subseteq ever'[h]
                        /\ ScanOK(pc'[h], loc'[h], always'[h], ever'[h])
<1>1. ASSUME \A h \in Goroutines : pc'[h] # "idle" => OKNext(h) PROVE ScanInv'
  <2>1. \A h \in Goroutines :
          ScanOK(pc[h], loc[h], always[h], ever[h])' =
            ScanOK(pc'[h], loc'[h], always'[h], ever'[h])
    BY Zenon DEF ScanOK, covered, visited, ownedBy
  <2> QED  BY <1>1, <2>1, Zenon DEF ScanInv
\* A step of g that stores nothing leaves the others as they are.
<1>2. ASSUME NEW g \in Goroutines, table' = table,
             \A h \in Goroutines \ {g} :
               /\ pc'[h] = pc[h] /\ loc'[h] = loc[h]
               /\ always'[h] = always[h] /\ ever'[h] = ever[h],
             pc'[g] # "idle" => OKNext(g)
      PROVE  ScanInv'
  <2>1. stored' = stored
    BY <1>2, Zenon DEF stored
  <2> QED  BY <1>1, <1>2, <2>1, Zenon DEF ScanInv
<1>3. ASSUME NEW g \in Goroutines, Start(g) PROVE ScanInv'
  <2>1. PICK l : Entered(l) /\ Call(g, l)
    BY <1>3, StartCall, Zenon
  <2>2. /\ table' = table /\ pc'[g] \in {"lock", "rlock"} /\ loc'[g] = l
        /\ always'[g] = stored /\ ever'[g] = stored
        /\ \A h \in Goroutines \ {g} :
             /\ pc'[h] = pc[h] /\ loc'[h] = loc[h]
             /\ always'[h] = always[h] /\ ever'[h] = ever[h]
    BY <1>0, <2>1, Zenon DEF Call, Goto
  <2>3. stored' = stored
    BY <2>2, Zenon DEF stored
  <2>4. stored \cap visited(0) = {}
    BY ShardMapAssumption DEF visited, Shards
  <2>5. Cardinality({}) = 0
    BY FS_EmptySet, Zenon
  <2>6. ScanOK(pc'[g], l, stored, stored)
    <3>1. l.op = "Len" => Cardinality(stored \cap covered(pc'[g], l.s)) = 0
                          /\ l.n = 0
      BY <2>1, <2>2, <2>4, <2>5, Zenon DEF Entered, covered
    <3>2. l.op = "Range" =>
            l.out = {} /\ l.n = 0 /\ stored \cap covered(pc'[g], l.s) = {}
      BY <2>1, <2>2, <2>4, Zenon DEF Entered, covered
    <3>3. l.out = {} /\ SampleN \in Nat \ {0} /\ pc'[g] # "done"
      BY <2>1, <2>2, ShardMapAssumption, Zenon DEF Entered
    <3> QED  BY <2>5, <3>1, <3>2, <3>3, SMTT(30) DEF ScanOK
  <2> QED  BY <1>2, <2>2, <2>3, <2>6, Zenon
<1>4. ASSUME NEW g \in Goroutines, RLock(g) \/ Lock(g) PROVE ScanInv'
  <2>1. /\ table' = table /\ pc[g] \in {"lock", "rlock"}
        /\ pc'[g] \in {"lookup", "read"} /\ UNCHANGED <<loc, always, ever>>
        /\ \A h \in Goroutines \ {g} : pc'[h] = pc[h]
    BY <1>0, <1>4, Zenon DEF RLock, Lock, Goto, history
  <2>2. OK(g)
    BY <2>1, Zenon DEF ScanInv
  <2>3. ScanOK(pc'[g], loc[g], always[g], ever[g])
    BY <2>1, <2>2, ScanGoesOn, Zenon
  <2>4. stored' = stored
    BY <2>1, Zenon DEF stored
  <2> QED  BY <1>2, <2>1, <2>2, <2>3, <2>4, Zenon
\* A write has no promise of its own.
<1>5. ASSUME NEW l, l.op \in Writes PROVE \A at, a, e : ScanOK(at, l, a, e)
  BY <1>5, Zenon DEF ScanOK, Writes
<1>6. ASSUME NEW g \in Goroutines, Lookup(g) PROVE ScanInv'
  <2>1. /\ table' = table /\ pc[g] = "lookup" /\ UNCHANGED <<always, ever>>
        /\ \A h \in Goroutines \ {g} : pc'[h] = pc[h] /\ loc'[h] = loc[h]
    BY <1>0, <1>6, Zenon DEF Lookup, Goto, history
  <2>2. loc[g].op \in Writes
    BY <2>1, Zenon DEF LockInv, Placed, Held
  <2>3. loc'[g].op \in Writes
    BY <1>0, <1>6, <2>2, Zenon DEF Lookup, Locals
  <2>4. OK(g)
    BY <2>1, Zenon DEF ScanInv
  <2>5. stored' = stored
    BY <2>1, Zenon DEF stored
  <2> QED  BY <1>2, <1>5, <2>1, <2>3, <2>4, <2>5, Zenon
<1>7. ASSUME NEW g \in Goroutines, Store(g) PROVE ScanInv'
  <2> DEFINE k == loc[g].key
             v == IF loc[g].op = "Delete" THEN Absent ELSE loc[g].val
  <2>1. /\ pc[g] = "store" /\ pc'[g] = "count" /\ k \in Keys
        /\ table' = [table EXCEPT ![k] = v]
        /\ \A h \in Goroutines \ {g} : pc'[h] = pc[h] /\ loc'[h] = loc[h]
    BY <1>0, <1>7, Zenon DEF Store, Goto, Locals
  <2>2. loc[g].op \in Writes
    BY <2>1, Zenon DEF LockInv, Placed, Held
  <2>3. loc'[g].op \in Writes
    BY <1>0, <1>7, <2>2, Zenon DEF Store, Locals
  <2>4. table \in [Keys -> Vals \cup {Absent}]
    BY Zenon DEF LockInv, Types
  <2>5. stored' = IF v = Absent THEN stored \ {k} ELSE stored \cup {k}
    <3>1. k \in Keys /\ table' = [table EXCEPT ![k] = v]
      BY <2>1, Zenon
    <3> HIDE DEF k, v
    <3> QED  BY <2>4, <3>1, Zenon DEF stored
  <2>6. \A h \in Goroutines :
          /\ always'[h] = IF v = Absent THEN always[h] \ {k} ELSE always[h]
          /\ ever'[h] = IF v = Absent THEN ever[h] ELSE ever[h] \cup {k}
    BY <1>7, Zenon DEF Store
  <2>7. ASSUME NEW h \in Goroutines, pc'[h] # "idle" PROVE OKNext(h)
    <3>1. OK(h)
      BY <2>1, <2>7, Zenon DEF ScanInv
    <3>2. /\ always'[h] \in SUBSET always[h] /\ ever[h] \subseteq ever'[h]
          /\ always[h] \in SUBSET Keys /\ ever[h] \in SUBSET Keys
          /\ ever'[h] \in SUBSET Keys
      BY <1>0, <2>1, <2>6, ZenonT(30)
    <3>3. always'[h] \subseteq stored' /\ stored' \subseteq ever'[h]
      BY <2>5, <2>6, <3>1, Zenon
    <3>4. ScanOK(pc'[h], loc'[h], always'[h], ever'[h])
      <4>1. CASE h = g
        BY <1>5, <2>3, <4>1, Zenon
      <4>2. CASE h # g
        <5>1. ScanOK(pc[h], loc[h], always'[h], ever'[h])
          BY <1>0, <3>1, <3>2, ScanWeaker, ZenonT(30)
        <5> QED  BY <2>1, <4>2, <5>1, Zenon
      <4> QED  BY <4>1, <4>2, Zenon
    <3> QED  BY <3>3, <3>4, Zenon
  <2> QED  BY <1>1, <2>7, Zenon
<1>8. ASSUME NEW g \in Goroutines, Count(g) \/ Return(g) PROVE ScanInv'
  <2>1. /\ table' = table /\ pc'[g] = "idle"
        /\ \A h \in Goroutines \ {g} :
             /\ pc'[h] = pc[h] /\ loc'[h] = loc[h]
             /\ always'[h] = always[h] /\ ever'[h] = ever[h]
    BY <1>0, <1>8, ZenonT(30) DEF Count, Return, Forget, Goto
  <2> QED  BY <1>2, <2>1, Zenon
<1>9. ASSUME NEW g \in Goroutines,
             ReadGet(g) \/ ReadLen(g) \/ ReadRange(g) \/ ReadSample(g)
      PROVE  ScanInv'
  <2>1. PICK l, more, next : Reads(g, l, more, next)
    BY <1>9, ReadStep, Zenon DEF LockInv
  <2>2. /\ table' = table /\ pc[g] = "read" /\ UNCHANGED <<always, ever>>
        /\ \A h \in Goroutines \ {g} : pc'[h] = pc[h] /\ loc'[h] = loc[h]
    BY <1>0, <2>1, Zenon DEF Reads, ReadThen, Goto, history
  <2>3. OK(g)
    BY <2>2, Zenon DEF ScanInv
  <2>4. always[g] \in SUBSET stored /\ ever[g] \in SUBSET Keys
    BY <1>0, <2>3, Zenon
  <2>5. ASSUME ReadGet(g) PROVE ScanOK(pc'[g], loc'[g], always[g], ever[g])
    <3>1. loc'[g].op = "Get"
      BY <1>0, <2>5, Zenon DEF ReadGet, ReadThen, Locals
    <3> QED  BY <3>1, Zenon DEF ScanOK
  <2>6. ScanOK(pc'[g], loc'[g], always[g], ever[g])
    BY <1>9, <2>2, <2>3, <2>4, <2>5, LenStep, RangeStep, SampleStep, ZenonT(30)
  <2>7. stored' = stored
    BY <2>2, Zenon DEF stored
  <2> QED  BY <1>2, <2>2, <2>3, <2>6, <2>7, Zenon
<1>10. CASE UNCHANGED vars
  BY <1>1, <1>10, Zenon DEF vars, history, ScanInv, stored
<1> QED  BY <1>3, <1>4, <1>6, <1>7, <1>8, <1>9, <1>10, Zenon
            DEF Next, Body, Finished

LEMMA ScanInvHolds == Spec => [](LockInv /\ ScanInv)
<1>1. Init => ScanInv
  BY Zenon DEF Init, ScanInv
<1> QED  BY <1>1, TableInvHolds, ScanNext, PTL DEF Spec

\* map.go:186 to 225: what Len and Range return misses no key that is stored
\* during the whole call and reports none that never is, although they take
\* one shard's lock at a time while the others change.
THEOREM ScanBoundedHolds == Spec => []ScanBounded
<1>1. ASSUME LockInv, ScanInv PROVE ScanBounded
  <2>1. \A g \in Goroutines :
          always[g] \cap Keys = always[g] /\ ever[g] \cap Keys = ever[g]
    BY <1>1, Zenon DEF LockInv, Types
  <2> QED  BY <1>1, <2>1, ZenonT(30) DEF ScanInv, ScanOK, ScanBounded, covered
<1> QED  BY <1>1, ScanInvHolds, PTL

\* sample.go:33 to 79: Sample draws only entries that were stored while it ran,
\* at most as many as it was asked for, and comes back with none only if some
\* shard was without an entry that stayed.
THEOREM SampleFindsHolds == Spec => []SampleFinds
<1>1. ASSUME LockInv, ScanInv PROVE SampleFinds
  BY <1>1, Zenon DEF ScanInv, ScanOK, SampleFinds
<1> QED  BY <1>1, ScanInvHolds, PTL
=============================================================================
