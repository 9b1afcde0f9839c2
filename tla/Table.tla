------------------------------- MODULE Table -------------------------------
(***************************************************************************)
(* The Robin Hood open-addressing table of internal/shardmap/table.go, one *)
(* per shard and used under the shard's lock: one call at a time.  A step  *)
(* is one iteration of a loop of the code.  The parallel slot arrays are   *)
(* one sequence of slots, the code's slot i being tab[i + 1]; a metadata   *)
(* word is its two fields, dib and frag.                                   *)
(*                                                                         *)
(* A hash is any natural number: the map seeds its hash function at        *)
(* random, so the behaviours start with any assignment of hashes to keys.  *)
(***************************************************************************)
EXTENDS Integers, Sequences, FiniteSets

CONSTANTS
  Keys, Vals,
  Absent,          \* the zero value of a lookup that finds nothing
  HashFunctions,   \* assignments of hashes to keys
  MinCap,          \* minCap (8), a power of two
  FragValues,      \* 2^fragBits (256)
  MaxDib           \* maxDib (254)

ASSUME TableAssumption ==
  /\ HashFunctions \subseteq [Keys -> Nat]
  /\ MinCap \in Nat /\ MinCap >= 4
  /\ FragValues \in Nat \ {0} /\ MaxDib \in Nat

VARIABLES
  tab,      \* the slots
  count,    \* the occupied-slot counter
  hashOf,   \* the seeded hash function
  pc,       \* the loop that is running; "set" between two calls of set
  cur,      \* the entry carried by set, or the key looked for, with its dib
  pos,      \* the slot it is at, or the slot that delete has to fill
  swapped,  \* set carries an entry that it has robbed of its slot
  work,     \* what resizes under way have yet to reinsert, and what comes then
  fresh,    \* history: the caller's entry has not been stored yet
  answer    \* what the call has answered

probing == <<pc, cur, pos, swapped, work, fresh>>
vars == <<tab, count, hashOf, probing, answer>>

Empty == [dib |-> -1]

fragOf(hash) == hash % FragValues

home(hash) == (hash % Len(tab)) + 1

next(i) == IF i = Len(tab) THEN 1 ELSE i + 1

alloc(capacity) == [i \in 1..capacity |-> Empty]

growAt(capacity) == (capacity * 3) \div 4

\* An entry at the start of its probe.
Entry(hash, key, val) ==
  [dib |-> 0, frag |-> fragOf(hash), key |-> key, val |-> val, hash |-> hash]

Init ==
  /\ tab = alloc(MinCap) /\ count = 0
  /\ hashOf \in HashFunctions
  /\ pc = "idle" /\ cur = Empty /\ pos = 1 /\ swapped = FALSE
  /\ work = <<>> /\ fresh = FALSE
  /\ answer = <<"none">>

\* Set or search from the home slot of e.
Probe(e, loop) ==
  pc' = loop /\ cur' = e /\ pos' = home(e.hash) /\ swapped' = FALSE

Leave(label) == pc' = label /\ cur' = Empty /\ pos' = 1 /\ swapped' = FALSE

\* Reinsert the slots of old into a table of newCap, and then set what follows.
resize(old, newCap, then) ==
  /\ tab' = alloc(newCap) /\ count' = 0
  /\ work' = old \o then

-----------------------------------------------------------------------------
(* insert and set. *)

insert(k, v) ==
  LET e == Entry(hashOf[k], k, v)
  IN  /\ pc = "idle"
      /\ \/ count >= growAt(Len(tab)) /\ resize(tab, 2 * Len(tab), <<e>>)
         \/ count < growAt(Len(tab)) /\ work' = <<e>> /\ UNCHANGED <<tab, count>>
      /\ Leave("set") /\ fresh' = TRUE
      /\ answer' = <<"none">>
      /\ UNCHANGED hashOf

\* The next slot of the reinsert loop, or the entry that waits behind it.
set ==
  /\ pc = "set" /\ work # <<>>
  /\ LET e == Head(work)
     IN  \/ e = Empty /\ UNCHANGED <<pc, cur, pos, swapped>>
         \/ e # Empty /\ Probe(Entry(e.hash, e.key, e.val), "probe")
  /\ work' = Tail(work)
  /\ UNCHANGED <<tab, count, hashOf, fresh, answer>>

setReturns ==
  /\ pc = "set" /\ work = <<>> /\ Leave("idle")
  /\ UNCHANGED <<tab, count, hashOf, work, fresh, answer>>

\* set carries the caller's entry, and not one that it reinserts.
Callers == fresh /\ work = <<>>

\* cur is in the table now.
Stored ==
  /\ fresh' = (fresh /\ ~Callers)
  /\ answer' = IF Callers THEN <<"stored", cur.key>> ELSE answer

\* Mutant: an overflowing chain loses the carried entry.
probeOverflowDrops ==
  /\ pc = "probe" /\ cur.dib > MaxDib
  /\ resize(tab, 2 * Len(tab), work)
  /\ Leave("set")
  /\ UNCHANGED <<hashOf, fresh, answer>>

\* The chain is longer than a dib can say: grow, and set the carried entry.
probeOverflow ==
  /\ pc = "probe" /\ cur.dib > MaxDib
  /\ resize(tab, 2 * Len(tab), <<cur>> \o work)
  /\ Leave("set")
  /\ UNCHANGED <<hashOf, fresh, answer>>

probeEmpty ==
  /\ pc = "probe" /\ cur.dib <= MaxDib /\ tab[pos] = Empty
  /\ tab' = [tab EXCEPT ![pos] = cur] /\ count' = count + 1
  /\ Leave("set") /\ Stored
  /\ UNCHANGED <<hashOf, work>>

\* The slot holds the key that is looked for.
Match(m) == m.frag = cur.frag /\ m.key = cur.key

probeOverwrite ==
  /\ pc = "probe" /\ cur.dib <= MaxDib /\ tab[pos] # Empty
  /\ ~swapped /\ Match(tab[pos])
  /\ tab' = [tab EXCEPT ![pos].val = cur.val]
  /\ Leave("set") /\ Stored
  /\ UNCHANGED <<count, hashOf, work>>

\* Take the slot of a resident nearer to its home, and carry that one on.
probeRob ==
  LET m == tab[pos]
  IN  /\ pc = "probe" /\ cur.dib <= MaxDib /\ m # Empty
      /\ swapped \/ ~Match(m)
      /\ cur.dib > m.dib
      /\ tab' = [tab EXCEPT ![pos] = cur]
      /\ cur' = [m EXCEPT !.dib = @ + 1, !.frag = fragOf(m.hash)]
      /\ pos' = next(pos) /\ swapped' = TRUE /\ Stored
      /\ UNCHANGED <<count, hashOf, pc, work>>

probeOn ==
  LET m == tab[pos]
  IN  /\ pc = "probe" /\ cur.dib <= MaxDib /\ m # Empty
      /\ swapped \/ ~Match(m)
      /\ cur.dib <= m.dib
      /\ cur' = [cur EXCEPT !.dib = @ + 1] /\ pos' = next(pos)
      /\ UNCHANGED <<tab, count, hashOf, pc, swapped, work, fresh, answer>>

-----------------------------------------------------------------------------
(* lookup and delete: the same search.                                      *)

search(k, loop) ==
  /\ pc = "idle" /\ Probe(Entry(hashOf[k], k, Absent), loop)
  /\ answer' = <<"none">>
  /\ UNCHANGED <<tab, count, hashOf, work, fresh>>

\* What the search answers.
Answer(val) ==
  answer' = <<IF pc = "lookup" THEN "found" ELSE "removed", cur.key, val>>

\* An empty slot, or a resident that the key would have robbed.
Passed(m) == m = Empty \/ cur.dib > m.dib

searchMiss ==
  /\ pc \in {"lookup", "delete"} /\ Passed(tab[pos])
  /\ Answer(Absent) /\ Leave("idle")
  /\ UNCHANGED <<tab, count, hashOf, work, fresh>>

lookupHit ==
  /\ pc = "lookup" /\ ~Passed(tab[pos]) /\ Match(tab[pos])
  /\ Answer(tab[pos].val) /\ Leave("idle")
  /\ UNCHANGED <<tab, count, hashOf, work, fresh>>

deleteHit ==
  /\ pc = "delete" /\ ~Passed(tab[pos]) /\ Match(tab[pos])
  /\ Answer(tab[pos].val)
  /\ pc' = "shift" /\ cur' = Empty
  /\ UNCHANGED <<tab, count, hashOf, pos, swapped, work, fresh>>

searchOn ==
  /\ pc \in {"lookup", "delete"} /\ ~Passed(tab[pos]) /\ ~Match(tab[pos])
  /\ cur' = [cur EXCEPT !.dib = @ + 1] /\ pos' = next(pos)
  /\ UNCHANGED <<tab, count, hashOf, pc, swapped, work, fresh, answer>>

\* The entry in slot m has been displaced.
Displaced(m) == m # Empty /\ m.dib > 0

\* Mutant: a shifted entry keeps its distance.
shiftBackStale ==
  LET m == tab[next(pos)]
  IN  /\ pc = "shift" /\ Displaced(m)
      /\ tab' = [tab EXCEPT ![pos] = m]
      /\ pos' = next(pos)
      /\ UNCHANGED <<count, hashOf, pc, cur, swapped, work, fresh, answer>>

shiftBack ==
  LET m == tab[next(pos)]
  IN  /\ pc = "shift" /\ Displaced(m)
      /\ tab' = [tab EXCEPT ![pos] = [m EXCEPT !.dib = @ - 1]]
      /\ pos' = next(pos)
      /\ UNCHANGED <<count, hashOf, pc, cur, swapped, work, fresh, answer>>

\* Mutant of shrink: shrink at half load.
shrinkAtHalf(t, n) ==
  \/ /\ Len(t) > MinCap /\ n < Len(t) \div 2
     /\ resize(t, Len(t) \div 2, <<>>) /\ Leave("set")
  \/ /\ Len(t) <= MinCap \/ n >= Len(t) \div 2
     /\ tab' = t /\ count' = n /\ work' = <<>> /\ Leave("idle")

\* t is the table, with n entries.
shrink(t, n) ==
  \/ /\ Len(t) > MinCap /\ n < Len(t) \div 4
     /\ resize(t, Len(t) \div 2, <<>>) /\ Leave("set")
  \/ /\ Len(t) <= MinCap \/ n >= Len(t) \div 4
     /\ tab' = t /\ count' = n /\ work' = <<>> /\ Leave("idle")

vacate ==
  /\ pc = "shift" /\ ~Displaced(tab[next(pos)])
  /\ shrink([tab EXCEPT ![pos] = Empty], count - 1)
  /\ UNCHANGED <<hashOf, fresh, answer>>

-----------------------------------------------------------------------------

probe == probeOverflow \/ probeEmpty \/ probeOverwrite \/ probeRob \/ probeOn

Next ==
  \/ \E k \in Keys :
       (\E v \in Vals : insert(k, v)) \/ search(k, "lookup") \/ search(k, "delete")
  \/ set \/ setReturns \/ probe
  \/ searchMiss \/ lookupHit \/ deleteHit \/ searchOn \/ shiftBack \/ vacate

Spec == Init /\ [][Next]_vars

-----------------------------------------------------------------------------
(* Properties. *)

Slots == DOMAIN tab
Occupied == {i \in Slots : tab[i] # Empty}

\* The slot that delete is about to fill from behind or to vacate: what it
\* still holds is gone already.
Hole == IF pc = "shift" THEN {pos} ELSE {}

\* How far a probe that starts at slot h has come at slot i.
dist(h, i) == IF i >= h THEN i - h ELSE i - h + Len(tab)

\* A power of two times minCap.
isCapacity[c \in Nat] ==
  c = MinCap \/ (c > MinCap /\ c % 2 = 0 /\ isCapacity[c \div 2])

\* Entries that set is still to store: the carried one and those in line.
Waiting ==
  Cardinality({i \in DOMAIN work : work[i] # Empty})
    + (IF pc = "probe" THEN 1 ELSE 0)

\* The capacity is a power of two no smaller than minCap, a slot's metadata
\* fits its fields, the counter that decides when to grow and shrink counts the
\* slots, every key has one slot, and a probe always meets an empty slot.
WellFormed ==
  /\ isCapacity[Len(tab)]
  /\ \A i \in Occupied :
       tab[i] \in [dib: 0..MaxDib, frag: 0..(FragValues - 1), key: Keys,
                   val: Vals, hash: {hashOf[k] : k \in Keys}]
  /\ count = Cardinality(Occupied)
  /\ \A i, j \in Occupied \ Hole : tab[i].key = tab[j].key => i = j
  /\ count + Waiting <= growAt(Len(tab))

\* The invariant lookup's early exit rests on, in every iteration of every
\* loop: an entry sits as far from its home as its metadata says, and on the
\* way there is no slot that is empty or held by an entry that should have been
\* robbed.  The table is well formed.
RobinHood ==
  /\ WellFormed
  /\ \A i \in Occupied :
       LET m == tab[i]
       IN  /\ m.hash = hashOf[m.key] /\ m.frag = fragOf(m.hash)
           /\ m.dib = dist(home(m.hash), i)
           /\ \A j \in Slots :
                dist(home(m.hash), j) <= m.dib =>
                  tab[j] # Empty /\ tab[j].dib >= dist(home(m.hash), j)

\* What set carries or has in line, but for the caller's entry, which is last.
Line == (IF pc = "probe" THEN <<cur>> ELSE <<>>) \o work
Moving == {i \in DOMAIN Line : Line[i] # Empty /\ (fresh => i < Len(Line))}

\* What a reader of the shard can find once the call has returned.
Pairs == {<<tab[i].key, tab[i].val>> : i \in Occupied \ Hole}
           \cup {<<Line[i].key, Line[i].val>> : i \in Moving}
contents ==
  [k \in Keys |-> IF \E p \in Pairs : p[1] = k
                  THEN (CHOOSE p \in Pairs : p[1] = k)[2] ELSE Absent]

Map == INSTANCE KVMap WITH map <- contents

\* Robbing, shifting back, growing and shrinking never lose, duplicate or
\* revive an entry: the table is a map, and every insert, lookup and delete
\* answers as that map does.
ImplementsMap == Map!Spec

\* table.go:55: "capacity never oscillates when operations hover around a
\* single threshold": an insert after a shrink does not grow the table, and a
\* delete after it grew, at the threshold, does not shrink it.
NoThrash ==
  [][/\ Len(tab') < Len(tab) => count - 1 < growAt(Len(tab'))
     /\ pc = "idle" /\ Len(tab') > Len(tab) => count - 1 >= Len(tab') \div 4]_vars
=============================================================================
