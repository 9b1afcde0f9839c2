---------------------------- MODULE TableProofs ----------------------------
(***************************************************************************)
(* Proofs about Table, for any keys, hashes and values, any minimum        *)
(* capacity and any bound on the length of a chain: the searches and       *)
(* deletions keep the inductive invariant, and what follows from it.       *)
(***************************************************************************)
EXTENDS TableInserts

-----------------------------------------------------------------------------
(* lookup and delete search for a key, as set does.                        *)

\* A probe goes on to the next slot.
LEMMA PassStep ==
  ASSUME TableInv, pc \in {"probe", "lookup", "delete"},
         tab[pos] # Empty, ~(cur.dib > tab[pos].dib), swapped \/ ~Match(tab[pos]),
         cur' = [cur EXCEPT !.dib = @ + 1], pos' = next(pos),
         UNCHANGED <<tab, count, hashOf, pc, swapped, work, fresh, answer>>
  PROVE  TableInv' /\ Kept
<1> DEFINE m == tab[pos]
           c == [cur EXCEPT !.dib = @ + 1]
           s == line(pc', cur', work')
<1>1. /\ hashOf \in [Keys -> Nat] /\ tab \in Seq(Slot(hashOf))
      /\ isCapacity[Len(tab)] /\ work \in Seq(Slot(hashOf)) /\ fresh \in BOOLEAN
      /\ swapped \in BOOLEAN /\ pos \in 1..Len(tab)
      /\ Placed(tab) /\ count = pending(tab) /\ count + Waiting <= growAt(Len(tab))
  BY Zenon DEF TableInv, Typed, Counted
<1>2. /\ cur \in Sought(hashOf) /\ (pc = "probe" => cur.val \in Vals)
      /\ Arrived(tab, cur, pos) /\ (~swapped => Passing(tab, cur))
  BY Zenon DEF TableInv, Probing
<1>3. /\ Len(tab) \in Nat /\ Len(tab) >= 2 /\ pending(work) \in Nat
      /\ pending(tab) \in Nat /\ next(pos) = after(Len(tab), pos)
      /\ Waiting = pending(work) + (IF pc = "probe" THEN 1 ELSE 0)
  BY Parts, Zenon
<1>4. m \in Known(hashOf)
  <2>1. m \in Slot(hashOf)
    BY <1>1
  <2> QED  BY <2>1, SlotType, Zenon
<1>5. /\ m.dib \in Nat /\ m.hash = hashOf[m.key] /\ m.frag = fragOf(m.hash)
      /\ cur.dib \in Nat /\ cur.hash = hashOf[cur.key]
      /\ cur.frag = fragOf(cur.hash)
  BY <1>2, <1>4 DEF Known, Sought
<1>6. m.dib >= cur.dib
  BY <1>5
<1>7. ~swapped => m.key # cur.key
  BY <1>5, Zenon DEF Match
<1>8. /\ c \in Sought(hashOf) /\ c.key = cur.key /\ c.val = cur.val
      /\ Arrived(tab, c, after(Len(tab), pos))
      /\ Passing(tab, cur) /\ m.key # cur.key => Passing(tab, c)
  <2>1. PICK z \in 1..Len(tab) : tab[z] = Empty
    BY Parts, Zenon
  <2> QED  BY <1>1, <1>2, <1>3, <1>6, <2>1, AdvanceStep, Zenon
<1>9. after(Len(tab), pos) \in 1..Len(tab)
  BY <1>1, <1>3, Geometry, Zenon
<1>10. /\ Line = line(pc, cur, work) /\ Hole = {}
       /\ Turns = IF fresh THEN Len(Line) - 1 ELSE Len(Line)
  <2>1. pc # "shift"
    OBVIOUS
  <2> QED  BY <2>1, Zenon DEF Line, line, Hole, Turns
<1>11. /\ Distinct(tab, {}, s, Turns) /\ Len(s) = Len(Line)
       /\ \A k, v : Has(tab, {}, s, Turns, k, v) <=> Held(k, v)
  <2>1. s = line(pc, c, work)
    BY Zenon
  <2>2. Distinct(tab, {}, Line, Turns)
    BY <1>10, Zenon DEF TableInv
  <2>3. \A k, v : Held(k, v) <=> Has(tab, {}, Line, Turns, k, v)
    BY <1>10, Zenon DEF Held
  <2> HIDE DEF c, s
  <2>4. CASE pc # "probe"
    <3>1. line(pc, c, work) = work /\ line(pc, cur, work) = work
      BY <1>1, <2>4, LineValue, Zenon
    <3> QED  BY <1>10, <2>1, <2>2, <2>3, <3>1, Zenon
  <2>5. CASE pc = "probe"
    <3>1. pc = "probe" => /\ line(pc, c, work) = <<c>> \o work
                          /\ Len(line(pc, c, work)) = Len(work) + 1
      BY <1>1, LineValue, Zenon
    <3>2. Line = <<cur>> \o work /\ Len(Line) = Len(work) + 1 /\ cur # Empty
      BY <2>5, LineParts, Zenon
    <3>3. c # Empty
      <4>1. c \in Slot(hashOf) /\ c \in Known(hashOf)
        BY <1>2, <1>8, <2>5, Zenon DEF Known, Slot
      <4> QED  BY <4>1, SlotType, Zenon
    <3>4. /\ Distinct(tab, {}, <<c>> \o work, Turns)
          /\ \A k, v : Has(tab, {}, <<c>> \o work, Turns, k, v) <=>
               Has(tab, {}, <<cur>> \o work, Turns, k, v)
      <4>1. Distinct(tab, {}, <<cur>> \o work, Turns)
        BY <2>2, <3>2, Zenon
      <4> QED  BY <1>1, <1>8, <3>2, <3>3, <4>1, HeadKept, Zenon
    <3> QED  BY <2>1, <2>3, <2>5, <3>1, <3>2, <3>4, Zenon
  <2> QED  BY <2>4, <2>5, Zenon
<1>12. /\ TableInv'
       /\ \A k, v : Held(k, v)' <=> Has(tab', {}, s, Turns, k, v)
  <2>1. s = line(pc', cur', work')
    BY Zenon
  <2> HIDE DEF s
  <2>2. /\ cur' \in Sought(hashOf) /\ (pc' = "probe" => cur'.val \in Vals)
        /\ Arrived(tab', cur', pos') /\ (~swapped' => Passing(tab', cur'))
        /\ pos' \in 1..Len(tab')
    <3>1. cur' = c
      BY Zenon
    <3> HIDE DEF c
    <3> QED  BY <1>2, <1>3, <1>7, <1>8, <1>9, <3>1, Zenon
  <2>3. count' + pending(work') + (IF pc' = "probe" THEN 1 ELSE 0)
          <= growAt(Len(tab'))
    <3> DEFINE d == IF pc = "probe" THEN 1 ELSE 0
    <3>1. d \in Nat
      OBVIOUS
    <3>2. Waiting = pending(work) + d
      BY <1>3, Zenon
    <3> HIDE DEF d
    <3>3. count + pending(work) + d = count + Waiting
      BY <1>1, <1>3, <3>1, <3>2
    <3>4. count + pending(work) + d <= growAt(Len(tab))
      BY <1>1, <3>3, Zenon
    <3> QED  BY <3>4, Zenon DEF d
  <2>4. /\ swapped' => pc' = "probe" /\ ~(fresh' /\ work' = <<>>)
        /\ pc' # "probe" => work' = <<>> /\ ~fresh' /\ answer' = <<"none">>
        /\ fresh' => answer' = <<"none">>
    <3>1. pc # "probe" => pc \notin {"set", "probe"} /\ pc \in {"lookup", "delete"}
      OBVIOUS
    <3> QED  BY <3>1, Zenon DEF TableInv, Phase, Callers
  <2>5. fresh' => (work' # <<>> => work'[Len(work')] # Empty)
    <3>1. fresh => pc = "probe"
      BY <2>4, Zenon
    <3> QED  BY <3>1, Carrying, Zenon
  <2>6. Turns = IF fresh' THEN Len(s) - 1 ELSE Len(s)
    BY <1>10, <1>11, Zenon
  <2>7. Distinct(tab', {}, s, Turns)
    BY <1>11, Zenon
  <2>8. /\ hashOf \in [Keys -> Nat] /\ hashOf' = hashOf
        /\ tab' \in Seq(Slot(hashOf)) /\ isCapacity[Len(tab')] /\ Placed(tab')
        /\ work' \in Seq(Slot(hashOf)) /\ count' = pending(tab')
        /\ pc' \in {"probe", "lookup", "delete"}
        /\ swapped' \in BOOLEAN /\ fresh' \in BOOLEAN
    BY <1>1, Zenon
  <2> QED  BY <2>1, <2>2, <2>3, <2>4, <2>5, <2>6, <2>7, <2>8, ProbeInv, Zenon
<1> QED  BY <1>11, <1>12, Zenon DEF Kept

LEMMA SearchStep ==
  ASSUME TableInv, NEW k \in Keys, NEW loop \in {"lookup", "delete"}, search(k, loop)
  PROVE  TableInv' /\ Kept
<1> DEFINE e == Entry(hashOf[k], k, Absent)
           s == line(pc', cur', work')
<1>1. /\ pc = "idle" /\ pc' = loop /\ cur' = e /\ pos' = home(e.hash)
      /\ swapped' = FALSE /\ answer' = <<"none">>
      /\ tab' = tab /\ count' = count /\ hashOf' = hashOf
      /\ work' = work /\ fresh' = fresh
  BY Zenon DEF search, Probe
<1>2. /\ hashOf \in [Keys -> Nat] /\ tab \in Seq(Slot(hashOf))
      /\ isCapacity[Len(tab)] /\ work \in Seq(Slot(hashOf))
      /\ Placed(tab) /\ count = pending(tab) /\ count + Waiting <= growAt(Len(tab))
  BY Zenon DEF TableInv, Typed, Counted
<1>3. /\ work = <<>> /\ fresh = FALSE /\ Waiting = 0
      /\ Distinct(tab, {}, <<>>, 0)
      /\ \A j, x : Held(j, x) <=> Has(tab, {}, <<>>, 0, j, x)
  <2>1. pc \in {"idle", "lookup", "delete"}
    BY <1>1, Zenon
  <2> QED  BY <2>1, AtRest, Zenon
<1>4. e \in Sought(hashOf) /\ e.dib = 0
  <2>1. Absent \in Vals \cup {Absent}
    BY Zenon
  <2>2. e \in Sought(hashOf)
    BY <1>2, <2>1, EntryType, Zenon
  <2> QED  BY <2>2 DEF Entry
<1> HIDE DEF e
<1>5. Len(tab) >= 2 /\ pos' = start(Len(tab), e.hash)
  BY <1>1, Parts, Zenon
<1>6. pos' \in 1..Len(tab) /\ Arrived(tab, e, pos') /\ Passing(tab, e)
  <2>1. /\ start(Len(tab), e.hash) \in 1..Len(tab)
        /\ Arrived(tab, e, start(Len(tab), e.hash)) /\ Passing(tab, e)
    BY <1>2, <1>4, <1>5, HomeStep, Zenon
  <2> QED  BY <1>5, <2>1, Zenon
<1>7. pc' # "probe" /\ pc' \in {"probe", "lookup", "delete"}
  BY <1>1
<1>8. s = <<>> /\ Len(s) = 0
  <2>1. work' \in Seq(Slot(hashOf))
    BY <1>1, <1>2, Zenon
  <2>2. pc' # "probe" => line(pc', cur', work') = work'
    BY <2>1, LineValue, Zenon
  <2>3. Len(<<>>) = 0
    OBVIOUS
  <2> QED  BY <1>1, <1>3, <1>7, <2>2, <2>3, Zenon
<1>9. count' + pending(work') + (IF pc' = "probe" THEN 1 ELSE 0)
        <= growAt(Len(tab'))
  <2>1. pending(work') = 0 /\ pending(tab) \in Nat
    BY <1>1, <1>3, PendingFew, Parts, Zenon
  <2>2. count' + pending(work') + 0 = count + Waiting
    BY <1>1, <1>2, <1>3, <2>1
  <2> QED  BY <1>1, <1>2, <1>7, <2>2, Zenon
<1>10. /\ TableInv'
       /\ \A j, x : Held(j, x)' <=> Has(tab', {}, s, 0, j, x)
  <2>1. s = line(pc', cur', work')
    BY Zenon
  <2> HIDE DEF s
  <2>2. 0 = IF fresh' THEN Len(s) - 1 ELSE Len(s)
    <3>1. ~fresh'
      BY <1>1, <1>3, Zenon
    <3> QED  BY <1>8, <3>1
  <2>3. Distinct(tab', {}, s, 0)
    BY <1>1, <1>3, <1>8, Zenon
  <2>4. /\ hashOf' = hashOf /\ tab' \in Seq(Slot(hashOf)) /\ isCapacity[Len(tab')]
        /\ Placed(tab') /\ work' \in Seq(Slot(hashOf)) /\ count' = pending(tab')
        /\ pos' \in 1..Len(tab')
    BY <1>1, <1>2, <1>6, Zenon
  <2>5. /\ cur' \in Sought(hashOf) /\ Arrived(tab', cur', pos') /\ Passing(tab', cur')
    BY <1>1, <1>4, <1>6, Zenon
  <2>6. /\ swapped' \in BOOLEAN /\ ~swapped' /\ fresh' \in BOOLEAN /\ ~fresh'
        /\ work' = <<>> /\ answer' = <<"none">>
    BY <1>1, <1>3, Zenon
  <2> QED  BY <1>2, <1>7, <1>9, <2>1, <2>2, <2>3, <2>4, <2>5, <2>6, ProbeInv, Zenon
<1> QED  BY <1>1, <1>3, <1>8, <1>10, Zenon DEF Kept

LEMMA ProbeOnStep ==
  ASSUME TableInv, probeOn
  PROVE  TableInv' /\ Kept
<1>1. /\ pc = "probe" /\ tab[pos] # Empty /\ cur.dib <= tab[pos].dib
      /\ swapped \/ ~Match(tab[pos])
      /\ cur' = [cur EXCEPT !.dib = @ + 1] /\ pos' = next(pos)
      /\ UNCHANGED <<tab, count, hashOf, pc, swapped, work, fresh, answer>>
  BY Zenon DEF probeOn
<1>2. cur.dib \in Nat
  BY <1>1, Carrying, Zenon
<1>3. tab[pos].dib \in Int
  <2>1. tab[pos] \in Slot(hashOf)
    BY DEF TableInv, Typed
  <2> QED  BY <2>1, SlotType, Zenon
<1>4. ~(cur.dib > tab[pos].dib)
  BY <1>1, <1>2, <1>3
<1>5. pc \in {"probe", "lookup", "delete"}
  BY <1>1, Zenon
<1> QED  BY <1>1, <1>4, <1>5, PassStep, Zenon

LEMMA SearchOnStep ==
  ASSUME TableInv, searchOn
  PROVE  TableInv' /\ Kept
<1>1. /\ pc \in {"probe", "lookup", "delete"} /\ tab[pos] # Empty
      /\ ~(cur.dib > tab[pos].dib)
  BY Zenon DEF searchOn, Passed
<1> QED  BY <1>1, PassStep, Zenon DEF searchOn

LEMMA SearchReturns ==
  ASSUME TableInv, searchMiss \/ lookupHit
  PROVE  TableInv' /\ Kept
<1>1. /\ pc \in {"lookup", "delete"} /\ Leave("idle")
      /\ UNCHANGED <<tab, count, hashOf, work, fresh>>
  BY Zenon DEF searchMiss, lookupHit
<1>2. pc \in {"set", "lookup", "delete"} /\ pc \in {"idle", "lookup", "delete"}
  BY <1>1, Zenon
<1>3. work = <<>>
  BY <1>2, AtRest, Zenon
<1> QED  BY <1>1, <1>2, <1>3, ReturnStep, Zenon

-----------------------------------------------------------------------------
(* delete fills the slot it has emptied from behind.                        *)

\* A step to the loop that shifts entries back.
LEMMA ShiftInv ==
  ASSUME hashOf \in [Keys -> Nat], hashOf' = hashOf,
         tab' \in Seq(Slot(hashOf)), isCapacity[Len(tab')], Placed(tab'),
         work' = <<>>, fresh' = FALSE, swapped' = FALSE, pc' = "shift",
         count' = pending(tab'), count' <= growAt(Len(tab')),
         pos' \in 1..Len(tab'), tab'[pos'] # Empty,
         Distinct(tab', {pos'}, <<>>, 0)
  PROVE  /\ TableInv'
         /\ \A k, v : Held(k, v)' <=> Has(tab', {pos'}, <<>>, 0, k, v)
<1>1. /\ pc' \notin {"probe", "lookup", "delete"} /\ pc' # "probe"
      /\ pc' \notin {"lookup", "delete"}
      /\ pc' \in {"idle", "set", "probe", "lookup", "delete", "shift"}
  OBVIOUS
<1>2. <<>> \in Seq(Slot(hashOf)) /\ Len(<<>>) = 0
  OBVIOUS
<1>3. Typed'
  BY <1>1, <1>2, Zenon DEF Typed
<1>4. Counted'
  <2>1. Waiting' = pending(work') + 0
    BY <1>1, Zenon DEF Waiting, pending, Full
  <2>2. pending(work') = 0 /\ pending(tab') \in Nat
    BY PendingFew, FullFinite, Zenon
  <2>3. count' + Waiting' = count'
    BY <2>1, <2>2
  <2> QED  BY <2>3, Zenon DEF Counted, growAt
<1>5. Line' = <<>>
  <2>1. Line' = line(pc', cur', work')
    BY Zenon DEF Line, line
  <2>2. pc' # "probe" => line(pc', cur', work') = work'
    BY <1>2, LineValue, Zenon
  <2> QED  BY <1>1, <2>1, <2>2, Zenon
<1>6. Turns' = 0 /\ Hole' = {pos'}
  <2>1. Turns' = Len(Line')
    BY Zenon DEF Turns
  <2> QED  BY <1>2, <1>5, <2>1, Zenon DEF Hole
<1>7. Phase'
  BY <1>1, Zenon DEF Phase
<1>8. Distinct(tab', Hole', Line', Turns')
  BY <1>5, <1>6, Zenon
<1>9. \A k, v : Held(k, v)' <=> Has(tab', {pos'}, <<>>, 0, k, v)
  BY <1>5, <1>6, Zenon DEF Held
<1>10. Probing'
  BY <1>1, Quiet, Zenon
<1> QED  BY <1>3, <1>4, <1>7, <1>8, <1>9, <1>10, Zenon DEF TableInv

\* The step removes k.
Drops(k) == \A j, x : Held(j, x)' <=> j # k /\ Held(j, x)

LEMMA DeleteHitStep ==
  ASSUME TableInv, deleteHit
  PROVE  TableInv' /\ Drops(cur.key) /\ Held(cur.key, tab[pos].val)
<1>1. /\ pc = "delete" /\ tab[pos] # Empty /\ tab[pos].key = cur.key
      /\ pc' = "shift" /\ tab' = tab /\ count' = count /\ hashOf' = hashOf
      /\ pos' = pos /\ swapped' = swapped /\ work' = work /\ fresh' = fresh
  BY Zenon DEF deleteHit, Passed, Match
<1>2. /\ hashOf \in [Keys -> Nat] /\ tab \in Seq(Slot(hashOf))
      /\ isCapacity[Len(tab)] /\ pos \in 1..Len(tab)
      /\ Placed(tab) /\ count = pending(tab) /\ count + Waiting <= growAt(Len(tab))
  BY Zenon DEF TableInv, Typed, Counted
<1>3. /\ work = <<>> /\ fresh = FALSE /\ swapped = FALSE /\ Waiting = 0
      /\ Distinct(tab, {}, <<>>, 0)
      /\ \A k, v : Held(k, v) <=> Has(tab, {}, <<>>, 0, k, v)
  <2>1. pc \in {"idle", "lookup", "delete"}
    BY <1>1, Zenon
  <2> QED  BY <2>1, AtRest, Zenon
<1>4. count <= growAt(Len(tab))
  <2>1. pending(tab) \in Nat
    BY Parts, Zenon
  <2>2. count + Waiting = count
    BY <1>2, <1>3, <2>1
  <2> QED  BY <1>2, <2>2, Zenon
<1>5. pos \in Full(tab) \ {} /\ {} \cup {pos} = {pos}
  <2>1. pos \in DOMAIN tab
    BY <1>2
  <2> QED  BY <1>1, <2>1, Zenon DEF Full
<1>6. /\ Distinct(tab, {} \cup {pos}, <<>>, 0)
      /\ Lacks(tab, {} \cup {pos}, <<>>, 0, tab[pos].key)
      /\ \A k, v : Has(tab, {}, <<>>, 0, k, v) <=>
           \/ k = tab[pos].key /\ v = tab[pos].val
           \/ Has(tab, {} \cup {pos}, <<>>, 0, k, v)
  BY <1>3, <1>5, RemoveSlot, Zenon
<1>7. /\ Distinct(tab, {pos}, <<>>, 0)
      /\ Lacks(tab, {pos}, <<>>, 0, cur.key)
      /\ \A k, v : Held(k, v) <=>
           \/ k = cur.key /\ v = tab[pos].val
           \/ Has(tab, {pos}, <<>>, 0, k, v)
  BY <1>1, <1>3, <1>5, <1>6, Zenon
<1>8. TableInv' /\ \A k, v : Held(k, v)' <=> Has(tab, {pos}, <<>>, 0, k, v)
  <2>1. TableInv' /\ \A k, v : Held(k, v)' <=> Has(tab', {pos'}, <<>>, 0, k, v)
    BY <1>1, <1>2, <1>3, <1>4, <1>7, ShiftInv, Zenon
  <2> QED  BY <1>1, <2>1, Zenon
<1> QED  BY <1>7, <1>8, Zenon DEF Drops, Lacks

\* While delete shifts entries back, all but its slot is the map.
LEMMA Shifting ==
  ASSUME TableInv, pc = "shift"
  PROVE  /\ work = <<>> /\ fresh = FALSE /\ swapped = FALSE
         /\ count = pending(tab) /\ count \in Nat /\ count <= growAt(Len(tab))
         /\ tab[pos] # Empty /\ Distinct(tab, {pos}, <<>>, 0)
         /\ \A k, v : Held(k, v) <=> Has(tab, {pos}, <<>>, 0, k, v)
<1>1. pc # "probe" /\ pc \notin {"set", "probe"}
  OBVIOUS
<1>2. /\ work = <<>> /\ fresh = FALSE /\ swapped = FALSE /\ tab[pos] # Empty
      /\ count = pending(tab)
  BY <1>1, Zenon DEF TableInv, Phase, Typed, Counted
<1>3. Line = <<>> /\ Turns = 0 /\ Hole = {pos}
  <2>1. Line = <<>> /\ Turns = Len(Line)
    BY <1>1, <1>2, LineParts, Zenon
  <2>2. Turns = 0
    BY <2>1
  <2> QED  BY <2>1, <2>2, Zenon DEF Hole
<1>4. count \in Nat /\ count <= growAt(Len(tab))
  <2>1. Waiting = pending(work) + 0 /\ pending(tab) \in Nat
    BY <1>1, Parts, Zenon
  <2>2. pending(work) = 0
    BY <1>2, PendingFew, Zenon
  <2>3. count + Waiting = count
    BY <1>2, <2>1, <2>2
  <2>4. count + Waiting <= growAt(Len(tab))
    BY Zenon DEF TableInv, Counted
  <2> QED  BY <1>2, <2>1, <2>3, <2>4, Zenon
<1>5. Distinct(tab, {pos}, <<>>, 0)
  BY <1>3, Zenon DEF TableInv
<1>6. \A k, v : Held(k, v) <=> Has(tab, {pos}, <<>>, 0, k, v)
  BY <1>3, Zenon DEF Held
<1> QED  BY <1>2, <1>4, <1>5, <1>6, Zenon

LEMMA ShiftBackStep ==
  ASSUME TableInv, shiftBack
  PROVE  TableInv' /\ Kept
<1> DEFINE n == after(Len(tab), pos)
           m == tab[n]
           e == [m EXCEPT !.dib = @ - 1]
           u == [tab EXCEPT ![pos] = e]
<1>1. /\ hashOf \in [Keys -> Nat] /\ tab \in Seq(Slot(hashOf))
      /\ isCapacity[Len(tab)] /\ pos \in 1..Len(tab) /\ Placed(tab)
  BY Zenon DEF TableInv, Typed
<1>2. Len(tab) \in Nat /\ Len(tab) >= 2 /\ next(pos) = n
  BY Parts, Zenon
<1>3. /\ pc = "shift" /\ m # Empty /\ m.dib > 0
      /\ tab' = u /\ pos' = n
      /\ count' = count /\ hashOf' = hashOf /\ pc' = pc /\ swapped' = swapped
      /\ work' = work /\ fresh' = fresh
  BY <1>2, Zenon DEF shiftBack, Displaced
<1>4. n \in 1..Len(tab) /\ n # pos
  BY <1>1, <1>2, Geometry, Zenon
<1>5. /\ work = <<>> /\ fresh = FALSE /\ swapped = FALSE
      /\ count = pending(tab) /\ count <= growAt(Len(tab))
      /\ tab[pos] # Empty /\ Distinct(tab, {pos}, <<>>, 0)
      /\ \A k, v : Held(k, v) <=> Has(tab, {pos}, <<>>, 0, k, v)
  BY <1>3, Shifting, Zenon
<1>6. e \in Known(hashOf) /\ Placed(u)
  BY <1>1, <1>2, <1>3, ShiftStep, Zenon
<1>7. m \in Known(hashOf)
  <2>1. m \in Slot(hashOf)
    BY <1>1, <1>4
  <2> QED  BY <1>3, <2>1, SlotType, Zenon
<1>8. e.key = m.key /\ e.val = m.val
  <2> HIDE DEF m
  <2> QED  BY <1>7 DEF Known, Sought
<1> HIDE DEF e
<1>9. e \in Slot(hashOf) /\ e # Empty
  <2>1. e \in Slot(hashOf)
    BY <1>6, Zenon DEF Slot
  <2> QED  BY <1>6, <2>1, SlotType, Zenon
<1>10. u \in Seq(Slot(hashOf)) /\ Len(u) = Len(tab) /\ u[n] = m
  BY <1>1, <1>4, <1>9
<1>11. pending(u) = pending(tab)
  BY <1>1, <1>5, <1>9, PendingWrite, Zenon
<1>12. /\ Distinct(tab, {pos} \cup {n}, <<>>, 0)
       /\ Lacks(tab, {pos} \cup {n}, <<>>, 0, m.key)
       /\ \A k, v : Has(tab, {pos}, <<>>, 0, k, v) <=>
            \/ k = m.key /\ v = m.val
            \/ Has(tab, {pos} \cup {n}, <<>>, 0, k, v)
  <2>1. n \in DOMAIN tab
    BY <1>1, <1>4
  <2>2. n \in Full(tab) \ {pos}
    BY <1>3, <1>4, <2>1, Zenon DEF Full
  <2> HIDE DEF n
  <2> QED  BY <1>5, <2>2, RemoveSlot, Zenon
<1>13. /\ Distinct(u, {n}, <<>>, 0)
       /\ \A k, v : Has(u, {n}, <<>>, 0, k, v) <=> Held(k, v)
  <2> DEFINE H == {pos} \cup {n}
  <2>1. pos \notin Full(tab) \ H /\ H \ {pos} = {n}
    BY <1>4, Zenon
  <2>2. Lacks(tab, H, <<>>, 0, e.key)
    BY <1>8, <1>12, Zenon
  <2> HIDE DEF H, m, n
  <2>3. /\ Distinct(u, H \ {pos}, <<>>, 0)
        /\ \A k, v : Has(u, H \ {pos}, <<>>, 0, k, v) <=>
             (k = e.key /\ v = e.val) \/ Has(tab, H, <<>>, 0, k, v)
    <3>1. Distinct(tab, H, <<>>, 0)
      BY <1>12, Zenon DEF H
    <3> QED  BY <1>1, <1>9, <2>1, <2>2, <3>1, FillSlot, Zenon
  <2> QED  BY <1>5, <1>8, <1>12, <2>1, <2>3, Zenon DEF H
<1>14. TableInv' /\ \A k, v : Held(k, v)' <=> Has(u, {n}, <<>>, 0, k, v)
  <2>1. /\ tab' \in Seq(Slot(hashOf)) /\ isCapacity[Len(tab')] /\ Placed(tab')
        /\ count' = pending(tab') /\ count' <= growAt(Len(tab'))
        /\ pos' \in 1..Len(tab') /\ tab'[pos'] # Empty
        /\ Distinct(tab', {pos'}, <<>>, 0)
    <3> HIDE DEF u, n, m
    <3> QED  BY <1>1, <1>3, <1>4, <1>5, <1>6, <1>10, <1>11, <1>13, Zenon
  <2>2. /\ hashOf' = hashOf /\ work' = <<>> /\ fresh' = FALSE /\ swapped' = FALSE
        /\ pc' = "shift"
    BY <1>3, <1>5, Zenon
  <2>3. TableInv' /\ \A k, v : Held(k, v)' <=> Has(tab', {pos'}, <<>>, 0, k, v)
    BY <1>1, <2>1, <2>2, ShiftInv, Zenon
  <2> HIDE DEF u, n
  <2> QED  BY <1>3, <2>3, Zenon
<1> QED  BY <1>13, <1>14, Zenon DEF Kept

LEMMA VacantStep ==
  ASSUME TableInv, vacate
  PROVE  TableInv' /\ Kept
<1> DEFINE L == Len(tab)
           u == [tab EXCEPT ![pos] = Empty]
<1>1. /\ hashOf \in [Keys -> Nat] /\ tab \in Seq(Slot(hashOf))
      /\ isCapacity[L] /\ pos \in 1..L /\ Placed(tab)
  BY Zenon DEF TableInv, Typed
<1>2. L \in Nat /\ L >= 4 /\ L >= 2 /\ next(pos) = after(L, pos)
  BY Parts, Zenon
<1>3. /\ pc = "shift" /\ ~Displaced(tab[after(L, pos)]) /\ shrink(u, count - 1)
      /\ hashOf' = hashOf /\ fresh' = fresh /\ answer' = answer
  BY <1>2, Zenon DEF vacate
<1>4. /\ fresh = FALSE /\ count = pending(tab) /\ count \in Nat
      /\ count <= growAt(L)
      /\ tab[pos] # Empty /\ Distinct(tab, {pos}, <<>>, 0)
      /\ \A k, v : Held(k, v) <=> Has(tab, {pos}, <<>>, 0, k, v)
  BY <1>3, Shifting, Zenon
<1>5. Placed(u)
  <2>1. tab[after(L, pos)] = Empty \/ ~(tab[after(L, pos)].dib > 0)
    BY <1>3, Zenon DEF Displaced
  <2>2. after(L, pos) \in 1..L
    BY <1>1, <1>2, Geometry, Zenon
  <2>3. tab[after(L, pos)] \in Slot(hashOf)
    BY <1>1, <2>2
  <2>4. tab[after(L, pos)].dib \in Int
    BY <2>3, SlotType, Zenon
  <2>5. tab[after(L, pos)].dib <= 0
    BY <2>1, <2>4 DEF Empty
  <2> QED  BY <1>1, <1>2, <2>5, VacateStep, Zenon
<1>6. u \in Seq(Slot(hashOf)) /\ Len(u) = L
  <2>1. Empty \in Slot(hashOf)
    BY Zenon DEF Slot
  <2> QED  BY <1>1, <2>1
<1>7. pending(u) = count - 1 /\ pending(u) \in Nat
  <2>1. pending(u) = pending(tab) - 1
    BY <1>1, <1>4, PendingWrite, Zenon
  <2>2. pending(u) \in Nat
    BY <1>6, FullFinite, Zenon
  <2> QED  BY <1>4, <2>1, <2>2, Zenon
<1>8. /\ Distinct(u, {}, <<>>, 0)
      /\ \A k, v : Has(u, {}, <<>>, 0, k, v) <=> Held(k, v)
  <2>1. /\ Distinct(u, {}, <<>>, 0)
        /\ \A k, v : Has(u, {}, <<>>, 0, k, v) <=> Has(tab, {pos}, <<>>, 0, k, v)
    BY <1>1, <1>4, EmptySlot, Zenon
  <2> QED  BY <1>4, <2>1, Zenon
<1>9. /\ <<>> \in Seq(Slot(hashOf)) /\ pending(<<>>) = 0 /\ 0 \in Nat
      /\ Len(<<>>) = 0
  BY PendingFew
<1>10. 0 = IF fresh' THEN Len(<<>>) - 1 ELSE Len(<<>>)
  <2>1. ~fresh'
    BY <1>3, <1>4, Zenon
  <2> QED  BY <1>9, <2>1
<1>11. fresh' = FALSE /\ ~fresh' /\ fresh' \in BOOLEAN
  BY <1>3, <1>4, Zenon
<1> HIDE DEF u
<1>12. CASE /\ L > MinCap /\ count - 1 < L \div 4
            /\ resize(u, L \div 2, <<>>) /\ Leave("set")
  <2>1. L \div 2 \in Nat /\ isCapacity[L \div 2] /\ L = 2 * (L \div 2)
    BY <1>1, <1>2, <1>12, Capacities, Zenon
  <2> HIDE DEF L
  <2>2. pending(u) + pending(<<>>) <= growAt(L \div 2)
    BY <1>2, <1>4, <1>7, <1>9, <1>12, <2>1 DEF growAt
  <2>3. TableInv' /\ \A k, v : Held(k, v)' <=> Has(u, {}, <<>>, 0, k, v)
    BY <1>1, <1>3, <1>6, <1>8, <1>9, <1>10, <1>11, <1>12, <2>1, <2>2,
       ResizeInv, Zenon
  <2> QED  BY <1>8, <2>3, Zenon DEF Kept
<1>13. CASE tab' = u /\ count' = count - 1 /\ work' = <<>> /\ Leave("idle")
  <2>1. count' = pending(tab') /\ count' + pending(work') <= growAt(Len(tab'))
    <3>1. growAt(L) \in Int
      BY <1>2 DEF growAt
    <3> HIDE DEF L
    <3>2. (count - 1) + 0 <= growAt(L)
      BY <1>4, <3>1
    <3> QED  BY <1>6, <1>7, <1>9, <1>13, <3>2, Zenon
  <2>2. "idle" \in {"idle", "set"}
    OBVIOUS
  <2>3. /\ tab' \in Seq(Slot(hashOf)) /\ isCapacity[Len(tab')] /\ Placed(tab')
        /\ work' \in Seq(Slot(hashOf)) /\ Distinct(tab', {}, work', 0)
        /\ 0 = IF fresh' THEN Len(work') - 1 ELSE Len(work')
    BY <1>1, <1>5, <1>6, <1>8, <1>9, <1>10, <1>13, Zenon
  <2>4. /\ TableInv'
        /\ \A k, v : Held(k, v)' <=> Has(tab', {}, work', 0, k, v)
    BY <1>1, <1>3, <1>11, <1>13, <2>1, <2>2, <2>3, LeaveInv, Zenon
  <2> QED  BY <1>8, <1>13, <2>4, Zenon DEF Kept
<1> QED  BY <1>3, <1>6, <1>12, <1>13, Zenon DEF shrink

-----------------------------------------------------------------------------
(* The invariant holds. *)

LEMMA InitInv == Init => TableInv
<1> SUFFICES ASSUME Init PROVE TableInv
  OBVIOUS
<1>1. /\ tab = alloc(MinCap) /\ count = 0 /\ pc = "idle" /\ pos = 1
      /\ swapped = FALSE /\ work = <<>> /\ fresh = FALSE /\ answer = <<"none">>
      /\ hashOf \in [Keys -> Nat]
  BY TableAssumption, Zenon DEF Init
<1>2. MinCap \in Nat /\ MinCap >= 4 /\ isCapacity[MinCap]
  BY TableAssumption, Capacities, Zenon
<1>3. /\ tab \in Seq(Slot(hashOf)) /\ Len(tab) = MinCap /\ Placed(tab)
      /\ 1 \in 1..MinCap
  BY <1>1, <1>2, AllocStep, Zenon
<1>4. /\ pc # "probe" /\ pc # "shift" /\ pc \notin {"probe", "lookup", "delete"}
      /\ pc \in {"idle", "set", "probe", "lookup", "delete", "shift"}
      /\ pc \notin {"lookup", "delete"}
      /\ <<>> \in Seq(Slot(hashOf)) /\ Len(<<>>) = 0
  BY <1>1
<1>5. Typed
  BY <1>1, <1>2, <1>3, <1>4, Zenon DEF Typed
<1>6. Counted
  <2>1. pending(tab) = 0 /\ pending(work) = 0
    BY <1>1, <1>2, PendingFew, Zenon
  <2>2. Waiting = pending(work) + 0
    BY <1>4, Zenon DEF Waiting, pending, Full
  <2>3. growAt(Len(tab)) \in Nat
    BY <1>2, <1>3, Limits, Zenon
  <2>4. count + Waiting <= growAt(Len(tab))
    BY <1>1, <2>1, <2>2, <2>3
  <2> QED  BY <1>1, <2>1, <2>4, Zenon DEF Counted
<1>7. Probing /\ Phase
  BY <1>1, <1>4, Zenon DEF Probing, Phase
<1>8. Distinct(tab, Hole, Line, Turns)
  <2>1. Full(tab) = {} /\ Full(<<>>) = {}
    BY <1>1, <1>2 DEF alloc, Full
  <2>2. Line = line(pc, cur, work)
    BY Zenon DEF Line, line
  <2>3. pc # "probe" => line(pc, cur, work) = work
    BY <1>1, <1>4, LineValue, Zenon
  <2>4. Line = <<>>
    BY <1>1, <1>4, <2>2, <2>3, Zenon
  <2> QED  BY <2>1, <2>4, Zenon DEF Distinct
<1> QED  BY <1>3, <1>5, <1>6, <1>7, <1>8, Zenon DEF TableInv

LEMMA NextInv == TableInv /\ [Next]_vars => TableInv'
<1> SUFFICES ASSUME TableInv, [Next]_vars PROVE TableInv'
  OBVIOUS
<1>1. ASSUME NEW k \in Keys, NEW v \in Vals, insert(k, v) PROVE TableInv'
  BY <1>1, InsertStep, Zenon
<1>2. ASSUME NEW k \in Keys, search(k, "lookup") \/ search(k, "delete")
      PROVE  TableInv'
  <2>1. "lookup" \in {"lookup", "delete"} /\ "delete" \in {"lookup", "delete"}
    OBVIOUS
  <2> QED  BY <1>2, <2>1, SearchStep, Zenon
<1>3. CASE set
  BY <1>3, SetStep, Zenon
<1>4. CASE setReturns
  <2>1. pc \in {"set", "lookup", "delete"}
    BY <1>4, Zenon DEF setReturns
  <2> QED  BY <1>4, <2>1, ReturnStep, Zenon DEF setReturns
<1>5. CASE probe
  BY <1>5, OverflowStep, EmptyStep, ProbeOverwriteStep, ProbeRobStep, ProbeOnStep,
     Zenon DEF probe
<1>6. CASE searchMiss \/ lookupHit
  BY <1>6, SearchReturns, Zenon
<1>7. CASE deleteHit
  BY <1>7, DeleteHitStep, Zenon
<1>8. CASE searchOn
  BY <1>8, SearchOnStep, Zenon
<1>9. CASE shiftBack \/ vacate
  BY <1>9, ShiftBackStep, VacantStep, Zenon
<1>10. CASE UNCHANGED vars
  <2>1. /\ Typed' /\ Counted' /\ Placed(tab)' /\ Probing' /\ Phase'
        /\ Distinct(tab, Hole, Line, Turns)'
    <3>1. /\ tab' = tab /\ count' = count /\ hashOf' = hashOf /\ pc' = pc
          /\ cur' = cur /\ pos' = pos /\ swapped' = swapped /\ work' = work
          /\ fresh' = fresh /\ answer' = answer
      BY <1>10, Zenon DEF vars, probing
    <3>2. Line' = Line /\ Hole' = Hole /\ Turns' = Turns /\ Waiting' = Waiting
      BY <3>1, Zenon DEF Line, Hole, Turns, Waiting
    <3>3. Typed'
      BY <3>1, Zenon DEF TableInv, Typed
    <3>4. Counted'
      BY <3>1, <3>2, Zenon DEF TableInv, Counted, growAt
    <3>5. Probing' /\ Phase'
      BY <3>1, <3>2, Zenon DEF TableInv, Probing, Phase, Callers
    <3> QED  BY <3>1, <3>2, <3>3, <3>4, <3>5, Zenon DEF TableInv
  <2> QED  BY <2>1, Zenon DEF TableInv
<1> QED  BY <1>1, <1>2, <1>3, <1>4, <1>5, <1>6, <1>7, <1>8, <1>9, <1>10, Zenon
            DEF Next

\* In every behaviour of the table every step of every loop keeps the invariant.
THEOREM TableInvariant == Spec => []TableInv
<1>1. Init => TableInv
  BY InitInv
<1>2. TableInv /\ [Next]_vars => TableInv'
  BY NextInv
<1> QED  BY <1>1, <1>2, PTL DEF Spec

-----------------------------------------------------------------------------
(* What follows from the invariant. *)

\* Each conjunct of RobinHood is in the invariant, or is a matter of distances.
LEMMA RobinHoodFollows == TableInv => RobinHood
<1> SUFFICES ASSUME TableInv PROVE RobinHood
  OBVIOUS
<1> DEFINE L == Len(tab)
<1>1. /\ hashOf \in [Keys -> Nat] /\ tab \in Seq(Slot(hashOf)) /\ isCapacity[L]
      /\ Placed(tab) /\ count = pending(tab) /\ count + Waiting <= growAt(L)
      /\ Distinct(tab, Hole, Line, Turns)
  BY Zenon DEF TableInv, Typed, Counted
<1>2. L \in Nat /\ L >= 2 /\ \A h : home(h) = start(L, h)
  BY Parts, Zenon
<1>3. Slots = 1..L /\ \A i \in Slots : tab[i] \in Slot(hashOf)
  BY <1>1 DEF Slots
<1>4. Occupied = Full(tab)
  BY Zenon DEF Occupied, Full, Slots
<1>5. \A h, i : dist(h, i) = gap(L, h, i)
  BY Zenon DEF dist, gap
<1>6. ASSUME NEW i \in Occupied
      PROVE  /\ tab[i] \in [dib: 0..MaxDib, frag: 0..(FragValues - 1), key: Keys,
                            val: Vals, hash: {hashOf[k] : k \in Keys}]
             /\ tab[i].hash = hashOf[tab[i].key]
             /\ tab[i].frag = fragOf(tab[i].hash)
             /\ tab[i].dib = dist(home(tab[i].hash), i)
             /\ \A j \in Slots :
                  dist(home(tab[i].hash), j) <= tab[i].dib =>
                    /\ tab[j] # Empty
                    /\ tab[j].dib >= dist(home(tab[i].hash), j)
  <2> DEFINE m == tab[i]
             h == start(L, m.hash)
  <2>1. i \in 1..L /\ m # Empty /\ m \in Slot(hashOf)
    BY <1>3, Zenon DEF Occupied
  <2>2. m \in Known(hashOf) /\ m.dib >= 0
    BY <2>1, SlotType, Zenon
  <2>3. Arrived(tab, m, i) /\ m.dib <= MaxDib
    BY <1>1, <2>1, <2>2, Zenon DEF Placed
  <2>4. /\ m \in [dib: Nat, frag: Nat, key: Keys, val: Vals \cup {Absent}, hash: Nat]
        /\ m.hash = hashOf[m.key] /\ m.frag = fragOf(m.hash) /\ m.val \in Vals
    BY <2>2, Zenon DEF Known, Sought
  <2> HIDE DEF m
  <2>5. /\ m.dib \in Nat /\ m.key \in Keys /\ m.hash \in Nat
        /\ m = [dib |-> m.dib, frag |-> m.frag, key |-> m.key, val |-> m.val,
                hash |-> m.hash]
    BY <2>4
  <2>6. m.frag \in 0..(FragValues - 1)
    BY <2>4, <2>5, TableAssumption DEF fragOf
  <2>7. m.hash \in {hashOf[k] : k \in Keys}
    BY <2>4, <2>5, Zenon
  <2>8. m.dib \in 0..MaxDib
    BY <2>3, <2>5, TableAssumption
  <2>9. m \in [dib: 0..MaxDib, frag: 0..(FragValues - 1), key: Keys,
               val: Vals, hash: {hashOf[k] : k \in Keys}]
    BY <2>4, <2>5, <2>6, <2>7, <2>8
  <2>10. m.dib = gap(L, h, i) /\ Way(tab, m, m.dib)
    BY <2>3, Zenon DEF Arrived
  <2>11. h \in 1..L
    BY <1>2, <2>5, Geometry, Zenon
  <2>12. ASSUME NEW j \in 1..L, gap(L, h, j) <= m.dib
         PROVE  tab[j] # Empty /\ tab[j].dib >= gap(L, h, j)
    <3>1. gap(L, h, j) \in 0..(L - 1)
      BY <1>2, <2>11, Geometry, Zenon
    <3>2. gap(L, h, j) < m.dib => tab[j].dib >= gap(L, h, j)
      BY <2>10, Zenon DEF Way
    <3>3. gap(L, h, j) = gap(L, h, i) => j = i
      BY <1>2, <2>1, <2>11, Geometry, Zenon
    <3> HIDE DEF h
    <3>4. tab[j].dib >= gap(L, h, j)
      <4>1. CASE gap(L, h, j) < m.dib
        BY <3>2, <4>1, Zenon
      <4>2. CASE gap(L, h, j) = m.dib
        <5>1. tab[j].dib = m.dib
          BY <2>10, <3>3, <4>2, Zenon DEF m
        <5> QED  BY <2>5, <4>2, <5>1
      <4> QED  BY <2>5, <2>12, <3>1, <4>1, <4>2
    <3>5. tab[j] \in Slot(hashOf)
      BY <1>3, Zenon
    <3>6. tab[j].dib \in Int
      BY <3>5, SlotType, Zenon
    <3>7. tab[j].dib >= 0
      BY <3>1, <3>4, <3>6
    <3> QED  BY <3>4, <3>5, <3>7, SlotType, Zenon
  <2> QED  BY <1>2, <1>3, <1>5, <2>4, <2>9, <2>10, <2>12, Zenon DEF m
<1>7. \A i, j \in Occupied \ Hole : tab[i].key = tab[j].key => i = j
  BY <1>1, <1>4, Zenon DEF Distinct
<1>8. WellFormed
  BY <1>1, <1>4, <1>6, <1>7, Zenon DEF WellFormed, pending
<1> QED  BY <1>6, <1>8, Zenon DEF RobinHood

\* For any keys, hashes and values and any limit on a chain: in every iteration
\* of every loop of set, lookup, delete, grow and shrink the table is well formed
\* and lookup may stop at the first slot that its key would have robbed.
THEOREM RobinHoodHolds == Spec => []RobinHood
<1>1. TableInv => RobinHood
  BY RobinHoodFollows
<1> QED  BY <1>1, TableInvariant, PTL

\* A step resizes the table only where the next operation cannot undo it.
Steady ==
  /\ Len(tab') < Len(tab) => count - 1 < growAt(Len(tab'))
  /\ pc = "idle" /\ Len(tab') > Len(tab) => count - 1 >= Len(tab') \div 4

LEMMA SteadySteps == TableInv /\ [Next]_vars => Steady
<1> SUFFICES ASSUME TableInv, [Next]_vars PROVE Steady
  OBVIOUS
<1> DEFINE L == Len(tab)
<1>1. /\ tab \in Seq(Slot(hashOf)) /\ isCapacity[L] /\ L \in Nat /\ L >= 4
      /\ pos \in 1..L
  BY Parts, Zenon DEF TableInv, Typed
<1>2. Len(tab') = L => Steady
  BY <1>1 DEF Steady
<1>3. \A n \in Nat : n >= 4 /\ tab' = alloc(n) => Len(tab') = n
  BY AllocStep, Zenon
<1>4. \A e : Len([tab EXCEPT ![pos] = e]) = L
  BY <1>1
<1>5. tab' = tab => Steady
  BY <1>2, Zenon
<1>6. (\E e : tab' = [tab EXCEPT ![pos] = e]) => Steady
  BY <1>2, <1>4, Zenon
<1>7. ASSUME NEW k \in Keys, NEW v \in Vals, insert(k, v) PROVE Steady
  <2>1. CASE tab' = tab
    BY <1>5, <2>1, Zenon
  <2>2. CASE count >= growAt(L) /\ tab' = alloc(2 * L)
    <3>1. 2 * L \in Nat /\ 2 * L >= 4 /\ count \in Nat
      <4>1. count \in Nat
        BY Parts, Zenon DEF TableInv, Counted
      <4> QED  BY <1>1, <4>1
    <3>2. Len(tab') = 2 * L
      BY <1>3, <2>2, <3>1, Zenon
    <3> HIDE DEF L
    <3>3. count - 1 >= (2 * L) \div 4 /\ ~(2 * L < L)
      BY <1>1, <2>2, <3>1 DEF growAt
    <3> QED  BY <3>2, <3>3, Zenon DEF Steady, L
  <2> QED  BY <1>7, <2>1, <2>2, Zenon DEF insert, resize
<1>8. CASE vacate
  <2>1. pc = "shift" /\ shrink([tab EXCEPT ![pos] = Empty], count - 1)
    BY <1>8, Zenon DEF vacate
  <2>2. count \in Nat
    BY <2>1, Shifting, Zenon
  <2>3. CASE tab' = [tab EXCEPT ![pos] = Empty]
    BY <1>6, <2>3, Zenon
  <2>4. CASE L > MinCap /\ count - 1 < L \div 4 /\ tab' = alloc(L \div 2)
    <3>1. L \div 2 \in Nat /\ L \div 2 >= 4 /\ L = 2 * (L \div 2)
      BY <1>1, <2>4, Capacities, Zenon
    <3>2. Len(tab') = L \div 2
      BY <1>3, <2>4, <3>1, Zenon
    <3> HIDE DEF L
    <3>3. count - 1 < growAt(L \div 2)
      BY <1>1, <2>2, <2>4, <3>1 DEF growAt
    <3>4. pc # "idle"
      BY <2>1
    <3> QED  BY <3>2, <3>3, <3>4, Zenon DEF Steady
  <2> QED  BY <1>4, <2>1, <2>3, <2>4, Zenon DEF shrink, resize
<1>9. CASE probeOverflow
  <2>1. pc = "probe" /\ tab' = alloc(2 * L)
    BY <1>9, Zenon DEF probeOverflow, resize
  <2>2. 2 * L \in Nat /\ 2 * L >= 4 /\ ~(2 * L < L)
    BY <1>1
  <2>3. Len(tab') = 2 * L /\ pc # "idle"
    BY <1>3, <2>1, <2>2, Zenon
  <2> QED  BY <2>2, <2>3, Zenon DEF Steady
<1>10. CASE probeEmpty \/ probeRob \/ shiftBack
  BY <1>6, <1>10, Zenon DEF probeEmpty, probeRob, shiftBack
<1>11. CASE probeOverwrite
  <2>1. tab' = [tab EXCEPT ![pos].val = cur.val]
    BY <1>11, Zenon DEF probeOverwrite
  <2>2. Len(tab') = L
    BY <1>1, <2>1
  <2> QED  BY <1>2, <2>2, Zenon
<1>12. CASE \/ set \/ setReturns \/ probeOn \/ UNCHANGED vars
            \/ \E k \in Keys : search(k, "lookup") \/ search(k, "delete")
  BY <1>5, <1>12, Zenon DEF set, setReturns, probeOn, search, vars
<1>13. CASE searchMiss \/ lookupHit \/ deleteHit \/ searchOn
  BY <1>5, <1>13, Zenon DEF searchMiss, lookupHit, deleteHit, searchOn
<1> QED  BY <1>7, <1>8, <1>9, <1>10, <1>11, <1>12, <1>13, Zenon DEF Next, probe

\* For every capacity and every number of entries: an insert right after a shrink
\* does not grow the table again, and a delete right after it grew at the
\* threshold does not shrink it, as table.go:55 has it.
THEOREM NoThrashHolds == Spec => NoThrash
<1>1. TableInv /\ [Next]_vars => Steady
  BY SteadySteps
<1> QED  BY <1>1, TableInvariant, PTL DEF Spec, NoThrash, Steady

-----------------------------------------------------------------------------
(* The table is a map. *)

\* The places of Pairs are those of Held.
LEMMA PairsHeld ==
  ASSUME TableInv
  PROVE  /\ \A k, v : <<k, v>> \in Pairs <=> Held(k, v)
         /\ \A p \in Pairs : p = <<p[1], p[2]>>
<1>1. Occupied = Full(tab)
  BY Zenon DEF Occupied, Full, Slots
<1>2. \A i : i \in Moving <=> i \in Full(Line) /\ i <= Turns
  <2>1. /\ Line \in Seq(Slot(hashOf)) /\ Len(Line) \in Nat
        /\ ~fresh => Turns = Len(Line)
        /\ fresh => Turns = Len(Line) - 1
    BY LineParts, Zenon
  <2>2. DOMAIN Line = 1..Len(Line)
    BY <2>1
  <2>3. \A i \in DOMAIN Line : (fresh => i < Len(Line)) <=> i <= Turns
    <3>1. CASE fresh
      BY <2>1, <2>2, <3>1
    <3>2. CASE ~fresh
      BY <2>1, <2>2, <3>2
    <3> QED  BY <3>1, <3>2, Zenon
  <2> QED  BY <2>3, Zenon DEF Moving, Full
<1>3. \A k, v, x, y : <<k, v>> = <<x, y>> <=> k = x /\ v = y
  OBVIOUS
<1>4. ASSUME NEW k, NEW v PROVE <<k, v>> \in Pairs <=> Held(k, v)
  <2>1. (\E i \in Full(tab) \ Hole : <<k, v>> = <<tab[i].key, tab[i].val>>) <=>
           \E i \in Full(tab) \ Hole : tab[i].key = k /\ tab[i].val = v
    BY <1>3, Zenon
  <2>2. (\E i \in Moving : <<k, v>> = <<Line[i].key, Line[i].val>>) <=>
          \E i \in Full(Line) : i <= Turns /\ Line[i].key = k /\ Line[i].val = v
    <3>1. (\E i \in Moving : <<k, v>> = <<Line[i].key, Line[i].val>>) <=>
            \E i \in Moving : Line[i].key = k /\ Line[i].val = v
      BY <1>3, Zenon
    <3>2. (\E i \in Moving : Line[i].key = k /\ Line[i].val = v) <=>
            \E i \in Full(Line) : i <= Turns /\ Line[i].key = k /\ Line[i].val = v
      BY <1>2, Zenon
    <3> QED  BY <3>1, <3>2, Zenon
  <2>3. Held(k, v) <=>
          \/ \E i \in Full(tab) \ Hole : tab[i].key = k /\ tab[i].val = v
          \/ \E i \in Full(Line) : i <= Turns /\ Line[i].key = k /\ Line[i].val = v
    BY Zenon DEF Held, Has
  <2>4. <<k, v>> \in Pairs <=>
          \/ \E i \in Full(tab) \ Hole : <<k, v>> = <<tab[i].key, tab[i].val>>
          \/ \E i \in Moving : <<k, v>> = <<Line[i].key, Line[i].val>>
    BY <1>1, Zenon DEF Pairs
  <2> QED  BY <2>1, <2>2, <2>3, <2>4, Zenon
<1>5. \A p \in Pairs : \E k, v : p = <<k, v>>
  BY Zenon DEF Pairs
<1>6. ASSUME NEW p \in Pairs PROVE p = <<p[1], p[2]>>
  <2>1. PICK k, v : p = <<k, v>>
    BY <1>5, Zenon
  <2> QED  BY <2>1
<1> QED  BY <1>4, <1>6, Zenon

\* The map, as the abstract specification sees it, in terms of what is held.
Reads ==
  /\ contents = [k \in Keys |-> contents[k]]
  /\ \A k \in Keys : /\ \A v : Held(k, v) => contents[k] = v
                     /\ (\A v : ~Held(k, v)) => contents[k] = Absent

LEMMA ContentsRead == TableInv => Reads
<1> SUFFICES ASSUME TableInv PROVE Reads
  OBVIOUS
<1>1. /\ \A k, v : <<k, v>> \in Pairs <=> Held(k, v)
      /\ \A p \in Pairs : p = <<p[1], p[2]>>
  BY PairsHeld, Zenon
<1>2. \A k \in Keys :
        contents[k] = IF \E p \in Pairs : p[1] = k
                      THEN (CHOOSE p \in Pairs : p[1] = k)[2] ELSE Absent
  BY Zenon DEF contents
<1>3. contents = [k \in Keys |-> contents[k]]
  BY <1>2, Zenon DEF contents
<1>4. ASSUME NEW k \in Keys, NEW v, Held(k, v) PROVE contents[k] = v
  <2> DEFINE p == CHOOSE p \in Pairs : p[1] = k
  <2>1. <<k, v>> \in Pairs /\ <<k, v>>[1] = k
    <3>1. <<k, v>>[1] = k
      OBVIOUS
    <3> QED  BY <1>1, <1>4, <3>1, Zenon
  <2>2. p \in Pairs /\ p[1] = k
    BY <2>1, Zenon
  <2>3. contents[k] = p[2]
    BY <1>2, <2>1, Zenon
  <2> HIDE DEF p
  <2>4. Held(k, p[2])
    BY <1>1, <2>2, Zenon
  <2>5. v = p[2]
    BY <1>4, <2>4, OneValue, Zenon DEF Held, TableInv
  <2> QED  BY <2>3, <2>5, Zenon
<1>5. ASSUME NEW k \in Keys, \A v : ~Held(k, v) PROVE contents[k] = Absent
  <2>1. ~ \E p \in Pairs : p[1] = k
    BY <1>1, <1>5, Zenon
  <2> QED  BY <1>2, <2>1, Zenon
<1> QED  BY <1>3, <1>4, <1>5, Zenon DEF Reads

\* The same in the next state.
LEMMA ContentsReadNext == TableInv' => Reads'
BY ContentsRead, PTL

\* What a step does to the abstract map, from what it does to what is held.
LEMMA MapSteps ==
  ASSUME Reads, Reads'
  PROVE  /\ Kept => contents' = contents
         /\ \A k \in Keys : \A v :
              Puts(k, v) => contents' = [contents EXCEPT ![k] = v]
         /\ \A k \in Keys :
              Drops(k) => contents' = [contents EXCEPT ![k] = Absent]
<1>1. /\ contents = [k \in Keys |-> contents[k]]
      /\ contents' = [k \in Keys |-> contents'[k]]
  BY Zenon DEF Reads
<1>2. ASSUME NEW j \in Keys, \A x : Held(j, x)' <=> Held(j, x)
      PROVE  contents'[j] = contents[j]
  <2>1. CASE \E x : Held(j, x)
    BY <1>2, <2>1, Zenon DEF Reads
  <2>2. CASE \A x : ~Held(j, x)
    <3>1. \A x : ~ Held(j, x)'
      BY <1>2, <2>2, Zenon
    <3>2. contents'[j] = Absent
      BY <3>1, Zenon DEF Reads
    <3>3. contents[j] = Absent
      BY <2>2, Zenon DEF Reads
    <3> QED  BY <3>2, <3>3, Zenon
  <2> QED  BY <2>1, <2>2, Zenon
<1>3. ASSUME Kept PROVE contents' = contents
  <2>1. \A j \in Keys : contents'[j] = contents[j]
    BY <1>2, <1>3, Zenon DEF Kept
  <2> QED  BY <1>1, <2>1
<1>4. ASSUME NEW k \in Keys, NEW v, Puts(k, v)
      PROVE  contents' = [contents EXCEPT ![k] = v]
  <2>1. contents'[k] = v
    <3>1. Held(k, v)'
      BY <1>4, Zenon DEF Puts
    <3> QED  BY <3>1, Zenon DEF Reads
  <2>2. \A j \in Keys : j # k => contents'[j] = contents[j]
    BY <1>2, <1>4, Zenon DEF Puts
  <2> QED  BY <1>1, <2>1, <2>2
<1>5. ASSUME NEW k \in Keys, Drops(k)
      PROVE  contents' = [contents EXCEPT ![k] = Absent]
  <2>1. contents'[k] = Absent
    <3>1. \A x : ~ Held(k, x)'
      BY <1>5, Zenon DEF Drops
    <3> QED  BY <3>1, Zenon DEF Reads
  <2>2. \A j \in Keys : j # k => contents'[j] = contents[j]
    BY <1>2, <1>5, Zenon DEF Drops
  <2> QED  BY <1>1, <2>1, <2>2
<1> QED  BY <1>3, <1>4, <1>5, Zenon

\* While a search runs, its key is one of the map's and it has not answered yet.
LEMMA Searching ==
  ASSUME TableInv, pc \in {"lookup", "delete"}
  PROVE  /\ cur.key \in Keys /\ answer = <<"none">>
         /\ Passed(tab[pos]) => \A v : ~Held(cur.key, v)
         /\ ~Passed(tab[pos]) /\ Match(tab[pos]) => Held(cur.key, tab[pos].val)
<1>1. pc \in {"probe", "lookup", "delete"} /\ pc \in {"idle", "lookup", "delete"}
  BY Zenon
<1>2. /\ hashOf \in [Keys -> Nat] /\ tab \in Seq(Slot(hashOf))
      /\ pos \in 1..Len(tab) /\ Placed(tab) /\ answer = <<"none">>
  BY Zenon DEF TableInv, Typed, Phase
<1>3. ~swapped /\ \A k, v : Held(k, v) <=> Has(tab, {}, <<>>, 0, k, v)
  BY <1>1, AtRest, Zenon
<1>4. cur \in Sought(hashOf) /\ Arrived(tab, cur, pos) /\ Passing(tab, cur)
  BY <1>1, <1>3, Zenon DEF TableInv, Probing
<1>5. cur.key \in Keys /\ cur.dib \in Nat
  BY <1>4 DEF Sought
<1>6. Len(tab) >= 2 /\ DOMAIN tab = 1..Len(tab)
  <2>1. Len(tab) >= 2
    BY Parts, Zenon
  <2> QED  BY <1>2, <2>1
<1>7. \A i \in 1..Len(tab) : tab[i] \in Slot(hashOf)
  BY <1>2
<1>8. Full(<<>>) = {}
  BY DEF Full
<1>9. ASSUME Passed(tab[pos]) PROVE \A v : ~Held(cur.key, v)
  <2>1. tab[pos].dib < cur.dib
    <3>1. tab[pos].dib \in Int
      BY <1>2, <1>7, SlotType, Zenon
    <3>2. tab[pos] = Empty \/ cur.dib > tab[pos].dib
      BY <1>9, Zenon DEF Passed
    <3>3. Empty.dib = -1
      BY DEF Empty
    <3> QED  BY <1>5, <3>1, <3>2, <3>3
  <2>2. \A i \in 1..Len(tab) : tab[i].dib >= 0 => tab[i].key # cur.key
    BY <1>2, <1>4, <1>6, <2>1, Missing, Zenon DEF Passing
  <2>3. \A i \in Full(tab) \ {} : i \in 1..Len(tab) /\ tab[i] # Empty
    BY <1>6, Zenon DEF Full
  <2>4. \A i \in Full(tab) \ {} : tab[i].key # cur.key
    BY <1>7, <2>2, <2>3, SlotType, Zenon
  <2> QED  BY <1>3, <1>8, <2>4, Zenon DEF Has
<1>10. ASSUME ~Passed(tab[pos]), Match(tab[pos])
       PROVE  Held(cur.key, tab[pos].val)
  <2>1. pos \in Full(tab) \ {} /\ tab[pos].key = cur.key
    BY <1>2, <1>6, <1>10, Zenon DEF Passed, Match, Full
  <2> QED  BY <1>3, <2>1, Zenon DEF Has
<1> QED  BY <1>2, <1>5, <1>9, <1>10, Zenon

\* Every step of a loop is a step of the map, or none.
MapStep == [Map!Next]_<<contents, answer>>

LEMMA RefinesMap == TableInv /\ [Next]_vars => MapStep
<1> SUFFICES ASSUME TableInv, [Next]_vars PROVE MapStep
  OBVIOUS
<1>0. Reads /\ Reads'
  BY NextInv, ContentsRead, ContentsReadNext, Zenon
<1>1. /\ Kept => contents' = contents
      /\ \A k \in Keys : \A v :
           Puts(k, v) => contents' = [contents EXCEPT ![k] = v]
      /\ \A k \in Keys :
           Drops(k) => contents' = [contents EXCEPT ![k] = Absent]
  BY <1>0, MapSteps, Zenon
<1>2. /\ contents = [k \in Keys |-> contents[k]]
      /\ \A k \in Keys : /\ \A v : Held(k, v) => contents[k] = v
                         /\ (\A v : ~Held(k, v)) => contents[k] = Absent
  BY <1>0, Zenon DEF Reads
<1>3. Kept /\ answer' = answer => MapStep
  BY <1>1, Zenon DEF MapStep
<1>4. Kept /\ answer' = <<"none">> => MapStep
  BY <1>1, Zenon DEF MapStep, Map!Next, Map!Call
<1>5. ASSUME NEW k \in Keys, NEW v \in Vals, answer = <<"none">>,
             Puts(k, v), answer' = <<"stored", k>>
      PROVE  MapStep
  BY <1>1, <1>5, Zenon DEF MapStep, Map!Next, Map!Insert
<1>6. ASSUME NEW k \in Keys, answer = <<"none">>, Drops(k),
             answer' = <<"removed", k, contents[k]>>
      PROVE  MapStep
  BY <1>1, <1>6, Zenon DEF MapStep, Map!Next, Map!Delete
<1>7. ASSUME NEW k \in Keys, answer = <<"none">>, Kept,
             answer' = <<"found", k, contents[k]>>
      PROVE  MapStep
  BY <1>1, <1>7, Zenon DEF MapStep, Map!Next, Map!Lookup
<1>8. CASE \E k \in Keys : \/ \E v \in Vals : insert(k, v)
                           \/ search(k, "lookup") \/ search(k, "delete")
  <2>1. "lookup" \in {"lookup", "delete"} /\ "delete" \in {"lookup", "delete"}
    OBVIOUS
  <2>2. Kept
    BY <1>8, <2>1, InsertStep, SearchStep, Zenon
  <2>3. answer' = <<"none">>
    BY <1>8, Zenon DEF insert, search
  <2> QED  BY <1>4, <2>2, <2>3, Zenon
<1>9. CASE set \/ probeOverflow \/ probeOn \/ searchOn \/ shiftBack \/ vacate
  <2>1. Kept
    BY <1>9, SetStep, OverflowStep, ProbeOnStep, SearchOnStep, ShiftBackStep,
       VacantStep, Zenon
  <2>2. answer' = answer
    BY <1>9, Zenon DEF set, probeOverflow, probeOn, searchOn, shiftBack, vacate
  <2> QED  BY <1>3, <2>1, <2>2, Zenon
<1>10. CASE setReturns
  <2>1. pc \in {"set", "lookup", "delete"} /\ answer' = answer
    BY <1>10, Zenon DEF setReturns
  <2>2. Kept
    BY <1>10, <2>1, ReturnStep, Zenon DEF setReturns
  <2> QED  BY <1>3, <2>1, <2>2, Zenon
<1>11. CASE probeEmpty \/ probeOverwrite \/ probeRob
  <2>1. /\ pc = "probe"
        /\ answer' = IF Callers THEN <<"stored", cur.key>> ELSE answer
    BY <1>11, Zenon DEF probeEmpty, probeOverwrite, probeRob, Stored
  <2>2. Stores
    BY <1>11, EmptyStep, ProbeOverwriteStep, ProbeRobStep, Zenon DEF Stores
  <2>3. CASE Callers
    <3>1. cur.key \in Keys /\ cur.val \in Vals /\ answer = <<"none">>
      BY <2>1, <2>3, Carrying, Zenon DEF Callers
    <3>2. Puts(cur.key, cur.val) /\ answer' = <<"stored", cur.key>>
      BY <2>1, <2>2, <2>3, Zenon DEF Stores
    <3> QED  BY <1>5, <3>1, <3>2, Zenon
  <2>4. CASE ~Callers
    BY <1>3, <2>1, <2>2, <2>4, Zenon DEF Stores
  <2> QED  BY <2>3, <2>4, Zenon
<1>12. CASE deleteHit
  <2>1. pc = "delete" /\ "delete" # "lookup" /\ Answer(tab[pos].val)
    BY <1>12 DEF deleteHit
  <2>2. cur.key \in Keys /\ answer = <<"none">>
    BY <2>1, Searching, Zenon
  <2>3. Drops(cur.key) /\ contents[cur.key] = tab[pos].val
    BY <1>2, <1>12, <2>2, DeleteHitStep, Zenon
  <2>4. answer' = <<"removed", cur.key, contents[cur.key]>>
    BY <2>1, <2>3, Zenon DEF Answer
  <2> QED  BY <1>6, <2>2, <2>3, <2>4, Zenon
<1>13. CASE lookupHit
  <2>1. /\ pc = "lookup" /\ ~Passed(tab[pos]) /\ Match(tab[pos])
        /\ Answer(tab[pos].val)
    BY <1>13, Zenon DEF lookupHit
  <2>2. cur.key \in Keys /\ answer = <<"none">> /\ Held(cur.key, tab[pos].val)
    BY <2>1, Searching, Zenon
  <2>3. answer' = <<"found", cur.key, contents[cur.key]>>
    BY <1>2, <2>1, <2>2, Zenon DEF Answer
  <2> QED  BY <1>7, <1>13, <2>2, <2>3, SearchReturns, Zenon
<1>14. CASE searchMiss
  <2>1. /\ pc \in {"lookup", "delete"} /\ Passed(tab[pos]) /\ Answer(Absent)
    BY <1>14, Zenon DEF searchMiss
  <2>2. /\ cur.key \in Keys /\ answer = <<"none">>
        /\ \A v : ~Held(cur.key, v)
    BY <2>1, Searching, Zenon
  <2>3. contents[cur.key] = Absent /\ Kept
    BY <1>2, <1>14, <2>2, SearchReturns, Zenon
  <2>4. CASE pc = "lookup"
    <3>1. answer' = <<"found", cur.key, contents[cur.key]>>
      BY <2>1, <2>3, <2>4, Zenon DEF Answer
    <3> QED  BY <1>7, <2>2, <2>3, <3>1, Zenon
  <2>5. CASE pc = "delete"
    <3>1. pc # "lookup"
      BY <2>5
    <3>2. answer' = <<"removed", cur.key, contents[cur.key]>>
      BY <2>1, <2>3, <3>1, Zenon DEF Answer
    <3>3. Drops(cur.key)
      BY <2>2, <2>3, Zenon DEF Drops, Kept
    <3> QED  BY <1>6, <2>2, <3>2, <3>3, Zenon
  <2> QED  BY <2>1, <2>4, <2>5, Zenon
<1>15. CASE UNCHANGED vars
  <2>1. /\ tab' = tab /\ pc' = pc /\ cur' = cur /\ pos' = pos /\ work' = work
        /\ fresh' = fresh /\ answer' = answer
    BY <1>15, Zenon DEF vars, probing
  <2>2. Line' = Line /\ Hole' = Hole /\ Turns' = Turns
    BY <2>1, Zenon DEF Line, Hole, Turns
  <2>3. Kept
    BY <2>1, <2>2, Zenon DEF Kept, Held, Has, Full
  <2> QED  BY <1>3, <2>1, <2>3, Zenon
<1> QED  BY <1>8, <1>9, <1>10, <1>11, <1>12, <1>13, <1>14, <1>15, Zenon
            DEF Next, probe

\* An empty table is the empty map.
LEMMA InitMap == Init => Map!Init
<1> SUFFICES ASSUME Init PROVE Map!Init
  OBVIOUS
<1>1. TableInv /\ Reads
  BY InitInv, ContentsRead, Zenon
<1>2. pc = "idle" /\ tab = alloc(MinCap) /\ answer = <<"none">>
  BY Zenon DEF Init
<1>3. \A k, v : Held(k, v) <=> Has(tab, {}, <<>>, 0, k, v)
  <2>1. pc \in {"idle", "lookup", "delete"}
    BY <1>2, Zenon
  <2> QED  BY <1>1, <2>1, AtRest, Zenon
<1>4. Full(tab) = {} /\ Full(<<>>) = {}
  BY <1>2, TableAssumption DEF alloc, Full
<1>5. \A k, v : ~Held(k, v)
  BY <1>3, <1>4, Zenon DEF Has
<1>6. contents = [k \in Keys |-> Absent]
  <2>1. /\ contents = [k \in Keys |-> contents[k]]
        /\ \A k \in Keys : contents[k] = Absent
    BY <1>1, <1>5, Zenon DEF Reads
  <2> QED  BY <2>1
<1> QED  BY <1>2, <1>6, Zenon DEF Map!Init

\* For any keys, hashes and values, any minimum capacity and any limit on a
\* chain: whatever insert robs, delete shifts back, and grow, shrink and an
\* overflowing chain reinsert, the table answers as a map does, and the map
\* changes only where an insert or a delete takes effect.
THEOREM MapImplemented == Spec => ImplementsMap
<1>1. Init => Map!Init
  BY InitMap
<1>2. TableInv /\ [Next]_vars => [Map!Next]_<<contents, answer>>
  BY RefinesMap, Zenon DEF MapStep
<1> QED  BY <1>1, <1>2, TableInvariant, PTL DEF Spec, ImplementsMap, Map!Spec
=============================================================================
