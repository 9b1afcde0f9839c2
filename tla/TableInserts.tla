--------------------------- MODULE TableInserts ----------------------------
(***************************************************************************)
(* The inductive invariant of Table, and that the steps of insert, resize  *)
(* and set keep it, for any keys, hashes and values, any minimum capacity  *)
(* and any bound on the length of a chain. First what a step does to the   *)
(* slots of any table and to the entries in it and in line for it.         *)
(***************************************************************************)
EXTENDS Table, FiniteSetTheorems, TLAPS

\* home, next and dist, for a table of n slots.
start(n, hash) == (hash % n) + 1
after(n, i) == IF i = n THEN 1 ELSE i + 1
gap(n, h, i) == IF i >= h THEN i - h ELSE i - h + n

\* What is looked for, what is stored and what a slot holds, with the hashes
\* that f gives the keys.
Sought(f) == {e \in [dib: Nat, frag: Nat, key: Keys, val: Vals \cup {Absent},
                     hash: Nat] :
                e.hash = f[e.key] /\ e.frag = fragOf(e.hash)}
Known(f) == {e \in Sought(f) : e.val \in Vals}
Slot(f) == Known(f) \cup {Empty}

\* e, which has come n slots far from its home, has passed no slot that is empty
\* or that it should have robbed.
Way(t, e, n) ==
  \A j \in 1..Len(t) :
    gap(Len(t), start(Len(t), e.hash), j) < n =>
      t[j].dib >= gap(Len(t), start(Len(t), e.hash), j)

\* e is as far from its home as its dib says, and has got there by its way.
Arrived(t, e, i) ==
  /\ e.dib = gap(Len(t), start(Len(t), e.hash), i)
  /\ Way(t, e, e.dib)

Placed(t) ==
  \A i \in 1..Len(t) :
    t[i].dib >= 0 => Arrived(t, t[i], i) /\ t[i].dib <= MaxDib

-----------------------------------------------------------------------------
(* Slots and distances. *)

\* A slot is empty when its dib is negative.
LEMMA SlotType ==
  ASSUME NEW f, NEW e \in Slot(f)
  PROVE  /\ e.dib \in Int /\ e.dib >= -1
         /\ e # Empty <=> e.dib >= 0
         /\ e # Empty <=> e \in Known(f)
<1>1. CASE e = Empty
  BY <1>1 DEF Empty, Known, Sought
<1>2. CASE e \in Known(f)
  BY <1>2 DEF Empty, Known, Sought
<1> QED  BY <1>1, <1>2, Zenon DEF Slot

\* A home is a slot, and so is the slot after a slot.
LEMMA Geometry ==
  ASSUME NEW n \in Nat, n >= 2
  PROVE  /\ \A hash \in Nat : start(n, hash) \in 1..n
         /\ \A i \in 1..n : after(n, i) \in 1..n /\ after(n, i) # i
         /\ \A h, i \in 1..n : gap(n, h, i) \in 0..(n - 1)
         /\ \A h, i \in 1..n : gap(n, h, i) < n - 1 =>
              gap(n, h, after(n, i)) = gap(n, h, i) + 1
         /\ \A h, i \in 1..n : gap(n, h, after(n, i)) > 0 =>
              gap(n, h, after(n, i)) = gap(n, h, i) + 1
         /\ \A h, i, j \in 1..n : gap(n, h, i) = gap(n, h, j) => i = j
<1>1. \A hash \in Nat : hash % n \in 0..(n - 1)
  OBVIOUS
<1>2. \A hash \in Nat : start(n, hash) \in 1..n
  BY <1>1 DEF start
<1>3. \A i \in 1..n : after(n, i) \in 1..n /\ after(n, i) # i
  BY DEF after
<1>4. \A h, i \in 1..n : gap(n, h, i) \in 0..(n - 1)
  BY DEF gap
<1>5. \A h, i \in 1..n : gap(n, h, i) < n - 1 =>
        gap(n, h, after(n, i)) = gap(n, h, i) + 1
  BY DEF gap, after
<1>6. \A h, i \in 1..n : gap(n, h, after(n, i)) > 0 =>
        gap(n, h, after(n, i)) = gap(n, h, i) + 1
  BY DEF gap, after
<1>7. \A h, i, j \in 1..n : gap(n, h, i) = gap(n, h, j) => i = j
  BY DEF gap
<1> QED  BY <1>2, <1>3, <1>4, <1>5, <1>6, <1>7, Zenon

\* The way of an entry stays good when no slot on it gets a smaller dib.
LEMMA WayKept ==
  ASSUME NEW t, NEW u, Len(u) = Len(t), Len(t) \in Nat, Len(t) >= 2,
         NEW e, e.hash \in Nat, NEW n \in Int, Way(t, e, n),
         \A j \in 1..Len(t) : t[j].dib \in Int /\ u[j].dib \in Int,
         \A j \in 1..Len(t) :
           gap(Len(t), start(Len(t), e.hash), j) < n =>
             \/ u[j].dib >= t[j].dib
             \/ u[j].dib >= gap(Len(t), start(Len(t), e.hash), j)
  PROVE  Way(u, e, n)
<1> DEFINE h == start(Len(t), e.hash)
<1>1. \A j \in 1..Len(t) : gap(Len(t), h, j) \in Int
  <2>1. h \in 1..Len(t)
    BY Geometry, Zenon
  <2>2. \A j \in 1..Len(t) : gap(Len(t), h, j) \in 0..(Len(t) - 1)
    BY <2>1, Geometry, Zenon
  <2> HIDE DEF h
  <2> QED  BY <2>2
<1>2. ASSUME NEW j \in 1..Len(t), gap(Len(t), h, j) < n
      PROVE  u[j].dib >= gap(Len(t), h, j)
  <2>1. t[j].dib >= gap(Len(t), h, j)
    BY <1>2, Zenon DEF Way
  <2>2. u[j].dib >= t[j].dib \/ u[j].dib >= gap(Len(t), h, j)
    BY <1>2, Zenon
  <2>3. t[j].dib \in Int /\ u[j].dib \in Int /\ gap(Len(t), h, j) \in Int
    BY <1>1, Zenon
  <2> HIDE DEF h
  <2> QED  BY <2>1, <2>2, <2>3
<1> QED  BY <1>2, Zenon DEF Way

\* set stores e in an empty slot, or in that of a resident that it robs.
LEMMA StoreStep ==
  ASSUME NEW f, NEW t \in Seq(Slot(f)), Len(t) >= 2, Placed(t),
         NEW p \in 1..Len(t), NEW e \in Known(f), e.dib <= MaxDib,
         Arrived(t, e, p), t[p].dib <= e.dib
  PROVE  Placed([t EXCEPT ![p] = e])
<1> DEFINE u == [t EXCEPT ![p] = e]
<1>0. e \in Slot(f)
  BY Zenon DEF Slot
<1>1. Len(t) \in Nat /\ u \in Seq(Slot(f)) /\ Len(u) = Len(t)
  BY <1>0
<1>2. \A j \in 1..Len(t) : u[j] = IF j = p THEN e ELSE t[j]
  OBVIOUS
<1>3. \A j \in 1..Len(t) : t[j] \in Slot(f) /\ u[j] \in Slot(f)
  BY <1>1
<1> HIDE DEF u
<1>4. \A j \in 1..Len(t) : t[j].dib \in Int /\ u[j].dib \in Int
  BY <1>3, SlotType, Zenon
<1>5. \A j \in 1..Len(t) : u[j].dib >= t[j].dib
  BY <1>2, <1>4
<1>6. ASSUME NEW i \in 1..Len(u), u[i].dib >= 0
      PROVE  Arrived(u, u[i], i) /\ u[i].dib <= MaxDib
  <2>1. i \in 1..Len(t) /\ u[i].dib \in Int
    BY <1>1, <1>4, Zenon
  <2>2. Arrived(t, u[i], i) /\ u[i].dib <= MaxDib
    BY <1>2, <1>6, <2>1, Zenon DEF Placed
  <2>3. u[i].hash \in Nat
    <3>1. u[i] \in Known(f)
      BY <1>3, <1>6, <2>1, SlotType, Zenon
    <3> QED  BY <3>1 DEF Known, Sought
  <2>4. Way(u, u[i], u[i].dib)
    BY <1>1, <1>4, <1>5, <2>1, <2>2, <2>3, WayKept, Zenon DEF Arrived
  <2> QED  BY <1>1, <2>2, <2>4, Zenon DEF Arrived
<1> QED  BY <1>6, Zenon DEF Placed, u

\* What every proof below needs of the entry in slot i.
LEMMA Resident ==
  ASSUME NEW f, NEW t \in Seq(Slot(f)), Len(t) >= 2, Placed(t),
         NEW i \in 1..Len(t), t[i].dib >= 0
  PROVE  /\ t[i] \in Known(f) /\ t[i].hash \in Nat /\ t[i].dib \in Nat
         /\ start(Len(t), t[i].hash) \in 1..Len(t)
         /\ t[i].dib = gap(Len(t), start(Len(t), t[i].hash), i)
         /\ Way(t, t[i], t[i].dib) /\ t[i].dib <= MaxDib
<1>1. t[i] \in Slot(f) /\ Len(t) \in Nat
  OBVIOUS
<1>2. t[i] \in Known(f)
  BY <1>1, SlotType, Zenon
<1>3. t[i].hash \in Nat /\ t[i].dib \in Nat
  BY <1>2 DEF Known, Sought
<1> QED  BY <1>1, <1>2, <1>3, Geometry, Zenon DEF Placed, Arrived

\* An entry beyond slot p, with p on its way, finds the slot after p taken by
\* one that has come as far.
LEMMA Beyond ==
  ASSUME NEW f, NEW t \in Seq(Slot(f)), Len(t) >= 2, Placed(t),
         NEW i \in 1..Len(t), t[i].dib >= 0, NEW p \in 1..Len(t),
         gap(Len(t), start(Len(t), t[i].hash), p) < t[i].dib
  PROVE  t[after(Len(t), p)].dib
           >= gap(Len(t), start(Len(t), t[i].hash), p) + 1
<1> DEFINE L == Len(t)
           h == start(Len(t), t[i].hash)
           n == after(Len(t), p)
<1>1. /\ t[i].dib \in Nat /\ h \in 1..L /\ t[i].dib = gap(L, h, i)
      /\ Way(t, t[i], t[i].dib)
  BY Resident, Zenon
<1>2. L \in Nat
  OBVIOUS
<1>3. n \in 1..L
  BY <1>2, Geometry, Zenon
<1>4. gap(L, h, i) \in 0..(L - 1) /\ gap(L, h, p) \in 0..(L - 1)
  BY <1>1, <1>2, Geometry, Zenon
<1>5. gap(L, h, p) < gap(L, h, i)
  BY <1>1, Zenon
<1> HIDE DEF L, h
<1>6. gap(L, h, p) < L - 1
  BY <1>2, <1>4, <1>5
<1>7. gap(L, h, n) = gap(L, h, p) + 1
  BY <1>1, <1>2, <1>6, Geometry, ZenonT(60) DEF L
<1> HIDE DEF n
<1>8. CASE gap(L, h, n) < gap(L, h, i)
  BY <1>1, <1>3, <1>7, <1>8, Zenon DEF Way, L, h, n
<1>9. CASE gap(L, h, n) = gap(L, h, i)
  <2>1. n = i
    BY <1>1, <1>2, <1>3, <1>9, Geometry, Zenon DEF L
  <2>2. t[n].dib = gap(L, h, p) + 1
    BY <1>1, <1>7, <1>9, <2>1, Zenon
  <2>3. t[n].dib >= gap(L, h, p) + 1
    BY <2>2, <1>4
  <2> QED  BY <2>3, Zenon DEF L, h, n
<1>10. gap(L, h, n) <= gap(L, h, i)
  BY <1>4, <1>5, <1>7
<1>11. \/ gap(L, h, n) < gap(L, h, i) \/ gap(L, h, n) = gap(L, h, i)
  BY <1>4, <1>7, <1>10
<1> QED  BY <1>8, <1>9, <1>11, Zenon

\* delete pulls the displaced entry after slot p back into it.
LEMMA ShiftStep ==
  ASSUME NEW f, NEW t \in Seq(Slot(f)), Len(t) >= 2, Placed(t),
         NEW p \in 1..Len(t), t[after(Len(t), p)].dib > 0
  PROVE  LET e == [t[after(Len(t), p)] EXCEPT !.dib = @ - 1]
         IN  e \in Known(f) /\ Placed([t EXCEPT ![p] = e])
<1> DEFINE L == Len(t)
           n == after(Len(t), p)
           m == t[n]
           e == [m EXCEPT !.dib = @ - 1]
           u == [t EXCEPT ![p] = e]
           h == start(Len(t), m.hash)
<1>1. L \in Nat
  OBVIOUS
<1>2. n \in 1..L /\ n # p
  BY <1>1, Geometry, Zenon
<1>3. m.dib >= 0 /\ m.dib \in Int
  <2>1. m \in Slot(f)
    BY <1>2
  <2>2. m.dib \in Int
    BY <2>1, SlotType, Zenon
  <2> HIDE DEF m
  <2> QED  BY <2>2 DEF m
<1>4. /\ m \in Known(f) /\ m.hash \in Nat /\ m.dib \in Nat /\ h \in 1..L
      /\ m.dib = gap(L, h, n) /\ Way(t, m, m.dib) /\ m.dib <= MaxDib
  BY <1>2, <1>3, Resident, Zenon
<1>5. e \in Known(f) /\ e.dib = m.dib - 1 /\ e.hash = m.hash
  <2> HIDE DEF n
  <2>1. m.dib > 0
    BY Zenon DEF n
  <2> HIDE DEF m
  <2> QED  BY <1>4, <2>1 DEF Known, Sought
<1>6. gap(L, h, p) = m.dib - 1
  <2>1. gap(L, h, n) > 0
    BY <1>4, Zenon
  <2>2. gap(L, h, n) = gap(L, h, p) + 1
    BY <1>1, <1>4, <2>1, Geometry, Zenon
  <2>3. gap(L, h, p) \in 0..(L - 1)
    BY <1>1, <1>4, Geometry, Zenon
  <2> HIDE DEF n, m, h, L
  <2> QED  BY <1>4, <2>2, <2>3
<1> HIDE DEF e
<1>7. u \in Seq(Slot(f)) /\ Len(u) = L
  <2>1. e \in Slot(f)
    BY <1>5, Zenon DEF Slot
  <2> QED  BY <2>1
<1>8. \A j \in 1..L : u[j] = IF j = p THEN e ELSE t[j]
  OBVIOUS
<1>9. \A j \in 1..L : t[j] \in Slot(f) /\ u[j] \in Slot(f)
  BY <1>7
<1> HIDE DEF u
<1>10. \A j \in 1..L : t[j].dib \in Int /\ u[j].dib \in Int
  BY <1>9, SlotType, Zenon
<1>11. ASSUME NEW i \in 1..L, u[i].dib >= 0
       PROVE  Arrived(u, u[i], i) /\ u[i].dib <= MaxDib
  <2>1. CASE i = p
    <3>1. u[i] = e
      BY <1>8, <2>1, Zenon
    <3>2. Way(t, e, e.dib)
      <4>1. ASSUME NEW j \in 1..L, gap(L, h, j) < e.dib
            PROVE  t[j].dib >= gap(L, h, j)
        <5>1. gap(L, h, j) \in 0..(L - 1)
          BY <1>1, <1>4, Geometry, Zenon
        <5> HIDE DEF m, n, h, L
        <5>2. gap(L, h, j) < m.dib
          BY <1>4, <1>5, <4>1, <5>1
        <5> QED  BY <1>4, <5>2, Zenon DEF Way, h, L
      <4> QED  BY <1>5, <4>1, Zenon DEF Way
    <3>3. \A j \in 1..L : gap(L, h, j) < e.dib => u[j].dib >= t[j].dib
      <4>1. ASSUME NEW j \in 1..L, gap(L, h, j) < e.dib
            PROVE  u[j].dib >= t[j].dib
        <5>1. gap(L, h, p) = e.dib /\ e.dib \in Int
          BY <1>4, <1>5, <1>6
        <5> HIDE DEF m, n, h, L
        <5>2. j # p
          BY <4>1, <5>1
        <5>3. u[j] = t[j] /\ t[j].dib \in Int
          BY <1>8, <1>10, <5>2, Zenon
        <5> QED  BY <5>3
      <4> QED  BY <4>1, Zenon
    <3>4. e.hash \in Nat /\ e.dib \in Int /\ e.dib <= MaxDib
      <4> HIDE DEF m, n, h, L
      <4> QED  BY <1>4, <1>5, TableAssumption
    <3>5. Way(u, e, e.dib)
      BY <1>1, <1>5, <1>7, <1>10, <3>2, <3>3, <3>4, WayKept, Zenon
    <3>6. e.dib = gap(L, h, p)
      BY <1>5, <1>6, Zenon
    <3> QED  BY <1>5, <1>7, <2>1, <3>1, <3>4, <3>5, <3>6, Zenon DEF Arrived
  <2>2. CASE i # p
    <3> DEFINE g == start(L, t[i].hash)
    <3>1. u[i] = t[i] /\ t[i].dib >= 0
      BY <1>8, <1>11, <2>2, Zenon
    <3>2. /\ t[i].hash \in Nat /\ t[i].dib \in Nat /\ g \in 1..L
          /\ t[i].dib = gap(L, g, i) /\ Way(t, t[i], t[i].dib)
          /\ t[i].dib <= MaxDib
      BY <3>1, Resident, Zenon
    <3>3. ASSUME NEW j \in 1..L, gap(L, g, j) < t[i].dib
          PROVE  u[j].dib >= t[j].dib \/ u[j].dib >= gap(L, g, j)
      <4>1. CASE j # p
        <5>1. u[j] = t[j] /\ t[j].dib \in Int
          BY <1>8, <1>10, <4>1, Zenon
        <5> QED  BY <5>1
      <4>2. CASE j = p
        <5>1. m.dib >= gap(L, g, p) + 1
          BY <3>1, <3>3, <4>2, Beyond, Zenon
        <5>2. u[j].dib = m.dib - 1
          BY <1>5, <1>8, <4>2, Zenon
        <5>3. gap(L, g, p) \in 0..(L - 1)
          BY <1>1, <3>2, Geometry, Zenon
        <5> HIDE DEF m, n, g, L
        <5> QED  BY <1>4, <4>2, <5>1, <5>2, <5>3
      <4> QED  BY <4>1, <4>2, Zenon
    <3>4. t[i].dib \in Int
      BY <1>10, Zenon
    <3>5. Way(u, t[i], t[i].dib)
      BY <1>1, <1>7, <1>10, <3>2, <3>3, <3>4, WayKept, Zenon
    <3> QED  BY <1>7, <3>1, <3>2, <3>5, Zenon DEF Arrived
  <2> QED  BY <2>1, <2>2, Zenon
<1>12. Placed(u)
  BY <1>7, <1>11, Zenon DEF Placed
<1> QED  BY <1>5, <1>12, Zenon DEF u, e

\* delete vacates slot p, after which comes an empty slot or an entry at home.
LEMMA VacateStep ==
  ASSUME NEW f, NEW t \in Seq(Slot(f)), Len(t) >= 2, Placed(t),
         NEW p \in 1..Len(t), t[after(Len(t), p)].dib <= 0
  PROVE  Placed([t EXCEPT ![p] = Empty])
<1> DEFINE L == Len(t)
           u == [t EXCEPT ![p] = Empty]
<1>1. L \in Nat /\ u \in Seq(Slot(f)) /\ Len(u) = L
  BY DEF Slot
<1>2. \A j \in 1..L : u[j] = IF j = p THEN Empty ELSE t[j]
  OBVIOUS
<1>3. \A j \in 1..L : t[j] \in Slot(f) /\ u[j] \in Slot(f)
  BY <1>1
<1> HIDE DEF u
<1>4. \A j \in 1..L : t[j].dib \in Int /\ u[j].dib \in Int
  BY <1>3, SlotType, Zenon
<1>5. ASSUME NEW i \in 1..L, u[i].dib >= 0
      PROVE  Arrived(u, u[i], i) /\ u[i].dib <= MaxDib
  <2> DEFINE g == start(L, t[i].hash)
  <2>1. i # p
    BY <1>2, <1>5 DEF Empty
  <2>2. u[i] = t[i] /\ t[i].dib >= 0
    BY <1>2, <1>5, <2>1, Zenon
  <2>3. /\ t[i].hash \in Nat /\ t[i].dib \in Nat /\ g \in 1..L
        /\ t[i].dib = gap(L, g, i) /\ Way(t, t[i], t[i].dib)
        /\ t[i].dib <= MaxDib
    BY <2>2, Resident, Zenon
  <2>4. ASSUME NEW j \in 1..L, gap(L, g, j) < t[i].dib
        PROVE  u[j].dib >= t[j].dib
    <3>1. j # p
      <4>1. gap(L, g, j) \in 0..(L - 1)
        BY <1>1, <2>3, Geometry, Zenon
      <4>2. j = p => t[after(L, p)].dib >= gap(L, g, j) + 1
        BY <2>2, <2>4, Beyond, Zenon
      <4>3. after(L, p) \in 1..L
        BY <1>1, Geometry, Zenon
      <4>4. t[after(L, p)].dib \in Int /\ t[after(L, p)].dib <= 0
        BY <1>4, <4>3, Zenon
      <4> HIDE DEF g, L
      <4> QED  BY <4>1, <4>2, <4>4
    <3>2. u[j] = t[j] /\ t[j].dib \in Int
      BY <1>2, <1>4, <3>1, Zenon
    <3> QED  BY <3>2
  <2>5. t[i].dib \in Int
    BY <1>4, Zenon
  <2>6. Way(u, t[i], t[i].dib)
    BY <1>1, <1>4, <2>3, <2>4, <2>5, WayKept, Zenon
  <2> QED  BY <1>1, <2>2, <2>3, <2>6, Zenon DEF Arrived
<1> QED  BY <1>1, <1>5, Zenon DEF Placed, u

\* set overwrites the value in slot p.
LEMMA OverwriteStep ==
  ASSUME NEW f, NEW t \in Seq(Slot(f)), Len(t) >= 2, Placed(t),
         NEW p \in 1..Len(t), t[p].dib >= 0, NEW v \in Vals
  PROVE  /\ [t[p] EXCEPT !.val = v] \in Known(f)
         /\ [t[p] EXCEPT !.val = v].key = t[p].key
         /\ Placed([t EXCEPT ![p].val = v])
<1> DEFINE e == [t[p] EXCEPT !.val = v]
           u == [t EXCEPT ![p] = e]
<1>1. t[p] \in Known(f)
  BY Resident, Zenon
<1>2. e \in Known(f) /\ e.dib = t[p].dib /\ e.hash = t[p].hash /\ e.key = t[p].key
  BY <1>1 DEF Known, Sought
<1>3. u = [t EXCEPT ![p].val = v]
  BY Zenon
<1>4. Arrived(t, e, p) /\ e.dib <= MaxDib
  BY <1>2, Zenon DEF Placed, Arrived, Way
<1>5. t[p].dib <= e.dib
  BY <1>1, <1>2 DEF Known, Sought
<1> HIDE DEF e
<1>6. Placed(u)
  BY <1>2, <1>4, <1>5, StoreStep, Zenon
<1> QED  BY <1>2, <1>3, <1>6, Zenon DEF e

\* A probe that goes on past slot p: there is an empty slot, so it has not been
\* all round the table.
LEMMA OnStep ==
  ASSUME NEW f, NEW t \in Seq(Slot(f)), Len(t) >= 2,
         NEW p \in 1..Len(t), NEW e, e.hash \in Nat, e.dib \in Nat,
         Arrived(t, e, p), t[p].dib >= e.dib,
         NEW z \in 1..Len(t), t[z] = Empty
  PROVE  /\ gap(Len(t), start(Len(t), e.hash), after(Len(t), p)) = e.dib + 1
         /\ Way(t, e, e.dib + 1)
<1> DEFINE L == Len(t)
           h == start(Len(t), e.hash)
<1>1. L \in Nat /\ t[z].dib = -1
  BY DEF Empty
<1>2. h \in 1..L /\ e.dib = gap(L, h, p) /\ Way(t, e, e.dib)
  BY <1>1, Geometry, Zenon DEF Arrived
<1>3. \A j \in 1..L : gap(L, h, j) \in 0..(L - 1)
  BY <1>1, <1>2, Geometry, Zenon
<1>4. ASSUME NEW j \in 1..L, gap(L, h, j) < e.dib + 1
      PROVE  t[j].dib >= gap(L, h, j)
  <2>1. CASE gap(L, h, j) < e.dib
    BY <1>2, <2>1, Zenon DEF Way
  <2>2. CASE gap(L, h, j) = e.dib
    <3>1. gap(L, h, j) = gap(L, h, p)
      BY <1>2, <2>2, Zenon
    <3>2. j = p
      BY <1>1, <1>2, <3>1, Geometry, Zenon
    <3> QED  BY <2>2, <3>2, Zenon
  <2>3. gap(L, h, j) \in Int
    BY <1>3
  <2> HIDE DEF L, h
  <2>4. gap(L, h, j) < e.dib \/ gap(L, h, j) = e.dib
    BY <1>4, <2>3
  <2> QED  BY <2>1, <2>2, <2>4, Zenon
<1>5. gap(L, h, p) < L - 1
  <2>1. ~(gap(L, h, z) < e.dib + 1)
    <3>1. gap(L, h, z) < e.dib + 1 => t[z].dib >= gap(L, h, z)
      BY <1>4, Zenon
    <3>2. gap(L, h, z) \in 0..(L - 1)
      BY <1>3, Zenon
    <3> HIDE DEF L, h
    <3> QED  BY <1>1, <3>1, <3>2
  <2>2. gap(L, h, p) \in 0..(L - 1) /\ gap(L, h, z) \in 0..(L - 1)
    BY <1>3, Zenon
  <2> HIDE DEF L, h
  <2> QED  BY <1>1, <1>2, <2>1, <2>2
<1>6. gap(L, h, after(L, p)) = gap(L, h, p) + 1
  BY <1>1, <1>2, <1>5, Geometry, ZenonT(60)
<1> QED  BY <1>2, <1>4, <1>6, Zenon DEF Way

\* The Robin Hood exit: a key that has not been met before a slot that it would
\* have taken is nowhere in the table.
LEMMA Missing ==
  ASSUME NEW f, NEW t \in Seq(Slot(f)), Len(t) >= 2, Placed(t),
         NEW p \in 1..Len(t), NEW e \in Sought(f), Arrived(t, e, p),
         t[p].dib < e.dib,
         \A j \in 1..Len(t) :
           gap(Len(t), start(Len(t), e.hash), j) < e.dib => t[j].key # e.key
  PROVE  \A i \in 1..Len(t) : t[i].dib >= 0 => t[i].key # e.key
<1> DEFINE L == Len(t)
           h == start(Len(t), e.hash)
<1> SUFFICES ASSUME NEW i \in 1..L, t[i].dib >= 0, t[i].key = e.key
             PROVE  FALSE
  BY Zenon
<1>1. e.hash = f[e.key] /\ e.hash \in Nat /\ e.dib \in Nat
  BY DEF Sought
<1>2. L \in Nat
  OBVIOUS
<1>3. h \in 1..L /\ e.dib = gap(L, h, p)
  BY <1>1, <1>2, Geometry, Zenon DEF Arrived
<1>4. t[i] \in Known(f) /\ t[i].dib \in Nat
  BY Resident, Zenon
<1>5. t[i].hash = e.hash
  BY <1>1, <1>4, Zenon DEF Known, Sought
<1>6. t[i].dib = gap(L, h, i) /\ Way(t, t[i], t[i].dib)
  BY <1>5, Resident, Zenon
<1>7. ~(gap(L, h, i) < e.dib)
  BY Zenon
<1>8. t[p].dib \in Int
  <2>1. t[p] \in Slot(f)
    OBVIOUS
  <2> QED  BY <2>1, SlotType, Zenon
<1>9. CASE gap(L, h, i) = e.dib
  <2>0. gap(L, h, i) = gap(L, h, p)
    BY <1>3, <1>9, Zenon
  <2>1. i = p
    BY <1>2, <1>3, <2>0, Geometry, Zenon
  <2>2. t[p].dib = e.dib
    BY <1>6, <1>9, <2>1, Zenon
  <2> QED  BY <1>1, <1>8, <2>2
<1>10. CASE e.dib < gap(L, h, i)
  <2>1. t[p].dib >= e.dib
    BY <1>3, <1>5, <1>6, <1>10, Zenon DEF Way
  <2> QED  BY <1>1, <1>8, <2>1
<1>11. gap(L, h, i) \in Int
  BY <1>4, <1>6
<1> HIDE DEF L, h
<1> QED  BY <1>1, <1>7, <1>9, <1>10, <1>11

-----------------------------------------------------------------------------
(* Counting the slots that are taken. *)

Full(s) == {i \in DOMAIN s : s[i] # Empty}
pending(s) == Cardinality(Full(s))

LEMMA FullFinite ==
  ASSUME NEW S, NEW s \in Seq(S)
  PROVE  /\ Full(s) \subseteq 1..Len(s) /\ IsFiniteSet(Full(s))
         /\ pending(s) \in Nat
         /\ pending(s) < Len(s) => \E z \in 1..Len(s) : s[z] = Empty
<1>1. Len(s) \in Nat /\ DOMAIN s = 1..Len(s)
  OBVIOUS
<1>2. IsFiniteSet(1..Len(s)) /\ Cardinality(1..Len(s)) = Len(s)
  <2> DEFINE n == Len(s)
  <2>1. 1 \in Int /\ n \in Int
    BY <1>1
  <2> HIDE DEF n
  <2>2. IsFiniteSet(1..n) /\ Cardinality(1..n) = IF 1 > n THEN 0 ELSE n - 1 + 1
    BY <2>1, FS_Interval, Zenon
  <2>3. n \in Nat
    BY <1>1 DEF n
  <2>4. Cardinality(1..n) = n
    BY <2>2, <2>3
  <2> QED  BY <2>2, <2>4, Zenon DEF n
<1>3. Full(s) \subseteq 1..Len(s)
  BY <1>1, Zenon DEF Full
<1>4. IsFiniteSet(Full(s)) /\ pending(s) \in Nat
  BY <1>2, <1>3, FS_Subset, FS_CardinalityType, Zenon DEF pending
<1>5. ASSUME pending(s) < Len(s), \A z \in 1..Len(s) : s[z] # Empty
      PROVE  FALSE
  <2>1. Full(s) = 1..Len(s)
    BY <1>1, <1>5, Zenon DEF Full
  <2>2. pending(s) = Len(s)
    BY <1>2, <2>1, Zenon DEF pending
  <2> QED  BY <1>1, <1>5, <2>2
<1> QED  BY <1>3, <1>4, <1>5, Zenon

\* Writing a slot.
LEMMA PendingWrite ==
  ASSUME NEW S, NEW s \in Seq(S), NEW p \in 1..Len(s), NEW e
  PROVE  LET u == [s EXCEPT ![p] = e]
         IN  /\ s[p] # Empty /\ e # Empty => pending(u) = pending(s)
             /\ s[p] = Empty /\ e # Empty => pending(u) = pending(s) + 1
             /\ s[p] # Empty /\ e = Empty => pending(u) = pending(s) - 1
<1> DEFINE u == [s EXCEPT ![p] = e]
<1>1. IsFiniteSet(Full(s))
  BY FullFinite, Zenon
<1>2. DOMAIN s = 1..Len(s) /\ DOMAIN u = DOMAIN s
  OBVIOUS
<1>3. \A i \in DOMAIN s : u[i] = IF i = p THEN e ELSE s[i]
  OBVIOUS
<1> HIDE DEF u
<1>4. CASE s[p] # Empty /\ e # Empty
  <2>1. Full(u) = Full(s)
    BY <1>2, <1>3, <1>4, Zenon DEF Full
  <2> QED  BY <1>4, <2>1, Zenon DEF pending, u
<1>5. CASE s[p] = Empty /\ e # Empty
  <2>1. Full(u) = Full(s) \cup {p} /\ p \notin Full(s)
    BY <1>2, <1>3, <1>5, Zenon DEF Full
  <2>2. Cardinality(Full(u)) = Cardinality(Full(s)) + 1
    BY <1>1, <2>1, FS_AddElement, Zenon
  <2> QED  BY <1>5, <2>2, Zenon DEF pending, u
<1>6. CASE s[p] # Empty /\ e = Empty
  <2>1. Full(u) = Full(s) \ {p} /\ p \in Full(s)
    BY <1>2, <1>3, <1>6, Zenon DEF Full
  <2>2. Cardinality(Full(u)) = Cardinality(Full(s)) - 1
    BY <1>1, <2>1, FS_RemoveElement, Zenon
  <2> QED  BY <1>6, <2>2, Zenon DEF pending, u
<1> QED  BY <1>4, <1>5, <1>6, Zenon DEF u

\* Joining two sequences of slots.
LEMMA PendingConcat ==
  ASSUME NEW S, NEW s \in Seq(S), NEW t \in Seq(S)
  PROVE  pending(s \o t) = pending(s) + pending(t)
<1> DEFINE B == {i \in Full(s \o t) : i > Len(s)}
           g == [j \in Full(t) |-> Len(s) + j]
<1>1. Len(s) \in Nat /\ Len(t) \in Nat
  OBVIOUS
<1>2. s \o t \in Seq(S) /\ Len(s \o t) = Len(s) + Len(t)
  OBVIOUS
<1>3. DOMAIN (s \o t) = 1..(Len(s) + Len(t)) /\ DOMAIN s = 1..Len(s)
      /\ DOMAIN t = 1..Len(t)
  OBVIOUS
<1>4. \A i \in 1..(Len(s) + Len(t)) :
        (s \o t)[i] = IF i <= Len(s) THEN s[i] ELSE t[i - Len(s)]
  OBVIOUS
<1>5. IsFiniteSet(Full(s)) /\ IsFiniteSet(Full(t)) /\ IsFiniteSet(Full(s \o t))
  BY <1>2, FullFinite, Zenon
<1>6. Full(s \o t) = Full(s) \cup B /\ Full(s) \cap B = {}
  <2>1. \A i : i \in Full(s) => i \in Full(s \o t) /\ ~(i > Len(s))
    BY <1>1, <1>3, <1>4 DEF Full
  <2>2. \A i : i \in Full(s \o t) /\ ~(i > Len(s)) => i \in Full(s)
    BY <1>1, <1>3, <1>4 DEF Full
  <2> QED  BY <2>1, <2>2, Zenon
<1>7. g \in Bijection(Full(t), B)
  <2>1. \A j \in Full(t) : Len(s) + j \in B
    BY <1>1, <1>3, <1>4 DEF Full
  <2>2. \A i \in B : i - Len(s) \in Full(t) /\ i = Len(s) + (i - Len(s))
    BY <1>1, <1>3, <1>4 DEF Full
  <2>3. \A i, j \in Full(t) : Len(s) + i = Len(s) + j => i = j
    BY <1>1, <1>3 DEF Full
  <2> HIDE DEF B
  <2>4. g \in [Full(t) -> B]
    BY <2>1, Zenon
  <2>5. \A i, j \in Full(t) : g[i] = g[j] => i = j
    BY <2>3, Zenon
  <2>6. \A i \in B : \E j \in Full(t) : g[j] = i
    <3> TAKE i \in B
    <3>1. i - Len(s) \in Full(t) /\ g[i - Len(s)] = i
      BY <2>2, Zenon
    <3> QED  BY <3>1, Zenon
  <2> QED  BY <2>4, <2>5, <2>6, Zenon
    DEF Bijection, Injection, Surjection, IsInjective
<1>8. IsFiniteSet(B) /\ Cardinality(B) = pending(t)
  BY <1>5, <1>7, FS_Bijection, Zenon DEF ExistsBijection, pending
<1> HIDE DEF B
<1>9. Cardinality(Full(s) \cup B)
        = Cardinality(Full(s)) + Cardinality(B) - Cardinality(Full(s) \cap B)
  BY <1>5, <1>8, FS_Union, Zenon
<1>10. Cardinality(Full(s)) \in Nat /\ Cardinality(B) \in Nat
  BY <1>5, <1>8, FS_CardinalityType, Zenon
<1>11. Cardinality(Full(s) \cap B) = 0
  BY <1>6, FS_EmptySet, Zenon
<1>12. pending(s \o t) = Cardinality(Full(s)) + Cardinality(B) - 0
  BY <1>6, <1>9, <1>11, Zenon DEF pending
<1>13. pending(s \o t) = Cardinality(Full(s)) + Cardinality(B)
  BY <1>10, <1>12
<1> QED  BY <1>8, <1>13, Zenon DEF pending

\* One slot, no slot, and the slots of a new table.
LEMMA PendingFew ==
  /\ pending(<<>>) = 0
  /\ \A e : pending(<<e>>) = IF e = Empty THEN 0 ELSE 1
  /\ \A n \in Nat : pending(alloc(n)) = 0
<1>1. Full(<<>>) = {}
  BY DEF Full
<1>2. \A e : Full(<<e>>) = IF e = Empty THEN {} ELSE {1}
  BY DEF Full
<1>3. \A n \in Nat : Full(alloc(n)) = {}
  BY DEF Full, alloc
<1> QED  BY <1>1, <1>2, <1>3, FS_EmptySet, FS_Singleton, Zenon DEF pending

-----------------------------------------------------------------------------
(* Capacities. *)

\* isCapacity is the recursive function that its definition says it is: the
\* least set with MinCap that is closed under doubling is one.
LEMMA CapacityDef ==
  \A c \in Nat : isCapacity[c] <=>
    c = MinCap \/ (c > MinCap /\ c % 2 = 0 /\ isCapacity[c \div 2])
<1> DEFINE closed(S) == MinCap \in S /\ \A c \in S : 2 * c \in S
           D == {c \in Nat : \A S \in SUBSET Nat : closed(S) => c \in S}
           g == [c \in Nat |-> c \in D]
           R(c, d) == c = MinCap \/ (c > MinCap /\ c % 2 = 0 /\ d \in D)
           C == {c \in Nat : R(c, c \div 2)}
<1>1. MinCap \in Nat /\ MinCap >= 4
  BY TableAssumption, Zenon
<1>2. MinCap \in D /\ \A c \in D : 2 * c \in D
  <2>1. \A c \in D : 2 * c \in Nat
    OBVIOUS
  <2> QED  BY <1>1, <2>1, Zenon
<1>3. \A c \in D : c >= MinCap
  <2> DEFINE S == {c \in Nat : c >= MinCap}
  <2>1. S \in SUBSET Nat
    OBVIOUS
  <2>2. closed(S)
    BY <1>1
  <2> QED  BY <2>1, <2>2, Zenon
<1>4. ASSUME NEW c \in Nat, R(c, c \div 2) PROVE c \in D
  <2>1. CASE c = MinCap
    BY <1>2, <2>1, Zenon
  <2>2. CASE c > MinCap /\ c % 2 = 0 /\ c \div 2 \in D
    <3>1. c = 2 * (c \div 2)
      BY <2>2, SMT
    <3>2. 2 * (c \div 2) \in D
      BY <1>2, <2>2, Zenon
    <3> HIDE DEF D
    <3> QED  BY <3>1, <3>2, Zenon
  <2> QED  BY <1>4, <2>1, <2>2, Zenon
<1>5. closed(C)
  <2>1. MinCap \in C
    BY <1>1, Zenon
  <2>2. ASSUME NEW c \in C PROVE 2 * c \in C
    <3>1. c \in D /\ c \in Nat
      BY <1>4, Zenon
    <3>2. c >= MinCap
      BY <1>3, <3>1, Zenon
    <3> HIDE DEF D
    <3>3. 2 * c \in Nat /\ 2 * c > MinCap /\ (2 * c) % 2 = 0 /\ (2 * c) \div 2 = c
      BY <1>1, <3>1, <3>2
    <3> QED  BY <3>1, <3>3, Zenon
  <2> QED  BY <2>1, <2>2, Zenon
<1>6. ASSUME NEW c \in D PROVE R(c, c \div 2)
  <2>1. C \in SUBSET Nat
    BY Zenon
  <2> QED  BY <1>5, <2>1, Zenon
<1>7. \A c \in Nat : c \in D <=> R(c, c \div 2)
  BY <1>4, <1>6, Zenon
<1>8. \A c \in Nat : c \div 2 \in Nat
  OBVIOUS
<1>9. ASSUME NEW c \in Nat
      PROVE  (c \in D) = (c = MinCap \/ (c > MinCap /\ c % 2 = 0 /\ g[c \div 2]))
  <2>1. g[c \div 2] = (c \div 2 \in D)
    BY <1>8, Zenon
  <2> HIDE DEF D, g
  <2>2. (c \in D) <=> (c = MinCap \/ (c > MinCap /\ c % 2 = 0 /\ g[c \div 2]))
    BY <1>7, <2>1, Zenon
  <2> QED  BY <2>2
<1>10. g = [c \in Nat |->
              c = MinCap \/ (c > MinCap /\ c % 2 = 0 /\ g[c \div 2])]
  <2> HIDE DEF D
  <2> QED  BY <1>9, Zenon
<1> HIDE DEF g
<1>11. isCapacity = [c \in Nat |->
              c = MinCap \/ (c > MinCap /\ c % 2 = 0 /\ isCapacity[c \div 2])]
  BY <1>10, Zenon DEF isCapacity
<1> QED  BY <1>11, Zenon

\* Doubling, and halving a capacity above the least, give a capacity.
LEMMA Capacities ==
  /\ isCapacity[MinCap]
  /\ \A c \in Nat : isCapacity[c] =>
       /\ c >= MinCap /\ c >= 4 /\ isCapacity[2 * c]
       /\ c > MinCap =>
            c \div 2 \in Nat /\ isCapacity[c \div 2] /\ c = 2 * (c \div 2)
<1>1. MinCap \in Nat /\ MinCap >= 4
  BY TableAssumption, Zenon
<1>2. isCapacity[MinCap]
  BY <1>1, CapacityDef, Zenon
<1>3. ASSUME NEW c \in Nat, isCapacity[c]
      PROVE  /\ c >= MinCap /\ c >= 4 /\ isCapacity[2 * c]
             /\ c > MinCap => c \div 2 \in Nat /\ isCapacity[c \div 2]
                              /\ c = 2 * (c \div 2)
  <2>1. c = MinCap \/ (c > MinCap /\ c % 2 = 0 /\ isCapacity[c \div 2])
    BY <1>3, CapacityDef, Zenon
  <2>2. c >= MinCap /\ c >= 4
    BY <1>1, <2>1
  <2>3. 2 * c \in Nat /\ 2 * c > MinCap /\ (2 * c) % 2 = 0 /\ (2 * c) \div 2 = c
    BY <1>1, <2>2
  <2>4. isCapacity[2 * c]
    BY <1>3, <2>3, CapacityDef, Zenon
  <2>5. ASSUME c > MinCap
        PROVE  c \div 2 \in Nat /\ isCapacity[c \div 2] /\ c = 2 * (c \div 2)
    <3>1. c # MinCap
      BY <1>1, <2>5
    <3>2. c % 2 = 0 /\ isCapacity[c \div 2]
      BY <2>1, <3>1, Zenon
    <3>3. c \div 2 \in Nat /\ c = 2 * (c \div 2)
      BY <3>2
    <3> QED  BY <3>2, <3>3, Zenon
  <2> QED  BY <2>2, <2>4, <2>5, Zenon
<1> QED  BY <1>2, <1>3, Zenon

-----------------------------------------------------------------------------
(* Where the entries are: in the slots of t but for those of hole, and among  *)
(* the first n in line.                                                       *)

\* Some place holds key k with value v.
Has(t, hole, line, n, k, v) ==
  \/ \E i \in Full(t) \ hole : t[i].key = k /\ t[i].val = v
  \/ \E j \in Full(line) : j <= n /\ line[j].key = k /\ line[j].val = v

Lacks(t, hole, line, n, k) == \A v : ~ Has(t, hole, line, n, k, v)

\* No two places hold the same key.
Distinct(t, hole, line, n) ==
  /\ \A i, j \in Full(t) \ hole : t[i].key = t[j].key => i = j
  /\ \A i, j \in Full(line) :
       i <= n /\ j <= n /\ line[i].key = line[j].key => i = j
  /\ \A i \in Full(t) \ hole, j \in Full(line) : j <= n => t[i].key # line[j].key

\* A key that is nowhere, in terms of places.
LEMMA LacksPlaces ==
  ASSUME NEW t, NEW hole, NEW line, NEW n, NEW k, Lacks(t, hole, line, n, k)
  PROVE  /\ \A i \in Full(t) \ hole : t[i].key # k
         /\ \A j \in Full(line) : j <= n => line[j].key # k
BY Zenon DEF Lacks, Has

\* A key has one value.
LEMMA OneValue ==
  ASSUME NEW t, NEW hole, NEW line, NEW n, Distinct(t, hole, line, n),
         NEW k, NEW v, NEW w,
         Has(t, hole, line, n, k, v), Has(t, hole, line, n, k, w)
  PROVE  v = w
<1>1. CASE \E i \in Full(t) \ hole : t[i].key = k /\ t[i].val = v
  BY <1>1, Zenon DEF Distinct, Has
<1>2. CASE \E j \in Full(line) : j <= n /\ line[j].key = k /\ line[j].val = v
  BY <1>2, Zenon DEF Distinct, Has
<1> QED  BY <1>1, <1>2, Zenon DEF Has

\* A change of the line that keeps the places, the keys and the values, the
\* places up to n at least.
LEMMA LineKept ==
  ASSUME NEW t, NEW hole, NEW line, NEW u, NEW n, Distinct(t, hole, line, n),
         \A j : j \in Full(u) /\ j <= n <=> j \in Full(line) /\ j <= n,
         \A j \in Full(u) :
           j <= n => u[j].key = line[j].key /\ u[j].val = line[j].val
  PROVE  /\ Distinct(t, hole, u, n)
         /\ \A k, v : Has(t, hole, u, n, k, v) <=> Has(t, hole, line, n, k, v)
<1>1. Distinct(t, hole, u, n)
  <2>1. ASSUME NEW i \in Full(u), NEW j \in Full(u),
               i <= n, j <= n, u[i].key = u[j].key
        PROVE  i = j
    <3>1. i \in Full(line) /\ j \in Full(line)
      BY <2>1, Zenon
    <3>2. u[i].key = line[i].key /\ u[j].key = line[j].key
      BY <2>1, Zenon
    <3>3. line[i].key = line[j].key
      BY <2>1, <3>2, Zenon
    <3> QED  BY <2>1, <3>1, <3>3, Zenon DEF Distinct
  <2>2. ASSUME NEW i \in Full(t) \ hole, NEW j \in Full(u), j <= n
        PROVE  t[i].key # u[j].key
    <3>1. j \in Full(line) /\ u[j].key = line[j].key
      BY <2>2, Zenon
    <3>2. t[i].key # line[j].key
      BY <2>2, <3>1, Zenon DEF Distinct
    <3> QED  BY <3>1, <3>2, Zenon
  <2> QED  BY <2>1, <2>2, Zenon DEF Distinct
<1>2. \A k, v : Has(t, hole, u, n, k, v) <=> Has(t, hole, line, n, k, v)
  BY Zenon DEF Has
<1> QED  BY <1>1, <1>2, Zenon

\* What is in line does not matter when nothing of it counts.
LEMMA NoneInLine ==
  ASSUME NEW S, NEW t, NEW hole, NEW line \in Seq(S), NEW u \in Seq(S),
         Distinct(t, hole, line, 0)
  PROVE  /\ Distinct(t, hole, u, 0)
         /\ \A k, v : Has(t, hole, u, 0, k, v) <=> Has(t, hole, line, 0, k, v)
<1>1. \A j : ~(j \in Full(u) /\ j <= 0) /\ ~(j \in Full(line) /\ j <= 0)
  BY DEF Full
<1> QED  BY <1>1, LineKept, Zenon

\* delete gives up the slot p.
LEMMA RemoveSlot ==
  ASSUME NEW t, NEW hole, NEW line, NEW n, Distinct(t, hole, line, n),
         NEW p \in Full(t) \ hole
  PROVE  /\ Distinct(t, hole \cup {p}, line, n)
         /\ Lacks(t, hole \cup {p}, line, n, t[p].key)
         /\ \A k, v : Has(t, hole, line, n, k, v) <=>
              \/ k = t[p].key /\ v = t[p].val
              \/ Has(t, hole \cup {p}, line, n, k, v)
<1>1. Distinct(t, hole \cup {p}, line, n)
  BY Zenon DEF Distinct
<1>2. Lacks(t, hole \cup {p}, line, n, t[p].key)
  BY Zenon DEF Distinct, Lacks, Has
<1>3. \A k, v : Has(t, hole, line, n, k, v) <=>
        \/ k = t[p].key /\ v = t[p].val
        \/ Has(t, hole \cup {p}, line, n, k, v)
  BY Zenon DEF Has
<1> QED  BY <1>1, <1>2, <1>3, Zenon

\* An entry comes to a slot p that is empty or given up.
LEMMA FillSlot ==
  ASSUME NEW S, NEW t \in Seq(S), NEW hole, NEW line, NEW n,
         NEW p \in 1..Len(t), p \notin Full(t) \ hole,
         Distinct(t, hole, line, n),
         NEW e, e # Empty, Lacks(t, hole, line, n, e.key)
  PROVE  LET u == [t EXCEPT ![p] = e]
         IN  /\ Distinct(u, hole \ {p}, line, n)
             /\ \A k, v : Has(u, hole \ {p}, line, n, k, v) <=>
                  (k = e.key /\ v = e.val) \/ Has(t, hole, line, n, k, v)
<1> DEFINE u == [t EXCEPT ![p] = e]
           F == Full(t) \ hole
           G == Full(u) \ (hole \ {p})
<1>1. DOMAIN t = 1..Len(t) /\ DOMAIN u = 1..Len(t)
  OBVIOUS
<1>2. \A i \in 1..Len(t) : u[i] = IF i = p THEN e ELSE t[i]
  OBVIOUS
<1>3. G = F \cup {p}
  <2> HIDE DEF u
  <2> QED  BY <1>1, <1>2, Zenon DEF Full
<1>4. u[p] = e /\ \A i \in F : i # p /\ u[i] = t[i]
  <2> HIDE DEF u
  <2> QED  BY <1>1, <1>2, Zenon DEF Full
<1>5. /\ \A i \in F : t[i].key # e.key
      /\ \A j \in Full(line) : j <= n => line[j].key # e.key
  BY LacksPlaces, Zenon
<1> HIDE DEF u
<1>6. Distinct(u, hole \ {p}, line, n)
  <2>1. \A i, j \in G : u[i].key = u[j].key => i = j
    BY <1>3, <1>4, <1>5, Zenon DEF Distinct
  <2>2. \A i \in G, j \in Full(line) : j <= n => u[i].key # line[j].key
    BY <1>3, <1>4, <1>5, ZenonT(60) DEF Distinct
  <2> QED  BY <2>1, <2>2, Zenon DEF Distinct
<1>7. \A k, v : Has(u, hole \ {p}, line, n, k, v) <=>
        (k = e.key /\ v = e.val) \/ Has(t, hole, line, n, k, v)
  BY <1>3, <1>4, Zenon DEF Has
<1> QED  BY <1>6, <1>7, Zenon DEF u

\* The slot that was given up is emptied.
LEMMA EmptySlot ==
  ASSUME NEW S, NEW t \in Seq(S), NEW p \in 1..Len(t), NEW line, NEW n,
         Distinct(t, {p}, line, n)
  PROVE  LET u == [t EXCEPT ![p] = Empty]
         IN  /\ Distinct(u, {}, line, n)
             /\ \A k, v : Has(u, {}, line, n, k, v) <=> Has(t, {p}, line, n, k, v)
<1> DEFINE u == [t EXCEPT ![p] = Empty]
<1>1. DOMAIN t = 1..Len(t) /\ DOMAIN u = 1..Len(t)
  OBVIOUS
<1>2. \A i \in 1..Len(t) : u[i] = IF i = p THEN Empty ELSE t[i]
  OBVIOUS
<1> HIDE DEF u
<1>3. Full(u) \ {} = Full(t) \ {p}
  BY <1>1, <1>2, Zenon DEF Full
<1>4. \A i \in Full(t) \ {p} : u[i] = t[i]
  BY <1>1, <1>2, Zenon DEF Full
<1>5. Distinct(u, {}, line, n)
  BY <1>3, <1>4, Zenon DEF Distinct
<1>6. \A k, v : Has(u, {}, line, n, k, v) <=> Has(t, {p}, line, n, k, v)
  BY <1>3, <1>4, Zenon DEF Has
<1> QED  BY <1>5, <1>6, Zenon DEF u

\* The places of a line with e at its head.
LEMMA HeadPlaces ==
  ASSUME NEW S, NEW w \in Seq(S), NEW e, NEW n \in Nat
  PROVE  LET s == <<e>> \o w
         IN  /\ 1 \in Full(s) <=> e # Empty
             /\ s[1] = e /\ 1 <= n + 1
             /\ \A j \in Full(w) : /\ j + 1 \in Full(s) /\ s[j + 1] = w[j]
                                   /\ j + 1 <= n + 1 <=> j <= n
                                   /\ j + 1 # 1
             /\ \A j \in Full(s) :
                  \/ j = 1
                  \/ /\ j - 1 \in Full(w) /\ s[j] = w[j - 1]
                     /\ j - 1 <= n <=> j <= n + 1
             /\ \A i, j \in Full(s) : i - 1 = j - 1 => i = j
             /\ \A i, j \in Full(w) : i + 1 = j + 1 => i = j
<1> DEFINE s == <<e>> \o w
<1>1. /\ Len(w) \in Nat /\ DOMAIN w = 1..Len(w) /\ DOMAIN s = 1..(Len(w) + 1)
      /\ s[1] = e /\ 1 <= n + 1
  OBVIOUS
<1>2. \A j \in 1..Len(w) : s[j + 1] = w[j]
  OBVIOUS
<1>3. \A j \in 1..(Len(w) + 1) : j = 1 \/ (j - 1 \in 1..Len(w) /\ s[j] = w[j - 1])
  OBVIOUS
<1> HIDE DEF s
<1>4. 1 \in Full(s) <=> e # Empty
  BY <1>1 DEF Full
<1>5. \A j \in 1..Len(w) : /\ j + 1 \in 1..(Len(w) + 1) /\ j + 1 # 1
                           /\ j + 1 <= n + 1 <=> j <= n
  BY <1>1
<1>6. \A j \in 1..(Len(w) + 1) : j - 1 <= n <=> j <= n + 1
  BY <1>1
<1>7. /\ \A i, j \in 1..(Len(w) + 1) : i - 1 = j - 1 => i = j
      /\ \A i, j \in 1..Len(w) : i + 1 = j + 1 => i = j
  BY <1>1
<1>8. /\ \A j \in Full(w) : j \in 1..Len(w) /\ w[j] # Empty
      /\ \A j \in Full(s) : j \in 1..(Len(w) + 1) /\ s[j] # Empty
      /\ \A j \in 1..Len(w) : w[j] # Empty => j \in Full(w)
      /\ \A j \in 1..(Len(w) + 1) : s[j] # Empty => j \in Full(s)
  BY <1>1, Zenon DEF Full
<1>9. \A j \in Full(w) : /\ j + 1 \in Full(s) /\ s[j + 1] = w[j]
                         /\ j + 1 <= n + 1 <=> j <= n
                         /\ j + 1 # 1
  BY <1>2, <1>5, <1>8, Zenon
<1>10. \A j \in Full(s) : \/ j = 1
                          \/ /\ j - 1 \in Full(w) /\ s[j] = w[j - 1]
                             /\ j - 1 <= n <=> j <= n + 1
  BY <1>3, <1>6, <1>8, Zenon
<1>11. /\ \A i, j \in Full(s) : i - 1 = j - 1 => i = j
       /\ \A i, j \in Full(w) : i + 1 = j + 1 => i = j
  BY <1>7, <1>8, Zenon
<1> QED  BY <1>1, <1>4, <1>9, <1>10, <1>11, Zenon DEF s

\* The entries of a line with e at its head are e and those of the rest.
LEMMA HeadHas ==
  ASSUME NEW S, NEW w \in Seq(S), NEW e, NEW n \in Nat, NEW t, NEW hole,
         NEW k, NEW v
  PROVE  Has(t, hole, <<e>> \o w, n + 1, k, v) <=>
           \/ e # Empty /\ k = e.key /\ v = e.val
           \/ Has(t, hole, w, n, k, v)
<1> DEFINE s == <<e>> \o w
<1>1. /\ 1 \in Full(s) <=> e # Empty
      /\ s[1] = e /\ 1 <= n + 1
  BY HeadPlaces, Zenon
<1>2. \A j \in Full(w) : /\ j + 1 \in Full(s) /\ s[j + 1] = w[j]
                         /\ j + 1 <= n + 1 <=> j <= n
                         /\ j + 1 # 1
  BY HeadPlaces, Zenon
<1>3. \A j \in Full(s) : \/ j = 1
                         \/ /\ j - 1 \in Full(w) /\ s[j] = w[j - 1]
                            /\ j - 1 <= n <=> j <= n + 1
  BY HeadPlaces, Zenon
<1> HIDE DEF s
<1>4. ASSUME NEW j \in Full(s), j <= n + 1, s[j].key = k, s[j].val = v
      PROVE  (e # Empty /\ k = e.key /\ v = e.val) \/ Has(t, hole, w, n, k, v)
  <2>1. CASE j = 1
    BY <1>1, <1>4, <2>1, Zenon
  <2>2. CASE j # 1
    BY <1>3, <1>4, <2>2, Zenon DEF Has
  <2> QED  BY <2>1, <2>2, Zenon
<1>5. ASSUME NEW j \in Full(w), j <= n, w[j].key = k, w[j].val = v
      PROVE  Has(t, hole, s, n + 1, k, v)
  BY <1>2, <1>5, Zenon DEF Has
<1>6. ASSUME e # Empty, k = e.key, v = e.val
      PROVE  Has(t, hole, s, n + 1, k, v)
  BY <1>1, <1>6, Zenon DEF Has
<1>7. ASSUME NEW i \in Full(t) \ hole, t[i].key = k, t[i].val = v
      PROVE  Has(t, hole, w, n, k, v) /\ Has(t, hole, s, n + 1, k, v)
  BY <1>7, Zenon DEF Has
<1>8. Has(t, hole, s, n + 1, k, v) =>
        (e # Empty /\ k = e.key /\ v = e.val) \/ Has(t, hole, w, n, k, v)
  <2> SUFFICES ASSUME Has(t, hole, s, n + 1, k, v)
      PROVE (e # Empty /\ k = e.key /\ v = e.val) \/ Has(t, hole, w, n, k, v)
    BY Zenon
  <2>1. \/ \E i \in Full(t) \ hole : t[i].key = k /\ t[i].val = v
        \/ \E j \in Full(s) : j <= n + 1 /\ s[j].key = k /\ s[j].val = v
    BY Zenon DEF Has
  <2> QED  BY <1>4, <1>7, <2>1, Zenon
<1>9. Has(t, hole, w, n, k, v) => Has(t, hole, s, n + 1, k, v)
  <2> SUFFICES ASSUME Has(t, hole, w, n, k, v)
               PROVE  Has(t, hole, s, n + 1, k, v)
    BY Zenon
  <2>1. \/ \E i \in Full(t) \ hole : t[i].key = k /\ t[i].val = v
        \/ \E j \in Full(w) : j <= n /\ w[j].key = k /\ w[j].val = v
    BY Zenon DEF Has
  <2> QED  BY <1>5, <1>7, <2>1, Zenon
<1> QED  BY <1>6, <1>8, <1>9, Zenon DEF s

\* The head of the line changes, but not its key and its value.
LEMMA HeadKept ==
  ASSUME NEW S, NEW w \in Seq(S), NEW e, NEW c, e # Empty, c # Empty,
         c.key = e.key, c.val = e.val,
         NEW t, NEW hole, NEW n, Distinct(t, hole, <<e>> \o w, n)
  PROVE  /\ Distinct(t, hole, <<c>> \o w, n)
         /\ \A k, v : Has(t, hole, <<c>> \o w, n, k, v) <=>
              Has(t, hole, <<e>> \o w, n, k, v)
<1> DEFINE L == Len(w) + 1
<1>1. /\ DOMAIN (<<e>> \o w) = 1..L /\ DOMAIN (<<c>> \o w) = 1..L
      /\ \A j \in 1..L : j = 1 \/ (<<e>> \o w)[j] = (<<c>> \o w)[j]
      /\ (<<e>> \o w)[1] = e /\ (<<c>> \o w)[1] = c
  OBVIOUS
<1>2. /\ \A j : j \in Full(<<c>> \o w) <=> j \in Full(<<e>> \o w)
      /\ \A j \in Full(<<c>> \o w) : /\ (<<c>> \o w)[j].key = (<<e>> \o w)[j].key
                                     /\ (<<c>> \o w)[j].val = (<<e>> \o w)[j].val
  BY <1>1, Zenon DEF Full
<1> QED  BY <1>2, LineKept, Zenon

\* set takes the head of the line.
LEMMA PopLine ==
  ASSUME NEW S, NEW w \in Seq(S), NEW e, NEW n \in Nat, NEW t, NEW hole,
         Distinct(t, hole, <<e>> \o w, n + 1)
  PROVE  /\ Distinct(t, hole, w, n)
         /\ e # Empty => Lacks(t, hole, w, n, e.key)
<1> DEFINE s == <<e>> \o w
<1>1. /\ 1 \in Full(s) <=> e # Empty
      /\ s[1] = e /\ 1 <= n + 1
      /\ \A i, j \in Full(w) : i + 1 = j + 1 => i = j
  BY HeadPlaces, Zenon
<1>2. \A j \in Full(w) : /\ j + 1 \in Full(s) /\ s[j + 1] = w[j]
                         /\ j + 1 <= n + 1 <=> j <= n
                         /\ j + 1 # 1
  BY HeadPlaces, Zenon
<1>3. /\ \A i, j \in Full(t) \ hole : t[i].key = t[j].key => i = j
      /\ \A i, j \in Full(s) :
           i <= n + 1 /\ j <= n + 1 /\ s[i].key = s[j].key => i = j
      /\ \A i \in Full(t) \ hole, j \in Full(s) : j <= n + 1 => t[i].key # s[j].key
  BY Zenon DEF Distinct
<1> HIDE DEF s
<1>4. ASSUME NEW i \in Full(w), NEW j \in Full(w),
             i <= n, j <= n, w[i].key = w[j].key
      PROVE  i = j
  <2>1. s[i + 1].key = s[j + 1].key
    BY <1>2, <1>4, Zenon
  <2>2. i + 1 = j + 1
    BY <1>2, <1>3, <1>4, <2>1, Zenon
  <2> QED  BY <1>1, <2>2, Zenon
<1>5. ASSUME NEW i \in Full(t) \ hole, NEW j \in Full(w), j <= n
      PROVE  t[i].key # w[j].key
  <2>1. t[i].key # s[j + 1].key
    BY <1>2, <1>3, <1>5, Zenon
  <2> QED  BY <1>2, <2>1, Zenon
<1>6. Distinct(t, hole, w, n)
  BY <1>3, <1>4, <1>5, Zenon DEF Distinct
<1>7. ASSUME e # Empty, NEW v PROVE ~ Has(t, hole, w, n, e.key, v)
  <2>1. \A i \in Full(t) \ hole : t[i].key # e.key
    BY <1>1, <1>3, <1>7, Zenon
  <2>2. \A j \in Full(w) : j <= n => w[j].key # e.key
    <3> SUFFICES ASSUME NEW j \in Full(w), j <= n, w[j].key = e.key
                 PROVE  FALSE
      BY Zenon
    <3>1. s[j + 1].key = s[1].key
      BY <1>1, <1>2, Zenon
    <3> QED  BY <1>1, <1>2, <1>3, <1>7, <3>1, Zenon
  <2> QED  BY <2>1, <2>2, Zenon DEF Has
<1> QED  BY <1>6, <1>7, Zenon DEF Lacks

\* An entry comes to the head of the line.
LEMMA PushLine ==
  ASSUME NEW S, NEW w \in Seq(S), NEW e, NEW n \in Nat, NEW t, NEW hole,
         Distinct(t, hole, w, n), Lacks(t, hole, w, n, e.key)
  PROVE  Distinct(t, hole, <<e>> \o w, n + 1)
<1> DEFINE s == <<e>> \o w
<1>1. s[1] = e /\ \A i, j \in Full(s) : i - 1 = j - 1 => i = j
  BY HeadPlaces, Zenon
<1>2. \A j \in Full(s) : \/ j = 1
                         \/ /\ j - 1 \in Full(w) /\ s[j] = w[j - 1]
                            /\ j - 1 <= n <=> j <= n + 1
  BY HeadPlaces, Zenon
<1>3. /\ \A i, j \in Full(t) \ hole : t[i].key = t[j].key => i = j
      /\ \A i, j \in Full(w) :
           i <= n /\ j <= n /\ w[i].key = w[j].key => i = j
      /\ \A i \in Full(t) \ hole, j \in Full(w) : j <= n => t[i].key # w[j].key
  BY Zenon DEF Distinct
<1>4. /\ \A i \in Full(t) \ hole : t[i].key # e.key
      /\ \A j \in Full(w) : j <= n => w[j].key # e.key
  BY LacksPlaces, Zenon
<1> HIDE DEF s
<1>5. ASSUME NEW j \in Full(s), j <= n + 1, s[j].key = e.key PROVE j = 1
  BY <1>2, <1>4, <1>5, Zenon
<1>6. ASSUME NEW i \in Full(s), NEW j \in Full(s),
             i <= n + 1, j <= n + 1, s[i].key = s[j].key
      PROVE  i = j
  <2>1. CASE i = 1 \/ j = 1
    <3>1. s[i].key = e.key /\ s[j].key = e.key
      BY <1>1, <1>6, <2>1, Zenon
    <3> QED  BY <1>5, <1>6, <3>1, Zenon
  <2>2. CASE i # 1 /\ j # 1
    <3>1. /\ i - 1 \in Full(w) /\ i - 1 <= n /\ s[i] = w[i - 1]
          /\ j - 1 \in Full(w) /\ j - 1 <= n /\ s[j] = w[j - 1]
      BY <1>2, <1>6, <2>2, Zenon
    <3>2. w[i - 1].key = w[j - 1].key
      BY <1>6, <3>1, Zenon
    <3>3. i - 1 = j - 1
      BY <1>3, <3>1, <3>2, Zenon
    <3> QED  BY <1>1, <3>3, Zenon
  <2> QED  BY <2>1, <2>2, Zenon
<1>7. ASSUME NEW i \in Full(t) \ hole, NEW j \in Full(s), j <= n + 1
      PROVE  t[i].key # s[j].key
  <2>1. CASE j = 1
    BY <1>1, <1>4, <2>1, Zenon
  <2>2. CASE j # 1
    <3>1. j - 1 \in Full(w) /\ j - 1 <= n /\ s[j] = w[j - 1]
      BY <1>2, <1>7, <2>2, Zenon
    <3>2. t[i].key # w[j - 1].key
      BY <1>3, <3>1, Zenon
    <3> QED  BY <3>1, <3>2, Zenon
  <2> QED  BY <2>1, <2>2, Zenon
<1>8. Distinct(t, hole, s, n + 1)
  BY <1>3, <1>6, <1>7, Zenon DEF Distinct
<1> QED  BY <1>8, Zenon DEF s

\* resize puts all slots in line, ahead of what is there.
LEMMA ResizeLine ==
  ASSUME NEW S, NEW t \in Seq(S), NEW w \in Seq(S), NEW n \in Nat, NEW c \in Nat,
         Distinct(t, {}, w, n)
  PROVE  /\ Distinct(alloc(c), {}, t \o w, Len(t) + n)
         /\ \A k, v : Has(alloc(c), {}, t \o w, Len(t) + n, k, v) <=>
              Has(t, {}, w, n, k, v)
<1> DEFINE s == t \o w
           L == Len(t)
<1>1. /\ L \in Nat /\ Len(w) \in Nat /\ DOMAIN t = 1..L /\ DOMAIN w = 1..Len(w)
      /\ DOMAIN s = 1..(L + Len(w))
  OBVIOUS
<1>2. /\ \A i \in 1..L : s[i] = t[i]
      /\ \A j \in 1..Len(w) : s[j + L] = w[j]
  OBVIOUS
<1>3. \A i \in 1..(L + Len(w)) :
        i \in 1..L \/ (i \notin 1..L /\ i - L \in 1..Len(w) /\ s[i] = w[i - L])
  OBVIOUS
<1>4. Full(alloc(c)) = {}
  BY DEF Full, alloc
<1>5. \A i \in Full(t) \ {} : i \in 1..L /\ t[i] # Empty
  BY <1>1, Zenon DEF Full
<1>6. \A j \in Full(w) : j \in 1..Len(w) /\ w[j] # Empty
  BY <1>1, Zenon DEF Full
<1>7. \A i \in Full(s) : i \in 1..(L + Len(w)) /\ s[i] # Empty
  BY <1>1, Zenon DEF Full
<1>8. /\ \A i \in 1..L : t[i] # Empty => i \in Full(t) \ {}
      /\ \A j \in 1..Len(w) : w[j] # Empty => j \in Full(w)
      /\ \A i \in 1..(L + Len(w)) : s[i] # Empty => i \in Full(s)
  BY <1>1, Zenon DEF Full
<1> HIDE DEF s, L
<1>9. /\ \A i \in 1..L : i \in 1..(L + Len(w)) /\ i <= L + n
      /\ \A j \in 1..Len(w) : /\ j + L \in 1..(L + Len(w))
                              /\ j <= n <=> j + L <= L + n
      /\ \A i \in 1..(L + Len(w)) : i <= L + n <=> i - L <= n
      /\ \A i, j \in 1..(L + Len(w)) : i - L = j - L => i = j
  BY <1>1
<1>10. \A i \in Full(t) \ {} : i \in Full(s) /\ s[i] = t[i] /\ i <= L + n
  BY <1>2, <1>5, <1>8, <1>9, Zenon
<1>11. ASSUME NEW j \in Full(w)
       PROVE  j + L \in Full(s) /\ s[j + L] = w[j] /\ (j <= n <=> j + L <= L + n)
  BY <1>2, <1>6, <1>8, <1>9, Zenon
<1>12. ASSUME NEW i \in Full(s)
       PROVE  \/ i \in Full(t) \ {} /\ s[i] = t[i]
              \/ i - L \in Full(w) /\ s[i] = w[i - L] /\ (i <= L + n <=> i - L <= n)
  <2>1. i \in 1..(L + Len(w)) /\ s[i] # Empty
    BY <1>7, Zenon
  <2>2. CASE i \in 1..L
    BY <1>2, <1>8, <2>1, <2>2, Zenon
  <2>3. CASE i \notin 1..L
    BY <1>3, <1>8, <1>9, <2>1, <2>3, Zenon
  <2> QED  BY <2>2, <2>3, Zenon
<1>13. /\ \A i, j \in Full(t) \ {} : t[i].key = t[j].key => i = j
       /\ \A i, j \in Full(w) :
            i <= n /\ j <= n /\ w[i].key = w[j].key => i = j
       /\ \A i \in Full(t) \ {}, j \in Full(w) : j <= n => t[i].key # w[j].key
  BY Zenon DEF Distinct
<1>14. ASSUME NEW i \in Full(s), NEW j \in Full(s),
              i <= L + n, j <= L + n, s[i].key = s[j].key
       PROVE  i = j
  <2>1. CASE i \in Full(t) \ {} /\ s[i] = t[i] /\ j \in Full(t) \ {} /\ s[j] = t[j]
    BY <1>13, <1>14, <2>1, Zenon
  <2>2. CASE /\ i \in Full(t) \ {} /\ s[i] = t[i]
             /\ j - L \in Full(w) /\ s[j] = w[j - L] /\ j - L <= n
    <3>1. t[i].key # w[j - L].key
      BY <1>13, <2>2, Zenon
    <3> QED  BY <1>14, <2>2, <3>1, Zenon
  <2>3. CASE /\ j \in Full(t) \ {} /\ s[j] = t[j]
             /\ i - L \in Full(w) /\ s[i] = w[i - L] /\ i - L <= n
    <3>1. t[j].key # w[i - L].key
      BY <1>13, <2>3, Zenon
    <3> QED  BY <1>14, <2>3, <3>1, Zenon
  <2>4. CASE /\ i - L \in Full(w) /\ s[i] = w[i - L] /\ i - L <= n
             /\ j - L \in Full(w) /\ s[j] = w[j - L] /\ j - L <= n
    <3>1. w[i - L].key = w[j - L].key
      BY <1>14, <2>4, Zenon
    <3>2. i - L = j - L
      BY <1>13, <2>4, <3>1, Zenon
    <3> QED  BY <1>7, <1>9, <3>2, Zenon
  <2> QED  BY <1>12, <1>14, <2>1, <2>2, <2>3, <2>4, Zenon
<1>15. Distinct(alloc(c), {}, s, L + n)
  BY <1>4, <1>14, Zenon DEF Distinct
<1>16. ASSUME NEW k, NEW v, Has(t, {}, w, n, k, v)
       PROVE  Has(alloc(c), {}, s, L + n, k, v)
  <2>1. CASE \E i \in Full(t) \ {} : t[i].key = k /\ t[i].val = v
    BY <1>10, <2>1, Zenon DEF Has
  <2>2. CASE \E j \in Full(w) : j <= n /\ w[j].key = k /\ w[j].val = v
    BY <1>11, <2>2, Zenon DEF Has
  <2> QED  BY <1>16, <2>1, <2>2, Zenon DEF Has
<1>17. ASSUME NEW k, NEW v, Has(alloc(c), {}, s, L + n, k, v)
       PROVE  Has(t, {}, w, n, k, v)
  <2>1. PICK i \in Full(s) : i <= L + n /\ s[i].key = k /\ s[i].val = v
    BY <1>4, <1>17, Zenon DEF Has
  <2> QED  BY <1>12, <2>1, Zenon DEF Has
<1> QED  BY <1>15, <1>16, <1>17, Zenon DEF s, L

-----------------------------------------------------------------------------
(* A probe goes on. *)

\* The key of e is in no slot that e has passed.
Passing(t, e) ==
  \A j \in 1..Len(t) :
    gap(Len(t), start(Len(t), e.hash), j) < e.dib => t[j].key # e.key

\* e passes slot p, which holds another key.
LEMMA AdvanceStep ==
  ASSUME NEW f, NEW t \in Seq(Slot(f)), Len(t) >= 2,
         NEW p \in 1..Len(t), NEW e \in Sought(f), Arrived(t, e, p),
         t[p].dib >= e.dib, NEW z \in 1..Len(t), t[z] = Empty
  PROVE  LET c == [e EXCEPT !.dib = @ + 1]
         IN  /\ c \in Sought(f) /\ c.key = e.key /\ c.val = e.val
             /\ Arrived(t, c, after(Len(t), p))
             /\ Passing(t, e) /\ t[p].key # e.key => Passing(t, c)
<1> DEFINE c == [e EXCEPT !.dib = @ + 1]
           L == Len(t)
           h == start(Len(t), e.hash)
<1>1. e.hash \in Nat /\ e.dib \in Nat
  BY DEF Sought
<1>2. /\ c \in Sought(f) /\ c.key = e.key /\ c.val = e.val /\ c.hash = e.hash
      /\ c.dib = e.dib + 1
  BY DEF Sought
<1>3. gap(L, h, after(L, p)) = e.dib + 1 /\ Way(t, e, e.dib + 1)
  BY <1>1, OnStep, Zenon
<1> HIDE DEF c
<1>4. Way(t, c, c.dib)
  BY <1>2, <1>3, Zenon DEF Way
<1>5. Arrived(t, c, after(L, p))
  BY <1>2, <1>3, <1>4, Zenon DEF Arrived
<1>6. ASSUME Passing(t, e), t[p].key # e.key,
             NEW j \in 1..L, gap(L, h, j) < e.dib + 1
      PROVE  t[j].key # e.key
  <2>0. L \in Nat
    OBVIOUS
  <2>1. h \in 1..L
    BY <1>1, <2>0, Geometry, Zenon
  <2>2. e.dib = gap(L, h, p)
    BY Zenon DEF Arrived
  <2>3. gap(L, h, j) \in 0..(L - 1)
    BY <2>0, <2>1, Geometry, Zenon
  <2> HIDE DEF L, h
  <2>4. gap(L, h, j) < e.dib \/ gap(L, h, j) = e.dib
    BY <1>1, <1>6, <2>0, <2>3
  <2>5. CASE gap(L, h, j) < e.dib
    BY <1>6, <2>5, Zenon DEF Passing, L, h
  <2>6. CASE gap(L, h, j) = e.dib
    <3>1. gap(L, h, j) = gap(L, h, p)
      BY <2>2, <2>6, Zenon
    <3>2. j = p
      BY <2>0, <2>1, <3>1, Geometry, Zenon DEF L
    <3> QED  BY <1>6, <3>2, Zenon
  <2> QED  BY <2>4, <2>5, <2>6, Zenon
<1>7. Passing(t, e) /\ t[p].key # e.key => Passing(t, c)
  BY <1>2, <1>6, Zenon DEF Passing
<1> QED  BY <1>2, <1>5, <1>7, Zenon DEF c

\* e takes the slot p of a resident nearer to its home, which goes on from p.
LEMMA RobStep ==
  ASSUME NEW f, NEW t \in Seq(Slot(f)), Len(t) >= 2, Placed(t),
         NEW p \in 1..Len(t), NEW e \in Known(f), e.dib <= MaxDib,
         Arrived(t, e, p), t[p] # Empty, t[p].dib < e.dib,
         NEW z \in 1..Len(t), t[z] = Empty
  PROVE  LET m == t[p]
             c == [m EXCEPT !.dib = @ + 1, !.frag = fragOf(m.hash)]
             u == [t EXCEPT ![p] = e]
         IN  /\ c \in Known(f) /\ c.key = m.key /\ c.val = m.val
             /\ Arrived(u, c, after(Len(t), p))
<1> DEFINE m == t[p]
           c == [m EXCEPT !.dib = @ + 1, !.frag = fragOf(m.hash)]
           u == [t EXCEPT ![p] = e]
           L == Len(t)
<1>1. /\ m \in Known(f) /\ m \in Sought(f) /\ m.hash \in Nat /\ m.dib \in Nat
      /\ e.dib \in Nat
  <2>1. m \in Slot(f)
    OBVIOUS
  <2>2. m \in Known(f)
    BY <2>1, SlotType, Zenon
  <2> QED  BY <2>2 DEF Known, Sought
<1>2. Arrived(t, m, p)
  <2>1. m.dib >= 0
    BY <1>1
  <2> QED  BY <2>1, Zenon DEF Placed
<1>3. /\ c \in Known(f) /\ c.key = m.key /\ c.val = m.val /\ c.hash = m.hash
      /\ c.dib = m.dib + 1
  <2>1. c = [m EXCEPT !.dib = @ + 1]
    BY <1>1 DEF Known, Sought
  <2> DEFINE R == [dib: Nat, frag: Nat, key: Keys, val: Vals \cup {Absent}, hash: Nat]
  <2> HIDE DEF m, c
  <2>2. m \in R /\ m.hash = f[m.key] /\ m.frag = fragOf(m.hash) /\ m.val \in Vals
    BY <1>1, Zenon DEF Known, Sought
  <2>3. /\ c \in R /\ c.key = m.key /\ c.val = m.val /\ c.hash = m.hash
        /\ c.dib = m.dib + 1 /\ c.frag = m.frag
    BY <2>1, <2>2, SMTT(60)
  <2> HIDE DEF R
  <2>4. c.hash = f[c.key] /\ c.frag = fragOf(c.hash) /\ c.val \in Vals
    BY <2>2, <2>3, Zenon
  <2>5. c \in Known(f)
    BY <2>3, <2>4, Zenon DEF Known, Sought, R
  <2> QED  BY <2>3, <2>5, Zenon
<1>4. e \in Slot(f)
  BY Zenon DEF Slot
<1>5. u \in Seq(Slot(f)) /\ Len(u) = L /\ L \in Nat /\ p \in 1..Len(u)
  BY <1>4
<1>6. \A j \in 1..L : u[j] = IF j = p THEN e ELSE t[j]
  OBVIOUS
<1>7. \A j \in 1..L : t[j].dib \in Int /\ u[j].dib \in Int
  <2>1. \A j \in 1..L : t[j] \in Slot(f)
    OBVIOUS
  <2> HIDE DEF u
  <2> QED  BY <1>4, <1>6, <2>1, SlotType, Zenon
<1> HIDE DEF u, c
<1>8. \A j \in 1..L : u[j].dib >= t[j].dib
  BY <1>6, <1>7
<1>9. Arrived(u, m, p)
  <2>1. Way(u, m, m.dib)
    <3>1. Way(t, m, m.dib) /\ m.dib \in Int
      BY <1>1, <1>2 DEF Arrived
    <3> HIDE DEF m
    <3> QED  BY <1>1, <1>5, <1>7, <1>8, <3>1, WayKept, Zenon
  <2> QED  BY <1>2, <1>5, <2>1, Zenon DEF Arrived
<1>10. u[p].dib >= m.dib /\ u[z] = Empty /\ z \in 1..Len(u)
  BY <1>1, <1>5, <1>6
<1>11. /\ gap(Len(u), start(Len(u), m.hash), after(Len(u), p)) = m.dib + 1
       /\ Way(u, m, m.dib + 1)
  <2>1. Len(u) >= 2
    BY <1>5, Zenon
  <2> HIDE DEF m
  <2> QED  BY <1>1, <1>5, <1>9, <1>10, <2>1, OnStep, Zenon
<1>12. Arrived(u, c, after(L, p))
  <2>1. Way(u, c, c.dib)
    BY <1>3, <1>11, Zenon DEF Way
  <2> QED  BY <1>3, <1>5, <1>11, <2>1, Zenon DEF Arrived
<1> QED  BY <1>3, <1>12, Zenon DEF u, c

-----------------------------------------------------------------------------
(* The inductive invariant. *)

\* How many of the line are entries of the map: all but the caller's.
Turns == IF fresh THEN Len(Line) - 1 ELSE Len(Line)

Typed ==
  /\ hashOf \in [Keys -> Nat]
  /\ tab \in Seq(Slot(hashOf)) /\ isCapacity[Len(tab)]
  /\ work \in Seq(Slot(hashOf))
  /\ swapped \in BOOLEAN /\ fresh \in BOOLEAN
  /\ pos \in 1..Len(tab)
  /\ pc \in {"idle", "set", "probe", "lookup", "delete", "shift"}

Counted ==
  /\ count = pending(tab)
  /\ count + Waiting <= growAt(Len(tab))

Probing ==
  pc \in {"probe", "lookup", "delete"} =>
    /\ cur \in Sought(hashOf) /\ (pc = "probe" => cur.val \in Vals)
    /\ Arrived(tab, cur, pos)
    /\ ~swapped => Passing(tab, cur)

\* What goes with the label.
Phase ==
  /\ pc = "shift" => tab[pos] # Empty
  /\ pc \notin {"set", "probe"} => work = <<>> /\ ~fresh
  /\ swapped => pc = "probe" /\ ~Callers
  /\ pc \in {"lookup", "delete"} => answer = <<"none">>
  /\ fresh => answer = <<"none">> /\ Line # <<>> /\ Line[Len(Line)] # Empty

TableInv ==
  /\ Typed /\ Counted /\ Placed(tab) /\ Probing /\ Phase
  /\ Distinct(tab, Hole, Line, Turns)

\* The map holds v under k.
Held(k, v) == Has(tab, Hole, Line, Turns, k, v)

\* The step leaves the map as it is.
Kept == \A k, v : Held(k, v)' <=> Held(k, v)

\* The step stores v under k.
Puts(k, v) ==
  \A j, x : Held(j, x)' <=> IF j = k THEN x = v ELSE Held(j, x)

\* Line for label p, carried entry c and work w.
line(p, c, w) == (IF p = "probe" THEN <<c>> ELSE <<>>) \o w

LEMMA LineValue ==
  ASSUME NEW S, NEW w \in Seq(S), NEW c, NEW p
  PROVE  /\ p # "probe" => line(p, c, w) = w
         /\ p = "probe" => /\ line(p, c, w) = <<c>> \o w
                           /\ Len(line(p, c, w)) = Len(w) + 1
                           /\ c \in S => line(p, c, w) \in Seq(S)
<1>1. <<>> \o w = w /\ Len(<<c>> \o w) = Len(w) + 1
  OBVIOUS
<1>2. c \in S => <<c>> \o w \in Seq(S)
  OBVIOUS
<1> QED  BY <1>1, <1>2, Zenon DEF line

LEMMA LastOfLine ==
  ASSUME NEW S, NEW t \in Seq(S), NEW w \in Seq(S), w # <<>>
  PROVE  t \o w # <<>> /\ (t \o w)[Len(t \o w)] = w[Len(w)]
OBVIOUS

\* The load limit is below the capacity, and grows with it.
LEMMA Limits ==
  ASSUME NEW n \in Nat, n >= 4
  PROVE  /\ growAt(n) \in Nat /\ growAt(n) < n /\ growAt(n) + 1 <= growAt(2 * n)
         /\ 2 * n \in Nat
BY DEF growAt

\* What the invariant says of a state, in terms of its parts.
LEMMA Parts ==
  ASSUME TableInv
  PROVE  /\ Len(tab) \in Nat /\ Len(tab) >= 4 /\ Len(tab) >= 2
         /\ Len(work) \in Nat /\ pending(tab) \in Nat /\ pending(work) \in Nat
         /\ Waiting = pending(work) + (IF pc = "probe" THEN 1 ELSE 0)
         /\ \E z \in 1..Len(tab) : tab[z] = Empty
         /\ \A h : home(h) = start(Len(tab), h)
         /\ \A i : next(i) = after(Len(tab), i)
<1>1. Len(tab) \in Nat /\ Len(work) \in Nat
  BY DEF TableInv, Typed
<1>2. Len(tab) >= 4 /\ Len(tab) >= 2
  <2>1. Len(tab) >= 4
    BY <1>1, Capacities, Zenon DEF TableInv, Typed
  <2> QED  BY <1>1, <2>1
<1>3. pending(tab) \in Nat /\ pending(work) \in Nat
  BY FullFinite, Zenon DEF TableInv, Typed
<1>4. Waiting = pending(work) + (IF pc = "probe" THEN 1 ELSE 0)
  BY Zenon DEF Waiting, pending, Full
<1>5. pending(tab) < Len(tab)
  <2>1. pending(tab) + Waiting <= growAt(Len(tab))
    BY Zenon DEF TableInv, Counted
  <2>2. growAt(Len(tab)) \in Nat /\ growAt(Len(tab)) < Len(tab)
    BY <1>1, <1>2, Limits, Zenon
  <2> QED  BY <1>1, <1>3, <1>4, <2>1, <2>2
<1>6. \E z \in 1..Len(tab) : tab[z] = Empty
  BY <1>5, FullFinite, Zenon DEF TableInv, Typed
<1>7. /\ \A h : home(h) = start(Len(tab), h)
      /\ \A i : next(i) = after(Len(tab), i)
  BY Zenon DEF home, start, next, after
<1> QED  BY <1>1, <1>2, <1>3, <1>4, <1>6, <1>7, Zenon

LEMMA LineParts ==
  ASSUME TableInv
  PROVE  /\ pc # "probe" => Line = work
         /\ pc = "probe" => /\ Line = <<cur>> \o work /\ Len(Line) = Len(work) + 1
                            /\ cur \in Known(hashOf) /\ cur # Empty
         /\ Line \in Seq(Slot(hashOf)) /\ Len(Line) \in Nat
         /\ Turns \in Nat
         /\ ~fresh => Turns = Len(Line)
         /\ fresh => Turns = Len(Line) - 1
<1>1. Line = line(pc, cur, work)
  BY Zenon DEF Line, line
<1>2. work \in Seq(Slot(hashOf)) /\ fresh \in BOOLEAN
  BY Zenon DEF TableInv, Typed
<1>3. pc = "probe" => cur \in Known(hashOf) /\ cur \in Slot(hashOf)
  BY Zenon DEF TableInv, Probing, Known, Slot
<1>4. pc = "probe" => cur # Empty
  BY <1>3, SlotType, Zenon
<1>5. pc # "probe" => Line = work
  BY <1>1, <1>2, LineValue, Zenon
<1>6. pc = "probe" => /\ Line = <<cur>> \o work /\ Len(Line) = Len(work) + 1
                      /\ Line \in Seq(Slot(hashOf))
  BY <1>1, <1>2, <1>3, LineValue, Zenon
<1>7. Line \in Seq(Slot(hashOf))
  BY <1>2, <1>5, <1>6, Zenon
<1>8. Len(Line) \in Nat
  BY <1>7
<1>9. fresh => Line # <<>>
  BY Zenon DEF TableInv, Phase
<1>10. fresh => Len(Line) >= 1
  BY <1>7, <1>9
<1>11. /\ ~fresh => Turns = Len(Line)
       /\ fresh => Turns = Len(Line) - 1
  BY <1>2, Zenon DEF Turns
<1>12. Turns \in Nat
  BY <1>2, <1>8, <1>10, <1>11
<1> QED  BY <1>3, <1>4, <1>5, <1>6, <1>7, <1>8, <1>11, <1>12, Zenon

\* An entry at the start of its probe.
LEMMA EntryType ==
  ASSUME NEW f \in [Keys -> Nat]
  PROVE  \A k \in Keys, v \in Vals \cup {Absent} :
           /\ Entry(f[k], k, v) \in Sought(f)
           /\ v \in Vals => Entry(f[k], k, v) \in Known(f)
           /\ Entry(f[k], k, v).dib = 0 /\ Entry(f[k], k, v).hash = f[k]
           /\ Entry(f[k], k, v).key = k /\ Entry(f[k], k, v).val = v
           /\ Entry(f[k], k, v) # Empty
<1> TAKE k \in Keys, v \in Vals \cup {Absent}
<1> DEFINE e == Entry(f[k], k, v)
<1>1. f[k] \in Nat
  OBVIOUS
<1>2. fragOf(f[k]) \in Nat
  BY <1>1, TableAssumption DEF fragOf
<1>3. /\ e.dib = 0 /\ e.hash = f[k] /\ e.key = k /\ e.val = v
      /\ e.frag = fragOf(f[k])
  BY DEF Entry
<1>4. e \in [dib: Nat, frag: Nat, key: Keys, val: Vals \cup {Absent}, hash: Nat]
  BY <1>1, <1>2 DEF Entry
<1> HIDE DEF e
<1>5. e \in Sought(f)
  BY <1>3, <1>4, Zenon DEF Sought
<1>6. e # Empty
  <2>1. Empty.dib = -1
    BY DEF Empty
  <2> QED  BY <1>3, <2>1
<1> QED  BY <1>3, <1>5, <1>6, Zenon DEF Known, e

LEMMA HomeStep ==
  ASSUME NEW f, NEW t \in Seq(Slot(f)), Len(t) >= 2, NEW e \in Sought(f), e.dib = 0
  PROVE  /\ start(Len(t), e.hash) \in 1..Len(t)
         /\ Arrived(t, e, start(Len(t), e.hash)) /\ Passing(t, e)
<1> DEFINE L == Len(t)
           h == start(Len(t), e.hash)
<1>1. L \in Nat /\ e.hash \in Nat
  BY DEF Sought
<1>2. h \in 1..L
  BY <1>1, Geometry, Zenon
<1>3. \A j \in 1..L : gap(L, h, j) \in 0..(L - 1)
  BY <1>1, <1>2, Geometry, Zenon
<1> HIDE DEF L, h
<1>4. gap(L, h, h) = 0
  BY <1>1, <1>2 DEF gap
<1>5. \A j \in 1..L : ~(gap(L, h, j) < 0)
  BY <1>1, <1>3
<1>6. Way(t, e, 0)
  BY <1>5, Zenon DEF Way, L, h
<1>7. Passing(t, e)
  BY <1>5, Zenon DEF Passing, L, h
<1> QED  BY <1>2, <1>4, <1>6, <1>7, Zenon DEF Arrived, L, h

\* The empty table.
LEMMA AllocStep ==
  ASSUME NEW f, NEW n \in Nat, n >= 4
  PROVE  /\ alloc(n) \in Seq(Slot(f)) /\ Len(alloc(n)) = n
         /\ Placed(alloc(n)) /\ 1 \in 1..n
<1>1. alloc(n) \in Seq(Slot(f)) /\ Len(alloc(n)) = n /\ 1 \in 1..n
  BY DEF alloc, Slot
<1>2. \A i \in 1..n : alloc(n)[i].dib = -1
  BY DEF alloc, Empty
<1>3. ~(-1 >= 0)
  OBVIOUS
<1> QED  BY <1>1, <1>2, <1>3, Zenon DEF Placed

\* A step that leaves the probe has nothing to show of it.
LEMMA Quiet ==
  ASSUME pc' \notin {"probe", "lookup", "delete"}
  PROVE  Probing'
BY Zenon DEF Probing

-----------------------------------------------------------------------------
(* Every step keeps the invariant, and what it does to the map.             *)

\* A step to label l, n of the entries in line being entries of the map.
LEMMA LeaveInv ==
  ASSUME hashOf \in [Keys -> Nat], hashOf' = hashOf,
         tab' \in Seq(Slot(hashOf)), isCapacity[Len(tab')], Placed(tab'),
         work' \in Seq(Slot(hashOf)),
         count' = pending(tab'), count' + pending(work') <= growAt(Len(tab')),
         NEW l \in {"idle", "set"}, l = "idle" => work' = <<>> /\ ~fresh',
         Leave(l) \/ (pc' = l /\ pos' \in 1..Len(tab') /\ swapped' = FALSE),
         fresh' \in BOOLEAN,
         fresh' => /\ answer' = <<"none">>
                   /\ work' # <<>> /\ work'[Len(work')] # Empty,
         NEW n, n = IF fresh' THEN Len(work') - 1 ELSE Len(work'),
         Distinct(tab', {}, work', n)
  PROVE  /\ TableInv'
         /\ \A k, v : Held(k, v)' <=> Has(tab', {}, work', n, k, v)
<1>1. pc' = l /\ (pos' = 1 \/ pos' \in 1..Len(tab')) /\ swapped' = FALSE
  BY Zenon DEF Leave
<1>2. /\ pc' \notin {"probe", "lookup", "delete", "shift"} /\ pc' # "probe"
      /\ pc' \in {"idle", "set"}
  BY <1>1
<1>3. Typed'
  <2>1. Len(tab') \in Nat
    OBVIOUS
  <2>2. Len(tab') >= 4
    BY <2>1, Capacities, Zenon
  <2>3. pos' \in 1..Len(tab')
    BY <1>1, <2>1, <2>2
  <2>4. pc' \in {"idle", "set", "probe", "lookup", "delete", "shift"}
    BY <1>2, Zenon
  <2> QED  BY <1>1, <2>3, <2>4, Zenon DEF Typed
<1>4. Counted'
  <2>1. Waiting' = pending(work') + 0
    BY <1>2, Zenon DEF Waiting, pending, Full
  <2>2. pending(work') \in Nat /\ pending(tab') \in Nat
    BY FullFinite, Zenon
  <2>3. Waiting' = pending(work')
    BY <2>1, <2>2
  <2> QED  BY <2>3, Zenon DEF Counted, growAt
<1>5. Line' = work'
  <2>1. Line' = line(pc', cur', work')
    BY Zenon DEF Line, line
  <2>2. pc' # "probe" => line(pc', cur', work') = work'
    BY LineValue, Zenon
  <2> QED  BY <1>2, <2>1, <2>2, Zenon
<1>6. Turns' = n
  BY <1>5, Zenon DEF Turns
<1>7. Phase'
  <2>1. pc' \notin {"set", "probe"} => work' = <<>> /\ ~fresh'
    BY <1>1
  <2> QED  BY <1>1, <1>2, <1>5, <2>1, Zenon DEF Phase
<1>8. Hole' = {}
  BY <1>2, Zenon DEF Hole
<1>9. \A k, v : Held(k, v)' <=> Has(tab', {}, work', n, k, v)
  BY <1>5, <1>6, <1>8, Zenon DEF Held
<1>10. Distinct(tab', Hole', Line', Turns')
  BY <1>5, <1>6, <1>8, Zenon
<1>11. Probing'
  BY <1>2, Quiet, Zenon
<1> QED  BY <1>3, <1>4, <1>7, <1>9, <1>10, <1>11, Zenon DEF TableInv

\* resize, called with the slots of old and with w to follow, n of them entries
\* of the map.
LEMMA ResizeInv ==
  ASSUME hashOf \in [Keys -> Nat], hashOf' = hashOf,
         NEW old \in Seq(Slot(hashOf)), NEW w \in Seq(Slot(hashOf)),
         NEW c \in Nat, isCapacity[c], pending(old) + pending(w) <= growAt(c),
         NEW n, n \in Nat, n = IF fresh' THEN Len(w) - 1 ELSE Len(w),
         Distinct(old, {}, w, n),
         resize(old, c, w), Leave("set"), fresh' \in BOOLEAN,
         fresh' => answer' = <<"none">> /\ w # <<>> /\ w[Len(w)] # Empty
  PROVE  /\ TableInv'
         /\ \A k, v : Held(k, v)' <=> Has(old, {}, w, n, k, v)
<1>1. tab' = alloc(c) /\ count' = 0 /\ work' = old \o w
  BY Zenon DEF resize
<1>2. c >= 4
  BY Capacities, Zenon
<1>3. tab' \in Seq(Slot(hashOf)) /\ Len(tab') = c /\ Placed(tab')
  BY <1>1, <1>2, AllocStep, Zenon
<1>4. /\ work' \in Seq(Slot(hashOf)) /\ Len(work') = Len(old) + Len(w)
      /\ Len(old) \in Nat /\ Len(w) \in Nat
  BY <1>1
<1>5. count' = pending(tab') /\ count' + pending(work') <= growAt(Len(tab'))
  <2>1. pending(tab') = 0
    BY <1>1, PendingFew, Zenon
  <2>2. pending(work') = pending(old) + pending(w)
    BY <1>1, PendingConcat, Zenon
  <2>3. pending(old) \in Nat /\ pending(w) \in Nat
    BY FullFinite, Zenon
  <2>4. count' + pending(work') = pending(work')
    BY <1>1, <2>2, <2>3
  <2> QED  BY <1>1, <1>3, <2>1, <2>2, <2>4, Zenon
<1>6. Len(old) + n = IF fresh' THEN Len(work') - 1 ELSE Len(work')
  BY <1>4
<1>7. fresh' => work' # <<>> /\ work'[Len(work')] # Empty
  BY <1>1, LastOfLine, Zenon
<1>8. /\ Distinct(tab', {}, work', Len(old) + n)
      /\ \A k, v : Has(tab', {}, work', Len(old) + n, k, v) <=>
           Has(old, {}, w, n, k, v)
  BY <1>1, ResizeLine, ZenonT(60)
<1>9. isCapacity[Len(tab')]
  BY <1>3, Zenon
<1>10. /\ TableInv'
       /\ \A k, v : Held(k, v)' <=> Has(tab', {}, work', Len(old) + n, k, v)
  <2> DEFINE d == Len(old) + n
  <2> HIDE DEF d
  <2>1. d = IF fresh' THEN Len(work') - 1 ELSE Len(work')
    BY <1>6, Zenon DEF d
  <2>2. Distinct(tab', {}, work', d)
    BY <1>8, Zenon DEF d
  <2>3. "set" \in {"idle", "set"} /\ "set" # "idle"
    OBVIOUS
  <2>4. TableInv' /\ \A k, v : Held(k, v)' <=> Has(tab', {}, work', d, k, v)
    BY <1>3, <1>4, <1>5, <1>7, <1>9, <2>1, <2>2, <2>3, LeaveInv, Zenon
  <2> QED  BY <2>4, Zenon DEF d
<1> QED  BY <1>8, <1>10, Zenon

\* A step that starts or continues a probe.
LEMMA ProbeInv ==
  ASSUME hashOf \in [Keys -> Nat], hashOf' = hashOf,
         tab' \in Seq(Slot(hashOf)), isCapacity[Len(tab')], Placed(tab'),
         work' \in Seq(Slot(hashOf)), pos' \in 1..Len(tab'),
         count' = pending(tab'),
         count' + pending(work') + (IF pc' = "probe" THEN 1 ELSE 0)
           <= growAt(Len(tab')),
         pc' \in {"probe", "lookup", "delete"},
         cur' \in Sought(hashOf), pc' = "probe" => cur'.val \in Vals,
         Arrived(tab', cur', pos'),
         swapped' \in BOOLEAN, ~swapped' => Passing(tab', cur'),
         swapped' => pc' = "probe" /\ ~(fresh' /\ work' = <<>>),
         pc' # "probe" => work' = <<>> /\ ~fresh' /\ answer' = <<"none">>,
         fresh' \in BOOLEAN,
         fresh' => /\ answer' = <<"none">>
                   /\ work' # <<>> => work'[Len(work')] # Empty,
         NEW w, w = line(pc', cur', work'),
         NEW n, n = IF fresh' THEN Len(w) - 1 ELSE Len(w), Distinct(tab', {}, w, n)
  PROVE  /\ TableInv'
         /\ \A k, v : Held(k, v)' <=> Has(tab', {}, w, n, k, v)
<1>1. pc' # "shift" /\ (pc' \notin {"set", "probe"} => pc' # "probe")
  OBVIOUS
<1>2. Typed'
  <2>1. pc' \in {"idle", "set", "probe", "lookup", "delete", "shift"}
    BY Zenon
  <2> QED  BY <2>1, Zenon DEF Typed
<1>3. Counted'
  <2>1. Waiting' = pending(work') + (IF pc' = "probe" THEN 1 ELSE 0)
    BY Zenon DEF Waiting, pending, Full
  <2>2. pending(work') \in Nat /\ pending(tab') \in Nat
    BY FullFinite, Zenon
  <2>3. count' + Waiting' <= growAt(Len(tab'))
    <3> DEFINE d == IF pc' = "probe" THEN 1 ELSE 0
    <3>1. d \in Nat
      OBVIOUS
    <3> HIDE DEF d
    <3>2. count' + pending(work') + d <= growAt(Len(tab'))
      BY Zenon DEF d
    <3>3. count' + Waiting' = count' + pending(work') + d
      <4>1. Waiting' = pending(work') + d
        BY <2>1, Zenon DEF d
      <4> QED  BY <2>2, <3>1, <4>1
    <3> QED  BY <3>2, <3>3, Zenon
  <2> QED  BY <2>3, Zenon DEF Counted, growAt
<1>4. Probing'
  BY Zenon DEF Probing
<1>5. Line' = w /\ Turns' = n
  <2>1. Line' = w
    BY Zenon DEF Line, line
  <2> QED  BY <2>1, Zenon DEF Turns
<1>6. Phase'
  <2>1. ASSUME fresh' PROVE Line' # <<>> /\ Line'[Len(Line')] # Empty
    <3>1. pc' = "probe"
      BY <2>1, Zenon
    <3>2. w = <<cur'>> \o work'
      BY <3>1, LineValue, Zenon
    <3>3. CASE work' = <<>>
      <4>1. cur' # Empty
        <5>1. cur' \in Known(hashOf) /\ cur' \in Slot(hashOf)
          BY <3>1, Zenon DEF Known, Slot
        <5> QED  BY <5>1, SlotType, Zenon
      <4>2. w = <<cur'>> /\ Len(w) = 1
        BY <3>2, <3>3
      <4> QED  BY <1>5, <4>1, <4>2
    <3>4. CASE work' # <<>>
      <4>1. w # <<>> /\ w[Len(w)] = work'[Len(work')]
        BY <3>2, <3>4
      <4> QED  BY <1>5, <2>1, <3>4, <4>1, Zenon
    <3> QED  BY <3>3, <3>4, Zenon
  <2>2. swapped' => pc' = "probe" /\ ~Callers'
    BY Zenon DEF Callers
  <2>3. pc' \in {"lookup", "delete"} => answer' = <<"none">>
    OBVIOUS
  <2>4. pc' \notin {"set", "probe"} => work' = <<>> /\ ~fresh'
    BY <1>1, Zenon
  <2> QED  BY <1>1, <2>1, <2>2, <2>3, <2>4, Zenon DEF Phase
<1>7. Hole' = {}
  BY <1>1, Zenon DEF Hole
<1>8. Distinct(tab', Hole', Line', Turns')
  BY <1>5, <1>7, Zenon
<1>9. \A k, v : Held(k, v)' <=> Has(tab', {}, w, n, k, v)
  BY <1>5, <1>7, Zenon DEF Held
<1> QED  BY <1>2, <1>3, <1>4, <1>6, <1>8, <1>9, Zenon DEF TableInv

\* The table at rest holds the whole map.
LEMMA AtRest ==
  ASSUME TableInv, pc \in {"idle", "lookup", "delete"}
  PROVE  /\ work = <<>> /\ fresh = FALSE /\ swapped = FALSE /\ Waiting = 0
         /\ Distinct(tab, {}, <<>>, 0)
         /\ \A k, v : Held(k, v) <=> Has(tab, {}, <<>>, 0, k, v)
<1>1. pc # "probe" /\ pc # "shift" /\ pc \notin {"set", "probe"}
  OBVIOUS
<1>2. work = <<>> /\ fresh = FALSE /\ swapped = FALSE
  BY <1>1, Zenon DEF TableInv, Phase, Typed
<1>3. Line = <<>> /\ Turns = 0 /\ Hole = {}
  <2>1. Line = <<>> /\ Turns = Len(Line)
    BY <1>1, <1>2, LineParts, Zenon
  <2>2. Turns = 0
    BY <2>1
  <2> QED  BY <1>1, <2>1, <2>2, Zenon DEF Hole
<1>4. Waiting = 0
  <2>1. Waiting = pending(work) + 0
    BY <1>1, Parts, Zenon
  <2>2. pending(work) = 0
    BY <1>2, PendingFew, Zenon
  <2> QED  BY <2>1, <2>2
<1>5. Distinct(tab, {}, <<>>, 0)
  BY <1>3, Zenon DEF TableInv
<1>6. \A k, v : Held(k, v) <=> Has(tab, {}, <<>>, 0, k, v)
  BY <1>3, Zenon DEF Held
<1> QED  BY <1>2, <1>4, <1>5, <1>6, Zenon

LEMMA InsertStep ==
  ASSUME TableInv, NEW k \in Keys, NEW v \in Vals, insert(k, v)
  PROVE  TableInv' /\ Kept
<1> DEFINE e == Entry(hashOf[k], k, v)
           L == Len(tab)
<1>1. /\ pc = "idle" /\ Leave("set") /\ fresh' = TRUE /\ answer' = <<"none">>
      /\ hashOf' = hashOf
  BY Zenon DEF insert
<1>2. /\ hashOf \in [Keys -> Nat] /\ tab \in Seq(Slot(hashOf)) /\ isCapacity[L]
      /\ Placed(tab) /\ count = pending(tab) /\ count + Waiting <= growAt(L)
  BY Zenon DEF TableInv, Typed, Counted
<1>3. /\ Waiting = 0 /\ Distinct(tab, {}, <<>>, 0)
      /\ \A j, x : Held(j, x) <=> Has(tab, {}, <<>>, 0, j, x)
  <2>1. pc \in {"idle", "lookup", "delete"}
    BY <1>1, Zenon
  <2> QED  BY <2>1, AtRest, Zenon
<1>4. e \in Known(hashOf) /\ e \in Slot(hashOf) /\ e # Empty
  <2>1. v \in Vals \cup {Absent}
    BY Zenon
  <2>2. e \in Known(hashOf) /\ e # Empty
    BY <1>2, <2>1, EntryType, ZenonT(60)
  <2> QED  BY <2>2, Zenon DEF Slot
<1>5. L \in Nat /\ L >= 4 /\ pending(tab) \in Nat
  BY Parts, Zenon
<1>6. /\ growAt(L) \in Nat /\ growAt(L) + 1 <= growAt(2 * L) /\ 2 * L \in Nat
      /\ growAt(2 * L) \in Int
  <2>1. growAt(L) \in Nat /\ growAt(L) + 1 <= growAt(2 * L) /\ 2 * L \in Nat
    BY <1>5, Limits, Zenon
  <2> HIDE DEF L
  <2>2. growAt(2 * L) \in Int
    BY <1>5, <2>1 DEF growAt
  <2> QED  BY <2>1, <2>2, Zenon
<1>7. isCapacity[2 * L]
  BY <1>2, <1>5, Capacities, Zenon
<1> HIDE DEF e, L
<1>8. /\ <<e>> \in Seq(Slot(hashOf)) /\ <<>> \in Seq(Slot(hashOf))
      /\ Len(<<e>>) - 1 = 0 /\ <<e>> # <<>> /\ <<e>>[Len(<<e>>)] = e
  BY <1>4
<1>9. pending(<<e>>) = 1
  BY <1>4, PendingFew, Zenon
<1>10. /\ Distinct(tab, {}, <<e>>, 0)
       /\ \A j, x : Has(tab, {}, <<e>>, 0, j, x) <=> Held(j, x)
  <2>1. /\ Distinct(tab, {}, <<e>>, 0)
        /\ \A j, x : Has(tab, {}, <<e>>, 0, j, x) <=> Has(tab, {}, <<>>, 0, j, x)
    BY <1>3, <1>8, NoneInLine, Zenon
  <2> QED  BY <1>3, <2>1, Zenon
<1>11. count + 0 <= growAt(L) /\ count \in Nat
  BY <1>2, <1>3, <1>5, Zenon DEF L
<1>12. 0 = IF fresh' THEN Len(<<e>>) - 1 ELSE Len(<<e>>)
  BY <1>1, <1>8, Zenon
<1>13. 0 \in Nat /\ fresh' \in BOOLEAN
  BY <1>1
<1>14. fresh' => answer' = <<"none">> /\ <<e>> # <<>> /\ <<e>>[Len(<<e>>)] # Empty
  BY <1>1, <1>4, <1>8, Zenon
<1>15. CASE resize(tab, 2 * L, <<e>>)
  <2>1. pending(tab) + pending(<<e>>) <= growAt(2 * L)
    BY <1>2, <1>5, <1>6, <1>9, <1>11
  <2>2. /\ TableInv'
        /\ \A j, x : Held(j, x)' <=> Has(tab, {}, <<e>>, 0, j, x)
    BY <1>1, <1>2, <1>6, <1>7, <1>8, <1>10, <1>12, <1>13, <1>14, <1>15, <2>1,
       ResizeInv, Zenon
  <2> QED  BY <1>10, <2>2, Zenon DEF Kept
<1>16. CASE /\ count < growAt(L) /\ work' = <<e>> /\ tab' = tab /\ count' = count
  <2>1. count' + pending(work') <= growAt(Len(tab'))
    BY <1>6, <1>9, <1>11, <1>16 DEF L
  <2>2. "set" \in {"idle", "set"} /\ "set" # "idle"
    OBVIOUS
  <2>3. /\ TableInv'
        /\ \A j, x : Held(j, x)' <=> Has(tab', {}, work', 0, j, x)
    BY <1>1, <1>2, <1>8, <1>10, <1>12, <1>13, <1>14, <1>16, <2>1, <2>2,
       LeaveInv, Zenon DEF L
  <2> QED  BY <1>10, <1>16, <2>3, Zenon DEF Kept
<1> QED  BY <1>15, <1>16, Zenon DEF insert, e, L

\* The head of a line and the rest.
LEMMA HeadTail ==
  ASSUME NEW S, NEW s \in Seq(S), s # <<>>
  PROVE  /\ s = <<Head(s)>> \o Tail(s) /\ Head(s) \in S /\ Tail(s) \in Seq(S)
         /\ Len(s) = Len(Tail(s)) + 1 /\ Len(Tail(s)) \in Nat
         /\ <<Head(s)>> \in Seq(S)
         /\ Tail(s) # <<>> => Tail(s)[Len(Tail(s))] = s[Len(s)]
         /\ Tail(s) = <<>> => s[Len(s)] = Head(s) /\ Len(Tail(s)) = 0
<1>1. /\ s = <<Head(s)>> \o Tail(s) /\ Head(s) \in S /\ Tail(s) \in Seq(S)
      /\ <<Head(s)>> \in Seq(S)
  OBVIOUS
<1>2. Len(s) = Len(Tail(s)) + 1 /\ Len(Tail(s)) \in Nat
  OBVIOUS
<1>3. Tail(s) # <<>> => Tail(s)[Len(Tail(s))] = s[Len(s)]
  OBVIOUS
<1>4. ASSUME Tail(s) = <<>> PROVE s[Len(s)] = Head(s) /\ Len(Tail(s)) = 0
  <2> DEFINE m == Len(s)
             n == Len(Tail(s))
  <2>0. Len(<<>>) = 0
    OBVIOUS
  <2>1. n = 0
    BY <1>4, <2>0, Zenon
  <2>2. m = 1
    <3>1. m = n + 1
      BY <1>2, Zenon
    <3> HIDE DEF m, n
    <3> QED  BY <2>1, <3>1
  <2>3. Head(s) = s[1]
    OBVIOUS
  <2> QED  BY <2>1, <2>2, <2>3, Zenon
<1> QED  BY <1>1, <1>2, <1>3, <1>4, Zenon

LEMMA SetStep ==
  ASSUME TableInv, set
  PROVE  TableInv' /\ Kept
<1> DEFINE e == Head(work)
           w == Tail(work)
<1>1. /\ pc = "set" /\ work # <<>> /\ work' = w
      /\ tab' = tab /\ count' = count /\ hashOf' = hashOf
      /\ fresh' = fresh /\ answer' = answer
  BY Zenon DEF set
<1>2. /\ hashOf \in [Keys -> Nat] /\ tab \in Seq(Slot(hashOf))
      /\ isCapacity[Len(tab)] /\ work \in Seq(Slot(hashOf)) /\ fresh \in BOOLEAN
      /\ pos \in 1..Len(tab)
      /\ Placed(tab) /\ count = pending(tab) /\ count + Waiting <= growAt(Len(tab))
  BY Zenon DEF TableInv, Typed, Counted
<1>3. /\ work = <<e>> \o w /\ e \in Slot(hashOf) /\ w \in Seq(Slot(hashOf))
      /\ Len(work) = Len(w) + 1 /\ Len(w) \in Nat
      /\ <<e>> \in Seq(Slot(hashOf))
      /\ w # <<>> => w[Len(w)] = work[Len(work)]
      /\ w = <<>> => work[Len(work)] = e /\ Len(w) = 0
  BY <1>1, <1>2, HeadTail, Zenon
<1>4. pc # "probe" /\ pc # "shift"
  BY <1>1
<1>5. /\ Line = work /\ Turns \in Nat
      /\ ~fresh => Turns = Len(Line)
      /\ fresh => Turns = Len(Line) - 1
  BY <1>4, LineParts, Zenon
<1>6. Hole = {}
  BY <1>4, Zenon DEF Hole
<1>7. swapped = FALSE
  BY <1>4, Zenon DEF TableInv, Phase, Typed
<1>8. fresh => answer = <<"none">> /\ work[Len(work)] # Empty
  BY <1>5, Zenon DEF TableInv, Phase
<1> HIDE DEF e, w
<1>9. /\ pending(work) = pending(<<e>>) + pending(w)
      /\ pending(<<e>>) \in Nat /\ pending(w) \in Nat /\ pending(tab) \in Nat
  BY <1>2, <1>3, PendingConcat, FullFinite, Zenon
<1>10. /\ count + pending(work) <= growAt(Len(tab))
  <2>1. Waiting = pending(work) + 0 /\ pending(work) \in Nat
    BY <1>4, Parts, Zenon
  <2>2. Waiting = pending(work)
    BY <2>1
  <2> QED  BY <1>2, <2>2, Zenon
<1>11. Distinct(tab, {}, <<e>> \o w, Turns)
  BY <1>3, <1>5, <1>6, Zenon DEF TableInv
<1>12. \A k, v : Held(k, v) <=> Has(tab, {}, <<e>> \o w, Turns, k, v)
  BY <1>3, <1>5, <1>6, Zenon DEF Held
<1>13. CASE e = Empty /\ UNCHANGED <<pc, cur, pos, swapped>>
  <2> DEFINE n == IF fresh THEN Len(w) - 1 ELSE Len(w)
  <2>1. fresh => w # <<>>
    BY <1>3, <1>8, <1>13, Zenon
  <2>2. n \in Nat /\ Turns = n + 1
    <3>1. w # <<>> => Len(w) >= 1
      BY <1>3
    <3>2. Turns = IF fresh THEN Len(work) - 1 ELSE Len(work)
      BY <1>2, <1>5, Zenon
    <3> QED  BY <1>2, <1>3, <2>1, <3>1, <3>2
  <2> HIDE DEF n
  <2>3. Distinct(tab, {}, <<e>> \o w, n + 1)
    BY <1>11, <2>2, Zenon
  <2>4. Distinct(tab, {}, w, n)
    BY <1>3, <2>2, <2>3, PopLine, Zenon
  <2>5. \A k, v : Held(k, v) <=> Has(tab, {}, w, n, k, v)
    <3> TAKE k, v
    <3>1. Held(k, v) <=> Has(tab, {}, <<e>> \o w, n + 1, k, v)
      BY <1>12, <2>2, Zenon
    <3> QED  BY <1>3, <1>13, <2>2, <3>1, HeadHas, Zenon
  <2>6. count' + pending(work') <= growAt(Len(tab'))
    <3>1. pending(<<e>>) = 0
      BY <1>13, PendingFew, Zenon
    <3>2. pending(work) = pending(w)
      BY <1>9, <3>1
    <3> QED  BY <1>1, <1>10, <3>2, Zenon
  <2>7. "set" \in {"idle", "set"} /\ "set" # "idle"
    OBVIOUS
  <2>8. pc' = "set" /\ pos' \in 1..Len(tab') /\ swapped' = FALSE
    BY <1>1, <1>2, <1>7, <1>13, Zenon
  <2>9. fresh' => answer' = <<"none">> /\ work' # <<>> /\ work'[Len(work')] # Empty
    BY <1>1, <1>3, <1>8, <2>1, Zenon
  <2>10. n = IF fresh' THEN Len(work') - 1 ELSE Len(work')
    BY <1>1, Zenon DEF n
  <2>11. /\ TableInv'
         /\ \A k, v : Held(k, v)' <=> Has(tab', {}, work', n, k, v)
    BY <1>1, <1>2, <1>3, <2>4, <2>6, <2>7, <2>8, <2>9, <2>10, LeaveInv, Zenon
  <2> QED  BY <1>1, <2>5, <2>11, Zenon DEF Kept
<1>14. CASE e # Empty /\ Probe(Entry(e.hash, e.key, e.val), "probe")
  <2> DEFINE c == Entry(e.hash, e.key, e.val)
             s == line(pc', cur', work')
  <2>1. pc' = "probe" /\ cur' = c /\ pos' = home(c.hash) /\ swapped' = FALSE
    BY <1>14, Zenon DEF Probe
  <2>2. e \in Known(hashOf)
    BY <1>3, <1>14, SlotType, Zenon
  <2>3. /\ e.key \in Keys /\ e.val \in Vals /\ e.hash = hashOf[e.key]
        /\ e.val \in Vals \cup {Absent}
    BY <2>2 DEF Known, Sought
  <2>4. /\ c \in Sought(hashOf) /\ c \in Known(hashOf) /\ c.dib = 0
        /\ c.key = e.key /\ c.val = e.val /\ c # Empty
    <3>1. c = Entry(hashOf[e.key], e.key, e.val)
      BY <2>3, Zenon
    <3>2. c.dib = 0 /\ c.key = e.key /\ c.val = e.val
      BY DEF Entry
    <3> HIDE DEF c
    <3>3. Entry(hashOf[e.key], e.key, e.val) \in Known(hashOf)
      BY <1>2, <2>3, EntryType, Zenon
    <3>4. c \in Known(hashOf) /\ c \in Slot(hashOf) /\ c \in Sought(hashOf)
      BY <3>1, <3>3, Zenon DEF Slot, Known
    <3> QED  BY <3>2, <3>4, SlotType, Zenon
  <2> HIDE DEF c
  <2>5. Len(tab) >= 2 /\ pos' = start(Len(tab), c.hash)
    BY <2>1, Parts, Zenon
  <2>6. pos' \in 1..Len(tab) /\ Arrived(tab, c, pos') /\ Passing(tab, c)
    <3>1. /\ start(Len(tab), c.hash) \in 1..Len(tab)
          /\ Arrived(tab, c, start(Len(tab), c.hash)) /\ Passing(tab, c)
      BY <1>2, <2>4, <2>5, HomeStep, Zenon
    <3> QED  BY <2>5, <3>1, Zenon
  <2>7. s = <<c>> \o w /\ Len(s) = Len(work)
    <3>1. work' \in Seq(Slot(hashOf))
      BY <1>1, <1>3, Zenon
    <3>2. pc' = "probe" => /\ line(pc', cur', work') = <<cur'>> \o work'
                           /\ Len(line(pc', cur', work')) = Len(work') + 1
      BY <3>1, LineValue, Zenon
    <3> QED  BY <1>1, <1>3, <2>1, <3>2, Zenon
  <2>8. Turns = IF fresh' THEN Len(s) - 1 ELSE Len(s)
    BY <1>1, <1>2, <1>5, <2>7, Zenon
  <2> HIDE DEF s
  <2>9. /\ Distinct(tab, {}, s, Turns)
        /\ \A k, v : Has(tab, {}, s, Turns, k, v) <=>
             Has(tab, {}, <<e>> \o w, Turns, k, v)
    BY <1>3, <1>11, <1>14, <2>4, <2>7, HeadKept, Zenon
  <2>10. count' + pending(work') + (IF pc' = "probe" THEN 1 ELSE 0)
           <= growAt(Len(tab'))
    <3>1. pending(<<e>>) = 1
      BY <1>14, PendingFew, Zenon
    <3>2. count + pending(w) + 1 = count + pending(work)
      BY <1>2, <1>9, <3>1
    <3> QED  BY <1>1, <1>10, <2>1, <3>2, Zenon
  <2>11. /\ pc' \in {"probe", "lookup", "delete"}
         /\ swapped' \in BOOLEAN /\ ~swapped'
    BY <2>1, Zenon
  <2>12. fresh' => /\ answer' = <<"none">>
                   /\ work' # <<>> => work'[Len(work')] # Empty
    BY <1>1, <1>3, <1>8, Zenon
  <2>13. /\ TableInv'
         /\ \A k, v : Held(k, v)' <=> Has(tab', {}, s, Turns, k, v)
    <3>1. s = line(pc', cur', work')
      BY Zenon DEF s
    <3>2. cur'.val \in Vals /\ cur' \in Sought(hashOf)
      BY <2>1, <2>4, Zenon DEF Known
    <3> QED  BY <1>1, <1>2, <1>3, <2>1, <2>6, <2>8, <2>9, <2>10, <2>11, <2>12,
                <3>1, <3>2, ProbeInv, Zenon
  <2> QED  BY <1>1, <1>12, <2>9, <2>13, Zenon DEF Kept
<1> QED  BY <1>13, <1>14, Zenon DEF set, e

\* A call returns, having changed nothing in its last step.
LEMMA ReturnStep ==
  ASSUME TableInv, pc \in {"set", "lookup", "delete"}, work = <<>>, Leave("idle"),
         UNCHANGED <<tab, count, hashOf, work, fresh>>
  PROVE  TableInv' /\ Kept
<1>1. /\ hashOf \in [Keys -> Nat] /\ tab \in Seq(Slot(hashOf))
      /\ isCapacity[Len(tab)] /\ work \in Seq(Slot(hashOf)) /\ fresh \in BOOLEAN
      /\ Placed(tab) /\ count = pending(tab) /\ count + Waiting <= growAt(Len(tab))
  BY Zenon DEF TableInv, Typed, Counted
<1>2. pc # "probe" /\ pc # "shift"
  OBVIOUS
<1>3. Line = work /\ (~fresh => Turns = Len(Line))
  BY <1>2, LineParts, Zenon
<1>4. ~fresh
  BY <1>3, Zenon DEF TableInv, Phase
<1>5. Hole = {} /\ Turns = Len(work)
  BY <1>2, <1>3, <1>4, Zenon DEF Hole
<1>6. count + pending(work) <= growAt(Len(tab))
  <2>1. Waiting = pending(work) + 0 /\ pending(work) \in Nat
    BY <1>2, Parts, Zenon
  <2>2. Waiting = pending(work)
    BY <2>1
  <2> QED  BY <1>1, <2>2, Zenon
<1>7. Distinct(tab, {}, work, Len(work))
  BY <1>3, <1>5, Zenon DEF TableInv
<1>8. "idle" \in {"idle", "set"}
  OBVIOUS
<1>9. /\ TableInv'
      /\ \A k, v : Held(k, v)' <=> Has(tab', {}, work', Len(work'), k, v)
  BY <1>1, <1>4, <1>6, <1>7, <1>8, LeaveInv, Zenon
<1> QED  BY <1>3, <1>5, <1>9, Zenon DEF Kept, Held

\* How many behind the entry that set carries are entries of the map.
Rest == IF fresh /\ work # <<>> THEN Len(work) - 1 ELSE Len(work)

\* While set carries an entry.
LEMMA Carrying ==
  ASSUME TableInv, pc = "probe"
  PROVE  /\ Hole = {} /\ Rest \in Nat /\ cur \in Known(hashOf) /\ cur # Empty
         /\ cur.key \in Keys /\ cur.val \in Vals /\ cur.dib \in Nat
         /\ Line = <<cur>> \o work
         /\ Callers => Turns = 0 /\ Rest = 0 /\ swapped = FALSE
         /\ ~Callers => Turns = Rest + 1 /\ Lacks(tab, {}, work, Rest, cur.key)
         /\ fresh => answer = <<"none">> /\ (work # <<>> => work[Len(work)] # Empty)
         /\ Distinct(tab, {}, work, Rest)
         /\ \A k, v : Held(k, v) <=>
              \/ ~Callers /\ k = cur.key /\ v = cur.val
              \/ Has(tab, {}, work, Rest, k, v)
<1>1. /\ work \in Seq(Slot(hashOf)) /\ fresh \in BOOLEAN /\ swapped \in BOOLEAN
      /\ tab \in Seq(Slot(hashOf))
  BY Zenon DEF TableInv, Typed
<1>2. Hole = {}
  <2>1. pc # "shift"
    OBVIOUS
  <2> QED  BY <2>1, Zenon DEF Hole
<1>3. /\ Line = <<cur>> \o work /\ Len(Line) = Len(work) + 1
      /\ cur \in Known(hashOf) /\ cur # Empty
      /\ ~fresh => Turns = Len(Line)
      /\ fresh => Turns = Len(Line) - 1
  BY LineParts, Zenon
<1>4. cur.key \in Keys /\ cur.val \in Vals /\ cur.dib \in Nat
  BY <1>3 DEF Known, Sought
<1>5. Len(work) \in Nat /\ (work = <<>> => Len(work) = 0)
  BY <1>1
<1>6. Rest \in Nat
  <2>1. work # <<>> => Len(work) >= 1
    BY <1>1
  <2> QED  BY <1>1, <1>5, <2>1 DEF Rest
<1>7. ASSUME Callers PROVE Turns = 0 /\ Rest = 0 /\ work = <<>>
  BY <1>3, <1>5, <1>7 DEF Callers, Rest
<1>8. ASSUME ~Callers PROVE Turns = Rest + 1
  BY <1>1, <1>3, <1>5, <1>8 DEF Callers, Rest
<1>9. Callers => swapped = FALSE
  BY <1>1, Zenon DEF TableInv, Phase
<1>10. ASSUME fresh, work # <<>>
       PROVE  work[Len(work)] # Empty
  <2>1. Line[Len(Line)] # Empty
    BY <1>10, Zenon DEF TableInv, Phase
  <2>2. <<cur>> \in Seq(Slot(hashOf))
    BY <1>3 DEF Slot
  <2> QED  BY <1>1, <1>3, <1>10, <2>1, <2>2, LastOfLine, Zenon
<1>11. Distinct(tab, {}, <<cur>> \o work, Turns)
  BY <1>2, <1>3, Zenon DEF TableInv
<1>12. \A k, v : Held(k, v) <=> Has(tab, {}, <<cur>> \o work, Turns, k, v)
  BY <1>2, <1>3, Zenon DEF Held
<1>13. CASE Callers
  <2>1. <<cur>> \o work \in Seq(Slot(hashOf))
    BY <1>1, <1>3 DEF Slot
  <2>2. /\ Distinct(tab, {}, work, 0)
        /\ \A k, v : Has(tab, {}, work, 0, k, v) <=>
             Has(tab, {}, <<cur>> \o work, 0, k, v)
    BY <1>1, <1>7, <1>11, <1>13, <2>1, NoneInLine, Zenon
  <2>3. \A k, v : Held(k, v) <=> Has(tab, {}, work, Rest, k, v)
    BY <1>7, <1>12, <1>13, <2>2, Zenon
  <2>4. fresh => answer = <<"none">>
    BY Zenon DEF TableInv, Phase
  <2> QED  BY <1>2, <1>3, <1>4, <1>6, <1>7, <1>9, <1>10, <1>13, <2>2, <2>3, <2>4,
              Zenon
<1>14. CASE ~Callers
  <2>1. Distinct(tab, {}, <<cur>> \o work, Rest + 1)
    BY <1>8, <1>11, <1>14, Zenon
  <2>2. /\ Distinct(tab, {}, work, Rest)
        /\ Lacks(tab, {}, work, Rest, cur.key)
    BY <1>1, <1>3, <1>6, <2>1, PopLine, Zenon
  <2>3. \A k, v : Held(k, v) <=>
          (k = cur.key /\ v = cur.val) \/ Has(tab, {}, work, Rest, k, v)
    <3> TAKE k, v
    <3>1. Held(k, v) <=> Has(tab, {}, <<cur>> \o work, Rest + 1, k, v)
      BY <1>8, <1>12, <1>14, Zenon
    <3> QED  BY <1>1, <1>3, <1>6, <3>1, HeadHas, Zenon
  <2>4. fresh => answer = <<"none">>
    BY Zenon DEF TableInv, Phase
  <2> QED  BY <1>2, <1>3, <1>4, <1>6, <1>8, <1>10, <1>14, <2>2, <2>3, <2>4, Zenon
<1> QED  BY <1>13, <1>14, Zenon

LEMMA OverflowStep ==
  ASSUME TableInv, probeOverflow
  PROVE  TableInv' /\ Kept
<1> DEFINE L == Len(tab)
<1>1. /\ pc = "probe" /\ resize(tab, 2 * L, <<cur>> \o work) /\ Leave("set")
      /\ hashOf' = hashOf /\ fresh' = fresh /\ answer' = answer
  BY Zenon DEF probeOverflow
<1>2. /\ hashOf \in [Keys -> Nat] /\ tab \in Seq(Slot(hashOf)) /\ isCapacity[L]
      /\ work \in Seq(Slot(hashOf)) /\ fresh \in BOOLEAN
      /\ count = pending(tab) /\ count + Waiting <= growAt(L)
  BY Zenon DEF TableInv, Typed, Counted
<1>3. Hole = {} /\ Line = <<cur>> \o work /\ cur # Empty
  BY <1>1, Carrying, Zenon
<1>4. /\ Line \in Seq(Slot(hashOf)) /\ Turns \in Nat /\ cur \in Known(hashOf)
      /\ Turns = IF fresh' THEN Len(Line) - 1 ELSE Len(Line)
  BY <1>1, <1>2, LineParts, Zenon
<1>5. fresh' => answer' = <<"none">> /\ Line # <<>> /\ Line[Len(Line)] # Empty
  BY <1>1, Zenon DEF TableInv, Phase
<1>6. L \in Nat /\ L >= 4 /\ pending(tab) \in Nat /\ pending(work) \in Nat
      /\ Waiting = pending(work) + 1
  BY <1>1, Parts, Zenon
<1>7. growAt(L) \in Nat /\ growAt(L) + 1 <= growAt(2 * L) /\ 2 * L \in Nat
  BY <1>6, Limits, Zenon
<1>8. isCapacity[2 * L]
  BY <1>2, <1>6, Capacities, Zenon
<1> HIDE DEF L
<1>9. pending(tab) + pending(Line) <= growAt(2 * L)
  <2>1. <<cur>> \in Seq(Slot(hashOf))
    BY <1>4 DEF Slot
  <2>2. pending(Line) = pending(<<cur>>) + pending(work)
    BY <1>2, <1>3, <2>1, PendingConcat, Zenon
  <2>3. pending(<<cur>>) = 1
    BY <1>3, PendingFew, Zenon
  <2>4. growAt(2 * L) \in Int
    BY <1>6 DEF growAt
  <2> QED  BY <1>2, <1>6, <1>7, <2>2, <2>3, <2>4
<1>10. Distinct(tab, {}, Line, Turns)
  BY <1>3, Zenon DEF TableInv
<1>11. resize(tab, 2 * L, Line)
  BY <1>1, <1>3, Zenon
<1>12. TableInv' /\ \A k, v : Held(k, v)' <=> Has(tab, {}, Line, Turns, k, v)
  <2>1. fresh' \in BOOLEAN /\ Leave("set") /\ hashOf' = hashOf
    BY <1>1, <1>2, Zenon
  <2> HIDE DEF L
  <2> QED  BY <1>2, <1>4, <1>5, <1>7, <1>8, <1>9, <1>10, <1>11, <2>1,
              ResizeInv, Zenon
<1> QED  BY <1>3, <1>12, Zenon DEF Kept, Held

\* The key of the carried entry is nowhere, when the slot that it has come to
\* is empty or held by an entry nearer to its home.
LEMMA Nowhere ==
  ASSUME TableInv, pc = "probe", tab[pos].dib < cur.dib
  PROVE  Lacks(tab, {}, work, Rest, cur.key)
<1>1. CASE ~Callers
  BY <1>1, Carrying, Zenon
<1>2. CASE Callers
  <2>1. work = <<>> /\ Rest = 0 /\ ~swapped
    BY <1>2, Carrying, Zenon DEF Callers
  <2>2. /\ hashOf \in [Keys -> Nat] /\ tab \in Seq(Slot(hashOf))
        /\ pos \in 1..Len(tab) /\ Placed(tab)
    BY Zenon DEF TableInv, Typed
  <2>3. cur \in Sought(hashOf) /\ Arrived(tab, cur, pos) /\ Passing(tab, cur)
    BY <2>1, Zenon DEF TableInv, Probing
  <2>4. Len(tab) >= 2
    BY Parts, Zenon
  <2>5. \A i \in 1..Len(tab) : tab[i].dib >= 0 => tab[i].key # cur.key
    BY <2>2, <2>3, <2>4, Missing, Zenon DEF Passing
  <2>6. \A i \in Full(tab) \ {} : i \in 1..Len(tab) /\ tab[i].dib >= 0
    <3>1. \A i \in Full(tab) \ {} : i \in 1..Len(tab) /\ tab[i] # Empty
      <4>1. DOMAIN tab = 1..Len(tab)
        BY <2>2
      <4> QED  BY <4>1, Zenon DEF Full
    <3>2. \A i \in 1..Len(tab) : tab[i] \in Slot(hashOf)
      BY <2>2
    <3> QED  BY <3>1, <3>2, SlotType, Zenon
  <2>7. Full(work) = {}
    BY <2>1 DEF Full
  <2> QED  BY <2>5, <2>6, <2>7, Zenon DEF Lacks, Has
<1> QED  BY <1>1, <1>2, Zenon

\* What a step that stores the carried entry does to the map.
Stores == IF Callers THEN Puts(cur.key, cur.val) ELSE Kept

LEMMA EmptyStep ==
  ASSUME TableInv, probeEmpty
  PROVE  TableInv' /\ Stores
<1>1. /\ pc = "probe" /\ cur.dib <= MaxDib /\ tab[pos] = Empty
      /\ tab' = [tab EXCEPT ![pos] = cur] /\ count' = count + 1
      /\ Leave("set") /\ hashOf' = hashOf /\ work' = work
      /\ fresh' = (fresh /\ ~Callers) /\ (~Callers => answer' = answer)
  BY Zenon DEF probeEmpty, Stored
<1>2. /\ hashOf \in [Keys -> Nat] /\ tab \in Seq(Slot(hashOf))
      /\ isCapacity[Len(tab)] /\ work \in Seq(Slot(hashOf)) /\ fresh \in BOOLEAN
      /\ pos \in 1..Len(tab)
      /\ Placed(tab) /\ count = pending(tab) /\ count + Waiting <= growAt(Len(tab))
  BY Zenon DEF TableInv, Typed, Counted
<1>3. /\ Rest \in Nat /\ cur \in Known(hashOf) /\ cur # Empty
      /\ cur.dib \in Nat /\ Distinct(tab, {}, work, Rest)
  BY <1>1, Carrying, Zenon
<1>4. Arrived(tab, cur, pos)
  BY <1>1, Zenon DEF TableInv, Probing
<1>5. /\ Len(tab) \in Nat /\ Len(tab) >= 2 /\ pending(work) \in Nat
      /\ pending(tab) \in Nat /\ Waiting = pending(work) + 1
  BY <1>1, Parts, Zenon
<1>6. tab[pos].dib < cur.dib /\ tab[pos].dib <= cur.dib
  BY <1>1, <1>3 DEF Empty
<1>7. Placed(tab')
  BY <1>1, <1>2, <1>3, <1>4, <1>5, <1>6, StoreStep, Zenon
<1>8. tab' \in Seq(Slot(hashOf)) /\ Len(tab') = Len(tab)
  <2>1. cur \in Slot(hashOf)
    BY <1>3, Zenon DEF Slot
  <2> QED  BY <1>1, <1>2, <2>1
<1>9. count' = pending(tab')
  BY <1>1, <1>2, <1>3, PendingWrite, ZenonT(60)
<1>10. count' + pending(work') <= growAt(Len(tab'))
  <2>1. (count + 1) + pending(work) = count + Waiting
    BY <1>2, <1>5
  <2> QED  BY <1>1, <1>2, <1>8, <2>1, Zenon
<1>11. Lacks(tab, {}, work, Rest, cur.key)
  BY <1>1, <1>6, Nowhere, Zenon
<1>12. /\ Distinct(tab', {}, work, Rest)
       /\ \A k, v : Has(tab', {}, work, Rest, k, v) <=>
            (k = cur.key /\ v = cur.val) \/ Has(tab, {}, work, Rest, k, v)
  <2>1. pos \notin Full(tab) \ {} /\ {} \ {pos} = {}
    BY <1>1, Zenon DEF Full
  <2>2. /\ Distinct(tab', {} \ {pos}, work, Rest)
        /\ \A k, v : Has(tab', {} \ {pos}, work, Rest, k, v) <=>
             (k = cur.key /\ v = cur.val) \/ Has(tab, {}, work, Rest, k, v)
    BY <1>1, <1>2, <1>3, <1>11, <2>1, FillSlot, Zenon
  <2> QED  BY <2>1, <2>2, Zenon
<1>13. Rest = IF fresh' THEN Len(work') - 1 ELSE Len(work')
  BY <1>1, <1>2, Zenon DEF Rest, Callers
<1>14. fresh' => /\ answer' = <<"none">>
                 /\ work' # <<>> /\ work'[Len(work')] # Empty
  BY <1>1, Carrying, Zenon DEF Callers
<1>15. /\ TableInv'
       /\ \A k, v : Held(k, v)' <=> Has(tab', {}, work', Rest, k, v)
  <2>1. "set" \in {"idle", "set"} /\ "set" # "idle" /\ fresh' \in BOOLEAN
    BY <1>1
  <2>2. isCapacity[Len(tab')] /\ work' \in Seq(Slot(hashOf))
    BY <1>1, <1>2, <1>8, Zenon
  <2>3. Distinct(tab', {}, work', Rest)
    BY <1>1, <1>12, Zenon
  <2>4. Leave("set") /\ hashOf' = hashOf /\ hashOf \in [Keys -> Nat]
    BY <1>1, <1>2, Zenon
  <2> QED  BY <1>7, <1>8, <1>9, <1>10, <1>13, <1>14, <2>1, <2>2, <2>3, <2>4,
              LeaveInv, Zenon
<1>16. \A k, v : Held(k, v)' <=>
         (k = cur.key /\ v = cur.val) \/ Has(tab, {}, work, Rest, k, v)
  BY <1>1, <1>12, <1>15, Zenon
<1>17. CASE ~Callers
  BY <1>1, <1>15, <1>16, <1>17, Carrying, Zenon DEF Stores, Kept
<1>18. CASE Callers
  <2>1. \A k, v : Held(k, v) <=> Has(tab, {}, work, Rest, k, v)
    BY <1>1, <1>18, Carrying, Zenon
  <2>2. \A v : ~ Held(cur.key, v)
    BY <1>11, <2>1, Zenon DEF Lacks
  <2> QED  BY <1>15, <1>16, <1>18, <2>1, <2>2, Zenon DEF Stores, Puts
<1> QED  BY <1>17, <1>18, Zenon

\* e takes the place of the entry in slot p.
LEMMA ReplaceSlot ==
  ASSUME NEW S, NEW t \in Seq(S), NEW w, NEW n, NEW p \in 1..Len(t), t[p] # Empty,
         Distinct(t, {}, w, n), NEW e, e # Empty,
         e.key = t[p].key \/ Lacks(t, {}, w, n, e.key)
  PROVE  LET u == [t EXCEPT ![p] = e]
         IN  /\ Distinct(u, {}, w, n)
             /\ \A k, v : Has(u, {}, w, n, k, v) <=>
                  (k = e.key /\ v = e.val) \/ Has(t, {p}, w, n, k, v)
             /\ \A k, v : Has(t, {}, w, n, k, v) <=>
                  (k = t[p].key /\ v = t[p].val) \/ Has(t, {p}, w, n, k, v)
             /\ Lacks(t, {p}, w, n, t[p].key)
<1> DEFINE u == [t EXCEPT ![p] = e]
<1>1. p \in Full(t) \ {} /\ {} \cup {p} = {p} /\ {p} \ {p} = {}
  <2>1. p \in DOMAIN t
    OBVIOUS
  <2> QED  BY <2>1, Zenon DEF Full
<1>2. /\ Distinct(t, {} \cup {p}, w, n)
      /\ Lacks(t, {} \cup {p}, w, n, t[p].key)
      /\ \A k, v : Has(t, {}, w, n, k, v) <=>
           \/ k = t[p].key /\ v = t[p].val
           \/ Has(t, {} \cup {p}, w, n, k, v)
  BY <1>1, RemoveSlot, Zenon
<1>3. /\ Distinct(t, {p}, w, n)
      /\ Lacks(t, {p}, w, n, t[p].key)
      /\ \A k, v : Has(t, {}, w, n, k, v) <=>
           (k = t[p].key /\ v = t[p].val) \/ Has(t, {p}, w, n, k, v)
  BY <1>1, <1>2, Zenon
<1>4. Lacks(t, {p}, w, n, e.key)
  BY <1>3, Zenon DEF Lacks
<1>5. /\ Distinct(u, {p} \ {p}, w, n)
      /\ \A k, v : Has(u, {p} \ {p}, w, n, k, v) <=>
           (k = e.key /\ v = e.val) \/ Has(t, {p}, w, n, k, v)
  <2>1. p \notin Full(t) \ {p}
    BY Zenon
  <2> QED  BY <1>3, <1>4, <2>1, FillSlot, Zenon
<1> HIDE DEF u
<1>6. /\ Distinct(u, {}, w, n)
      /\ \A k, v : Has(u, {}, w, n, k, v) <=>
           (k = e.key /\ v = e.val) \/ Has(t, {p}, w, n, k, v)
  BY <1>1, <1>5, Zenon
<1> QED  BY <1>3, <1>6, Zenon DEF u

\* A key that is nowhere is not in the slot.
LEMMA NotThere ==
  ASSUME NEW S, NEW t \in Seq(S), NEW w, NEW n, NEW p \in 1..Len(t), t[p] # Empty,
         NEW k, Lacks(t, {}, w, n, k)
  PROVE  t[p].key # k
<1>1. p \in DOMAIN t
  OBVIOUS
<1>2. p \in Full(t) \ {}
  BY <1>1, Zenon DEF Full
<1> QED  BY <1>2, LacksPlaces, Zenon

LEMMA ProbeOverwriteStep ==
  ASSUME TableInv, probeOverwrite
  PROVE  TableInv' /\ Callers /\ Puts(cur.key, cur.val)
<1> DEFINE e == [tab[pos] EXCEPT !.val = cur.val]
<1>1. /\ pc = "probe" /\ tab[pos] # Empty /\ tab[pos].key = cur.key
      /\ tab' = [tab EXCEPT ![pos].val = cur.val] /\ count' = count
      /\ Leave("set") /\ hashOf' = hashOf /\ work' = work
      /\ fresh' = (fresh /\ ~Callers)
  BY Zenon DEF probeOverwrite, Match, Stored
<1>2. /\ hashOf \in [Keys -> Nat] /\ tab \in Seq(Slot(hashOf))
      /\ isCapacity[Len(tab)] /\ work \in Seq(Slot(hashOf)) /\ fresh \in BOOLEAN
      /\ pos \in 1..Len(tab)
      /\ Placed(tab) /\ count = pending(tab) /\ count + Waiting <= growAt(Len(tab))
  BY Zenon DEF TableInv, Typed, Counted
<1>3. Distinct(tab, {}, work, Rest) /\ cur.val \in Vals
  BY <1>1, Carrying, Zenon
<1>4. Callers
  <2>1. ~Callers => Lacks(tab, {}, work, Rest, cur.key)
    BY <1>1, Carrying, Zenon
  <2> QED  BY <1>1, <1>2, <2>1, NotThere, Zenon
<1>5. /\ Len(tab) >= 2 /\ pending(work) \in Nat
      /\ pending(tab) \in Nat /\ Waiting = pending(work) + 1
  BY <1>1, Parts, Zenon
<1>6. tab[pos].dib >= 0 /\ tab[pos].dib \in Int
  <2>1. tab[pos] \in Slot(hashOf)
    BY <1>2
  <2> QED  BY <1>1, <2>1, SlotType, Zenon
<1>7. e \in Known(hashOf) /\ e.key = cur.key /\ Placed(tab')
  <2>0. \A v \in Vals : /\ [tab[pos] EXCEPT !.val = v] \in Known(hashOf)
                        /\ [tab[pos] EXCEPT !.val = v].key = tab[pos].key
                        /\ Placed([tab EXCEPT ![pos].val = v])
    BY <1>2, <1>5, <1>6, OverwriteStep, Zenon
  <2>1. /\ e \in Known(hashOf) /\ e.key = tab[pos].key
        /\ Placed([tab EXCEPT ![pos].val = cur.val])
    BY <1>3, <2>0, Zenon
  <2> QED  BY <1>1, <2>1, Zenon
<1>8. e.val = cur.val /\ e # Empty
  <2>1. tab[pos] \in Known(hashOf)
    <3>1. tab[pos] \in Slot(hashOf)
      BY <1>2
    <3> QED  BY <1>1, <3>1, SlotType, Zenon
  <2>2. e.val = cur.val
    BY <2>1 DEF Known, Sought
  <2> HIDE DEF e
  <2>3. e \in Slot(hashOf)
    BY <1>7, Zenon DEF Slot
  <2> QED  BY <1>7, <2>2, <2>3, SlotType, Zenon
<1>9. tab' = [tab EXCEPT ![pos] = e]
  BY <1>1, <1>2
<1> HIDE DEF e
<1>10. tab' \in Seq(Slot(hashOf)) /\ Len(tab') = Len(tab)
  <2>1. e \in Slot(hashOf)
    BY <1>7, Zenon DEF Slot
  <2> QED  BY <1>2, <1>9, <2>1
<1>11. count' = pending(tab')
  <2>1. tab[pos] # Empty /\ count' = count
    BY <1>1, Zenon
  <2>2. pending([tab EXCEPT ![pos] = e]) = pending(tab)
    BY <1>2, <1>8, <2>1, PendingWrite, Zenon
  <2> QED  BY <1>2, <1>9, <2>1, <2>2, Zenon
<1>12. count' + pending(work') <= growAt(Len(tab'))
  <2>1. count + pending(work) <= count + Waiting
    BY <1>2, <1>5
  <2>2. growAt(Len(tab)) \in Int
    BY <1>2 DEF growAt
  <2>3. count + pending(work) <= growAt(Len(tab))
    BY <1>2, <1>5, <2>1, <2>2
  <2> QED  BY <1>1, <1>10, <2>3, Zenon
<1>13. /\ Distinct(tab', {}, work, Rest)
       /\ \A k, v : Has(tab', {}, work, Rest, k, v) <=>
            (k = cur.key /\ v = cur.val) \/ Has(tab, {pos}, work, Rest, k, v)
       /\ \A k, v : Has(tab, {}, work, Rest, k, v) <=>
            (k = cur.key /\ v = tab[pos].val) \/ Has(tab, {pos}, work, Rest, k, v)
       /\ Lacks(tab, {pos}, work, Rest, cur.key)
  <2>1. e.key = tab[pos].key
    BY <1>1, <1>7, Zenon
  <2>2. tab[pos] # Empty /\ tab[pos].key = cur.key
    BY <1>1, Zenon
  <2> DEFINE u == [tab EXCEPT ![pos] = e]
  <2>3. /\ Distinct(u, {}, work, Rest)
        /\ \A k, v : Has(u, {}, work, Rest, k, v) <=>
             (k = e.key /\ v = e.val) \/ Has(tab, {pos}, work, Rest, k, v)
        /\ \A k, v : Has(tab, {}, work, Rest, k, v) <=>
             (k = tab[pos].key /\ v = tab[pos].val) \/ Has(tab, {pos}, work, Rest, k, v)
        /\ Lacks(tab, {pos}, work, Rest, tab[pos].key)
    BY <1>2, <1>3, <1>8, <2>1, <2>2, ReplaceSlot, Zenon
  <2>4. tab' = u
    BY <1>9, Zenon
  <2> HIDE DEF u
  <2> QED  BY <1>7, <1>8, <2>2, <2>3, <2>4, Zenon
<1>14. /\ TableInv'
       /\ \A k, v : Held(k, v)' <=> Has(tab', {}, work', Rest, k, v)
  <2>1. "set" \in {"idle", "set"} /\ "set" # "idle" /\ fresh' = FALSE
    BY <1>1, <1>4
  <2>2. isCapacity[Len(tab')] /\ work' \in Seq(Slot(hashOf)) /\ fresh' \in BOOLEAN
    BY <1>1, <1>2, <1>10, <2>1, Zenon
  <2>3. Distinct(tab', {}, work', Rest)
    BY <1>1, <1>13, Zenon
  <2>4. Rest = IF fresh' THEN Len(work') - 1 ELSE Len(work')
    BY <1>1, <1>4, Zenon DEF Rest, Callers
  <2>5. Leave("set") /\ hashOf' = hashOf /\ hashOf \in [Keys -> Nat]
    BY <1>1, <1>2, Zenon
  <2> QED  BY <1>7, <1>10, <1>11, <1>12, <2>1, <2>2, <2>3, <2>4, <2>5,
              LeaveInv, Zenon
<1>15. \A k, v : Held(k, v) <=> Has(tab, {}, work, Rest, k, v)
  BY <1>1, <1>4, Carrying, Zenon
<1> QED  BY <1>1, <1>4, <1>13, <1>14, <1>15, Zenon DEF Puts, Lacks

LEMMA ProbeRobStep ==
  ASSUME TableInv, probeRob
  PROVE  TableInv' /\ Stores
<1> DEFINE m == tab[pos]
           c == [m EXCEPT !.dib = @ + 1, !.frag = fragOf(m.hash)]
           u == [tab EXCEPT ![pos] = cur]
<1>1. /\ pc = "probe" /\ cur.dib <= MaxDib /\ m # Empty /\ cur.dib > m.dib
      /\ tab' = u /\ cur' = c /\ pos' = next(pos) /\ swapped' = TRUE
      /\ count' = count /\ hashOf' = hashOf /\ pc' = pc /\ work' = work
      /\ fresh' = (fresh /\ ~Callers) /\ (~Callers => answer' = answer)
  BY Zenon DEF probeRob, Stored
<1>2. /\ hashOf \in [Keys -> Nat] /\ tab \in Seq(Slot(hashOf))
      /\ isCapacity[Len(tab)] /\ work \in Seq(Slot(hashOf)) /\ fresh \in BOOLEAN
      /\ pos \in 1..Len(tab)
      /\ Placed(tab) /\ count = pending(tab) /\ count + Waiting <= growAt(Len(tab))
  BY Zenon DEF TableInv, Typed, Counted
<1>3. /\ Rest \in Nat /\ cur \in Known(hashOf) /\ cur # Empty
      /\ cur.dib \in Nat /\ Distinct(tab, {}, work, Rest)
  BY <1>1, Carrying, Zenon
<1>4. Arrived(tab, cur, pos)
  BY <1>1, Zenon DEF TableInv, Probing
<1>5. /\ Len(tab) \in Nat /\ Len(tab) >= 2 /\ pending(work) \in Nat
      /\ pending(tab) \in Nat /\ Waiting = pending(work) + 1
      /\ next(pos) = after(Len(tab), pos)
  BY <1>1, Parts, Zenon
<1>6. m.dib < cur.dib /\ m.dib <= cur.dib
  <2>1. m \in Slot(hashOf)
    BY <1>2
  <2>2. m.dib \in Int
    BY <2>1, SlotType, Zenon
  <2> HIDE DEF m
  <2> QED  BY <1>1, <1>3, <2>2
<1>7. Placed(u)
  BY <1>1, <1>2, <1>3, <1>4, <1>5, <1>6, StoreStep, Zenon
<1>8. u \in Seq(Slot(hashOf)) /\ Len(u) = Len(tab)
  <2>1. cur \in Slot(hashOf)
    BY <1>3, Zenon DEF Slot
  <2> QED  BY <1>2, <2>1
<1>9. /\ c \in Known(hashOf) /\ c.key = m.key /\ c.val = m.val
      /\ Arrived(u, c, after(Len(tab), pos))
  <2>1. PICK z \in 1..Len(tab) : tab[z] = Empty
    BY Parts, Zenon
  <2> QED  BY <1>1, <1>2, <1>3, <1>4, <1>5, <1>6, <2>1, RobStep, Zenon
<1>10. count' = pending(u)
  <2>1. pending(u) = pending(tab)
    BY <1>1, <1>2, <1>3, PendingWrite, Zenon
  <2> QED  BY <1>1, <1>2, <2>1, Zenon
<1>11. /\ Lacks(tab, {}, work, Rest, cur.key) /\ m.key # cur.key
  <2>1. Lacks(tab, {}, work, Rest, cur.key)
    BY <1>1, <1>6, Nowhere, Zenon
  <2> QED  BY <1>1, <1>2, <2>1, NotThere, Zenon
<1>12. /\ Distinct(u, {}, work, Rest)
       /\ \A k, v : Has(u, {}, work, Rest, k, v) <=>
            (k = cur.key /\ v = cur.val) \/ Has(tab, {pos}, work, Rest, k, v)
       /\ \A k, v : Has(tab, {}, work, Rest, k, v) <=>
            (k = m.key /\ v = m.val) \/ Has(tab, {pos}, work, Rest, k, v)
       /\ Lacks(tab, {pos}, work, Rest, m.key)
  BY <1>1, <1>2, <1>3, <1>11, ReplaceSlot, Zenon
<1> HIDE DEF m, c, u
<1>13. Lacks(u, {}, work, Rest, c.key)
  BY <1>9, <1>11, <1>12, Zenon DEF Lacks
<1>14. Distinct(u, {}, <<c>> \o work, Rest + 1)
  BY <1>2, <1>3, <1>12, <1>13, PushLine, Zenon
<1>15. c # Empty /\ c \in Sought(hashOf) /\ c.val \in Vals
  <2>1. c \in Slot(hashOf)
    BY <1>9, Zenon DEF Slot
  <2> QED  BY <1>9, <2>1, SlotType, Zenon DEF Known
<1>16. \A k, v : Has(u, {}, <<c>> \o work, Rest + 1, k, v) <=>
         (k = cur.key /\ v = cur.val) \/ Has(tab, {}, work, Rest, k, v)
  <2> TAKE k, v
  <2>1. Has(u, {}, <<c>> \o work, Rest + 1, k, v) <=>
          (k = m.key /\ v = m.val) \/ Has(u, {}, work, Rest, k, v)
    BY <1>2, <1>3, <1>9, <1>15, HeadHas, Zenon
  <2> QED  BY <1>12, <2>1, Zenon
<1>17. /\ <<c>> \o work = line(pc', cur', work')
       /\ Len(<<c>> \o work) = Len(work) + 1
  <2>1. pc = "probe" => /\ line(pc, c, work) = <<c>> \o work
                        /\ Len(line(pc, c, work)) = Len(work) + 1
    BY <1>2, LineValue, Zenon
  <2> QED  BY <1>1, <2>1, Zenon
<1>18. Rest + 1 = IF fresh' THEN Len(<<c>> \o work) - 1 ELSE Len(<<c>> \o work)
  <2>1. Len(work) \in Nat
    BY <1>2
  <2>2. fresh' <=> fresh /\ work # <<>>
    BY <1>1, Zenon DEF Callers
  <2>3. Rest = IF fresh' THEN Len(work) - 1 ELSE Len(work)
    BY <2>2, Zenon DEF Rest
  <2> QED  BY <1>17, <2>1, <2>3
<1>19. /\ TableInv'
       /\ \A k, v : Held(k, v)' <=> Has(u, {}, <<c>> \o work, Rest + 1, k, v)
  <2> DEFINE w == <<c>> \o work
             n == Rest + 1
  <2>1. /\ pc' = "probe" /\ pc' \in {"probe", "lookup", "delete"}
        /\ swapped' = TRUE /\ swapped' \in BOOLEAN /\ fresh' \in BOOLEAN
        /\ hashOf \in [Keys -> Nat] /\ hashOf' = hashOf
    BY <1>1, <1>2, Zenon
  <2>2. /\ tab' \in Seq(Slot(hashOf)) /\ isCapacity[Len(tab')] /\ Placed(tab')
        /\ work' \in Seq(Slot(hashOf))
    BY <1>1, <1>2, <1>7, <1>8, Zenon
  <2>3. pos' \in 1..Len(tab') /\ Arrived(tab', cur', pos')
    <3>1. after(Len(tab), pos) \in 1..Len(tab)
      BY <1>2, <1>5, Geometry, Zenon
    <3> QED  BY <1>1, <1>5, <1>8, <1>9, <3>1, Zenon
  <2>4. count' = pending(tab') /\ cur' \in Sought(hashOf) /\ cur'.val \in Vals
    BY <1>1, <1>10, <1>15, Zenon
  <2>5. count' + pending(work') + (IF pc' = "probe" THEN 1 ELSE 0)
          <= growAt(Len(tab'))
    <3>1. count + pending(work) + 1 = count + Waiting
      BY <1>2, <1>5
    <3> QED  BY <1>1, <1>2, <1>8, <2>1, <3>1, Zenon
  <2>6. /\ ~(fresh' /\ work' = <<>>)
        /\ fresh' => /\ answer' = <<"none">>
                     /\ work' # <<>> => work'[Len(work')] # Empty
    BY <1>1, Carrying, Zenon DEF Callers
  <2>7. /\ w = line(pc', cur', work') /\ Distinct(tab', {}, w, n)
        /\ n = IF fresh' THEN Len(w) - 1 ELSE Len(w)
    BY <1>1, <1>14, <1>17, <1>18, Zenon
  <2> HIDE DEF w, n
  <2>8. TableInv' /\ \A k, v : Held(k, v)' <=> Has(tab', {}, w, n, k, v)
    BY <2>1, <2>2, <2>3, <2>4, <2>5, <2>6, <2>7, ProbeInv, Zenon
  <2> QED  BY <1>1, <2>8, Zenon DEF w, n
<1>20. \A k, v : Held(k, v)' <=>
         (k = cur.key /\ v = cur.val) \/ Has(tab, {}, work, Rest, k, v)
  BY <1>16, <1>19, Zenon
<1>21. CASE ~Callers
  BY <1>1, <1>19, <1>20, <1>21, Carrying, Zenon DEF Stores, Kept
<1>22. CASE Callers
  <2>1. \A k, v : Held(k, v) <=> Has(tab, {}, work, Rest, k, v)
    BY <1>1, <1>22, Carrying, Zenon
  <2>2. \A v : ~ Held(cur.key, v)
    BY <1>11, <2>1, Zenon DEF Lacks
  <2> QED  BY <1>19, <1>20, <1>22, <2>1, <2>2, Zenon DEF Stores, Puts
<1> QED  BY <1>21, <1>22, Zenon

=============================================================================
