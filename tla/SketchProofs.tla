---------------------------- MODULE SketchProofs ----------------------------
(***************************************************************************)
(* Proofs about Sketch, for any number of rows, counters and estimators,   *)
(* any saturation value and any hash to counters.                          *)
(***************************************************************************)
EXTENDS Sketch, TLAPS

\* The smaller of two numbers within a range is within it, and below both.
LEMMA MinType ==
  ASSUME NEW n \in Nat, NEW a \in 0..n, NEW b \in 0..n
  PROVE  min(a, b) \in 0..n /\ min(a, b) <= a /\ min(a, b) <= b
BY DEF min

\* A fingerprint has a counter in each row.
LEMMA IndexType ==
  ASSUME NEW row \in Rows, NEW fp \in Fingerprints
  PROVE  IndexOf[row][fp] \in Indices
BY SketchAssumption, Zenon

\* A row has a first word, and its words are numbered up to the last.
LEMMA WordType ==
  /\ lastWord \in Nat
  /\ \A idx \in Indices : wordOf(idx) \in 0..lastWord
<1>1. \A a, b \in Nat, n \in Nat \ {0} :
        a <= b => a \div n \in Nat /\ b \div n \in Nat /\ a \div n <= b \div n
  OBVIOUS
<1> QED
  BY <1>1, SketchAssumption DEF lastWord, wordOf, Indices

\* A counter read is within its range.
LEMMA ReadType ==
  ASSUME TypeOK, NEW row \in Rows, NEW fp \in Fingerprints
  PROVE  read(row, fp) \in 0..Max
BY IndexType, ZenonT(30) DEF TypeOK, read

\* Accounting for a new exact count keeps the histories typed, and never
\* raises the floor of an estimate above it.
LEMMA AccountType ==
  ASSUME TypeOK, NEW x \in [Fingerprints -> 0..Max], Account(x)
  PROVE  /\ exact' = x /\ exact' \in [Fingerprints -> 0..Max]
         /\ floor' \in [Estimators -> 0..Max]
         /\ \A e \in Estimators : floor'[e] <= floor[e] /\ floor'[e] <= x[efp[e]]
<1>1. \A e \in Estimators : floor[e] \in 0..Max /\ x[efp[e]] \in 0..Max
  BY Zenon DEF TypeOK
<1>2. \A e \in Estimators :
        /\ min(floor[e], x[efp[e]]) \in 0..Max
        /\ min(floor[e], x[efp[e]]) <= floor[e]
        /\ min(floor[e], x[efp[e]]) <= x[efp[e]]
  BY <1>1, MinType, SketchAssumption, Zenon
<1> QED
  BY <1>2, Zenon DEF Account

\* The exact counts stay in range when one of them is counted up, and when all
\* are halved.
LEMMA ExactType ==
  ASSUME TypeOK
  PROVE  /\ \A fp \in Fingerprints : counted(fp) \in [Fingerprints -> 0..Max]
         /\ [fp \in Fingerprints |-> exact[fp] \div 2] \in [Fingerprints -> 0..Max]
BY SketchAssumption DEF TypeOK, counted, min

\* Halving a word keeps the counters in range, halves those of the word and
\* leaves the others as they are.
LEMMA HalvedType ==
  ASSUME TypeOK, NEW row \in Rows, NEW word \in 0..lastWord
  PROVE  /\ halved(row, word) \in [Rows -> [Indices -> 0..Max]]
         /\ \A q \in Rows, idx \in Indices :
              halved(row, word)[q][idx] =
                IF q = row /\ wordOf(idx) = word
                THEN counters[q][idx] \div 2 ELSE counters[q][idx]
<1>1. \A q \in Rows, idx \in Indices :
        counters[q][idx] \in 0..Max /\ counters[q][idx] \div 2 \in 0..Max
  BY SketchAssumption DEF TypeOK
<1> QED
  BY <1>1, Zenon DEF TypeOK, halved

-----------------------------------------------------------------------------
(* The inductive invariant. *)

\* The word of idx in this row is still to be halved.
Pending(row, idx) == row > at[1] \/ (row = at[1] /\ wordOf(idx) >= at[2])

\* Half-way through an increment, the rows that need no raise or have had it
\* are already above the exact count, and the others have room.  Half-way
\* through a halving, the counters still to be halved can afford it.
SketchInv ==
  /\ NeverUnder
  /\ \A e \in Estimators : floor[e] <= elo[e] /\ floor[e] <= exact[efp[e]]
  /\ wpc = "raise" =>
       /\ \A row \in todo : read(row, wfp) < Max
       /\ \A row \in Rows \ todo : exact[wfp] + 1 <= read(row, wfp)
  /\ wpc = "halve" =>
       \A row \in Rows, fp \in Fingerprints :
         Pending(row, IndexOf[row][fp]) => exact[fp] <= read(row, fp) \div 2

Inv == TypeOK /\ SketchInv

\* increment, before its raises: every row that is not among the least is
\* above the least, which is at least the exact count.
LEMMA IncrementStep ==
  ASSUME Inv, NEW fp \in Fingerprints, Increment(fp)
  PROVE  Inv'
<1> DEFINE sat == \A row \in Rows : read(row, fp) >= Max
<1>1. IncrementRows(fp, lowest(fp), sat)
  BY Zenon DEF Increment
<1>2. \A row \in Rows : read(row, fp) \in 0..Max /\ exact[fp] <= read(row, fp)
  BY ReadType, Zenon DEF Inv, SketchInv, NeverUnder
<1>3. exact \in [Fingerprints -> 0..Max] /\ exact[fp] \in 0..Max /\ Max \in Nat
  BY SketchAssumption, Zenon DEF Inv, TypeOK
<1>4. UNCHANGED <<counters, at, epc, efp, erow, elo>> /\ wfp' = fp /\ wpc = "idle"
  BY <1>1, Zenon DEF IncrementRows, estimators
<1>5. \A row \in Rows, g \in Fingerprints : read(row, g)' = read(row, g)
  BY <1>4, Zenon DEF read
<1>6. CASE sat
  <2>1. Account(counted(fp)) /\ UNCHANGED <<wpc, todo>>
    BY <1>1, <1>6, Zenon DEF IncrementRows
  <2>2. counted(fp) \in [Fingerprints -> 0..Max]
    BY ExactType, Zenon DEF Inv
  <2>3. /\ exact' = counted(fp) /\ floor' \in [Estimators -> 0..Max]
        /\ \A e \in Estimators :
             floor'[e] <= floor[e] /\ floor'[e] <= counted(fp)[efp[e]]
    BY <2>1, <2>2, AccountType, Zenon DEF Inv
  <2>4. \A g \in Fingerprints, row \in Rows : counted(fp)[g] <= read(row, g)
    <3> SUFFICES ASSUME NEW g \in Fingerprints, NEW row \in Rows
                 PROVE  counted(fp)[g] <= read(row, g)
      BY Zenon
    <3>1. CASE g = fp
      BY <1>2, <1>3, <1>6, <3>1 DEF counted, min
    <3>2. CASE g # fp
      BY <1>3, <3>2, Zenon DEF counted, Inv, SketchInv, NeverUnder
    <3> QED BY <3>1, <3>2, Zenon
  <2>5. TypeOK'
    BY <1>4, <2>1, <2>2, <2>3, Zenon DEF Inv, TypeOK, lastWord, wordOf
  <2>6. \A e \in Estimators : floor'[e] <= elo'[e]
    BY <1>4, <2>3, <2>5, SketchAssumption DEF Inv, TypeOK, SketchInv
  <2> QED
    BY <1>4, <1>5, <2>1, <2>3, <2>4, <2>5, <2>6, Zenon
       DEF Inv, SketchInv, NeverUnder
<1>7. CASE ~sat
  <2>1. todo' = lowest(fp) /\ wpc' = "raise" /\ UNCHANGED <<exact, floor>>
    BY <1>1, <1>7, Zenon DEF IncrementRows
  <2>2. \A row \in lowest(fp) : row \in Rows /\ read(row, fp) < Max
    <3>1. PICK low \in Rows : ~(read(low, fp) >= Max)
      BY <1>7, Zenon
    <3>2. \A row \in lowest(fp) : row \in Rows /\ read(row, fp) <= read(low, fp)
      BY <3>1, Zenon DEF lowest
    <3> QED BY <1>2, <1>3, <3>1, <3>2
  <2>3. \A row \in Rows \ lowest(fp) : exact[fp] + 1 <= read(row, fp)
    <3> SUFFICES ASSUME NEW row \in Rows, row \notin lowest(fp)
                 PROVE  exact[fp] + 1 <= read(row, fp)
      BY Zenon
    <3>1. PICK other \in Rows : ~(read(row, fp) <= read(other, fp))
      BY Zenon DEF lowest
    <3> QED BY <3>1, <1>2, <1>3
  <2>4. TypeOK'
    BY <1>4, <2>1, <2>2, Zenon DEF Inv, TypeOK, lastWord, wordOf
  <2>5. /\ NeverUnder'
        /\ \A e \in Estimators : floor'[e] <= elo'[e] /\ floor'[e] <= exact'[efp'[e]]
    BY <1>4, <1>5, <2>1, Zenon DEF Inv, SketchInv, NeverUnder
  <2>6. /\ \A row \in todo' : read(row, wfp)' < Max
        /\ \A row \in Rows \ todo' : exact'[wfp'] + 1 <= read(row, wfp)'
    BY <1>4, <2>1, <2>2, <2>3, Zenon DEF read
  <2> QED
    BY <2>1, <2>4, <2>5, <2>6, Zenon DEF Inv, SketchInv
<1> QED BY <1>6, <1>7, Zenon

\* One raise: the counter has room, and only the counters of one row change.
LEMMA RaiseStep ==
  ASSUME Inv, Raise
  PROVE  Inv'
<1>1. PICK row \in todo :
        /\ wpc = "raise"
        /\ counters' = [counters EXCEPT ![row][IndexOf[row][wfp]] = @ + 1]
        /\ todo' = todo \ {row}
        /\ \/ todo' # {} /\ UNCHANGED <<wpc, exact, floor>>
           \/ todo' = {} /\ wpc' = "idle" /\ Account(counted(wfp))
        /\ UNCHANGED <<wfp, at, estimators>>
  BY Zenon DEF Raise
<1>2. row \in Rows /\ wfp \in Fingerprints /\ IndexOf[row][wfp] \in Indices
  BY IndexType, Zenon DEF Inv, TypeOK
<1> DEFINE idx == IndexOf[row][wfp]
           reads(q, g) == counters'[q][IndexOf[q][g]]
<1>3. counters[row][idx] \in 0..Max /\ counters[row][idx] < Max /\ Max \in Nat
  BY <1>1, <1>2, ReadType, SketchAssumption, Zenon DEF Inv, SketchInv, read
<1>4. \A q \in Rows, j \in Indices :
        counters'[q][j] = IF q = row /\ j = idx THEN counters[q][j] + 1
                                                ELSE counters[q][j]
  <2>1. counters \in [Rows -> [Indices -> 0..Max]]
    BY Zenon DEF Inv, TypeOK
  <2>2. \A q \in Rows : q # row => counters'[q] = counters[q]
    BY <1>1, <1>2, <2>1, Zenon
  <2>3. counters'[row] = [counters[row] EXCEPT ![idx] = @ + 1]
    BY <1>1, <1>2, <2>1, Zenon
  <2>4. counters[row] \in [Indices -> 0..Max]
    BY <1>2, <2>1, Zenon
  <2> HIDE DEF idx
  <2> QED BY <2>2, <2>3, <2>4, ZenonT(30)
<1>5. counters' \in [Rows -> [Indices -> 0..Max]]
  <2>1. counters[row][idx] + 1 \in 0..Max
    BY <1>3
  <2> QED BY <1>1, <1>2, <2>1, Zenon DEF Inv, TypeOK
<1>6. \A q \in Rows, g \in Fingerprints :
        /\ read(q, g) \in 0..Max /\ reads(q, g) \in 0..Max
        /\ read(q, g) <= reads(q, g)
        /\ q # row => reads(q, g) = read(q, g)
  <2> SUFFICES ASSUME NEW q \in Rows, NEW g \in Fingerprints
               PROVE  /\ read(q, g) \in 0..Max /\ reads(q, g) \in 0..Max
                      /\ read(q, g) <= reads(q, g)
                      /\ q # row => reads(q, g) = read(q, g)
    BY Zenon
  <2>1. IndexOf[q][g] \in Indices
    BY IndexType, Zenon
  <2>2. counters[q][IndexOf[q][g]] \in 0..Max /\ counters'[q][IndexOf[q][g]] \in 0..Max
    BY <1>5, <2>1, Zenon DEF Inv, TypeOK
  <2>3. \/ counters'[q][IndexOf[q][g]] = counters[q][IndexOf[q][g]]
        \/ /\ q = row
           /\ counters'[q][IndexOf[q][g]] = counters[q][IndexOf[q][g]] + 1
    BY <1>4, <2>1, Zenon
  <2> QED BY <2>2, <2>3 DEF read
<1>7. reads(row, wfp) = read(row, wfp) + 1
  BY <1>2, <1>4, Zenon DEF read
<1>8. \A q \in Rows : exact[wfp] <= read(q, wfp)
  BY <1>2, Zenon DEF Inv, SketchInv, NeverUnder
<1>9. exact \in [Fingerprints -> 0..Max] /\ exact[wfp] \in 0..Max
  BY <1>2, Zenon DEF Inv, TypeOK
<1>10. \A q \in Rows \ todo' : exact[wfp] + 1 <= reads(q, wfp)
  <2> SUFFICES ASSUME NEW q \in Rows, q \notin todo'
               PROVE  exact[wfp] + 1 <= reads(q, wfp)
    BY Zenon
  <2>1. CASE q = row
    BY <1>2, <1>6, <1>7, <1>8, <1>9, <2>1
  <2>2. CASE q # row
    <3>1. q \in Rows \ todo
      BY <1>1, <2>2, Zenon
    <3>2. exact[wfp] + 1 <= read(q, wfp)
      BY <1>1, <3>1, Zenon DEF Inv, SketchInv
    <3> QED BY <1>2, <1>6, <2>2, <3>2, Zenon
  <2> QED BY <2>1, <2>2, Zenon
<1>11. UNCHANGED <<wfp, at, epc, efp, erow, elo>>
  BY <1>1, Zenon DEF estimators
<1>12. \A g \in Fingerprints, q \in Rows : exact[g] <= reads(q, g)
  <2>1. \A g \in Fingerprints, q \in Rows : exact[g] <= read(q, g)
    BY Zenon DEF Inv, SketchInv, NeverUnder
  <2> QED BY <2>1, <1>6, <1>9
<1>13. CASE todo' # {}
  <2>1. UNCHANGED <<wpc, exact, floor>>
    BY <1>1, <1>13, Zenon
  <2>2. TypeOK'
    BY <1>1, <1>5, <1>11, <2>1, Zenon DEF Inv, TypeOK, lastWord, wordOf
  <2>3. \A q \in todo' : reads(q, wfp) < Max
    <3>1. \A q \in todo' : q \in Rows /\ q \in todo /\ q # row
      BY <1>1, Zenon DEF Inv, TypeOK
    <3>2. \A q \in todo : read(q, wfp) < Max
      BY <1>1, Zenon DEF Inv, SketchInv
    <3> QED BY <1>2, <1>6, <3>1, <3>2, Zenon
  <2>4. /\ NeverUnder'
        /\ \A e \in Estimators : floor'[e] <= elo'[e] /\ floor'[e] <= exact'[efp'[e]]
    BY <1>11, <1>12, <2>1, Zenon DEF Inv, SketchInv, NeverUnder, read
  <2>5. /\ \A q \in todo' : reads(q, wfp) < Max
        /\ \A q \in Rows \ todo' : exact'[wfp'] + 1 <= reads(q, wfp)
        /\ wpc' = "raise"
    BY <1>1, <1>10, <1>11, <2>1, <2>3, Zenon
  <2> QED
    BY <1>11, <2>2, <2>4, <2>5, Zenon DEF Inv, SketchInv, read
<1>14. CASE todo' = {}
  <2>1. wpc' = "idle" /\ Account(counted(wfp))
    BY <1>1, <1>14, Zenon
  <2>2. counted(wfp) \in [Fingerprints -> 0..Max]
    BY <1>2, ExactType, Zenon DEF Inv
  <2>3. /\ exact' = counted(wfp) /\ floor' \in [Estimators -> 0..Max]
        /\ \A e \in Estimators :
             floor'[e] <= floor[e] /\ floor'[e] <= counted(wfp)[efp[e]]
    BY <2>1, <2>2, AccountType, Zenon DEF Inv
  <2>4. TypeOK'
    BY <1>1, <1>5, <1>11, <2>1, <2>2, <2>3, Zenon
       DEF Inv, TypeOK, lastWord, wordOf
  <2>5. \A g \in Fingerprints, q \in Rows : counted(wfp)[g] <= reads(q, g)
    <3> SUFFICES ASSUME NEW g \in Fingerprints, NEW q \in Rows
                 PROVE  counted(wfp)[g] <= reads(q, g)
      BY Zenon
    <3>1. CASE g = wfp
      <4>1. exact[wfp] + 1 <= reads(q, g) /\ reads(q, g) \in 0..Max
        BY <1>6, <1>10, <1>14, <3>1, Zenon
      <4>2. counted(wfp)[g] = min(exact[wfp] + 1, Max)
        BY <1>2, <1>9, <3>1, Zenon DEF counted
      <4> QED BY <4>1, <4>2, <1>9, <1>3 DEF min
    <3>2. CASE g # wfp
      <4>1. counted(wfp)[g] = exact[g]
        BY <1>9, <3>2, Zenon DEF counted
      <4> QED BY <4>1, <1>12, Zenon
    <3> QED BY <3>1, <3>2, Zenon
  <2>6. \A e \in Estimators : floor'[e] <= elo'[e]
    BY <1>11, <2>3, <2>4, SketchAssumption DEF Inv, TypeOK, SketchInv
  <2>7. NeverUnder' /\ \A e \in Estimators : floor'[e] <= exact'[efp'[e]]
    BY <1>11, <2>3, <2>5, Zenon DEF NeverUnder, read
  <2> QED
    BY <2>1, <2>4, <2>6, <2>7, Zenon DEF Inv, SketchInv
<1> QED BY <1>13, <1>14, Zenon

\* The start of a halving: the exact counts are halved at once, and every
\* counter is pending.
LEMMA HalveStep ==
  ASSUME Inv, Halve
  PROVE  Inv'
<1> DEFINE x == [fp \in Fingerprints |-> exact[fp] \div 2]
<1>1. /\ wpc' = "halve" /\ at' = <<0, 0>> /\ Account(x)
      /\ UNCHANGED <<counters, wfp, todo, epc, efp, erow, elo>>
  BY Zenon DEF Halve, estimators
<1>2. x \in [Fingerprints -> 0..Max]
  BY ExactType, Zenon DEF Inv
<1>3. /\ exact' = x /\ floor' \in [Estimators -> 0..Max]
      /\ \A e \in Estimators : floor'[e] <= floor[e] /\ floor'[e] <= x[efp[e]]
  BY <1>1, <1>2, AccountType, Zenon DEF Inv
<1>4. TypeOK'
  <2>1. at' \in Rows \X (0..lastWord)
    BY <1>1, WordType, SketchAssumption DEF Rows
  <2> QED
    BY <1>1, <1>2, <1>3, <2>1, Zenon DEF Inv, TypeOK, lastWord, wordOf
<1>5. \A fp \in Fingerprints, row \in Rows :
        x[fp] <= read(row, fp) /\ x[fp] <= read(row, fp) \div 2
  <2> SUFFICES ASSUME NEW fp \in Fingerprints, NEW row \in Rows
               PROVE  x[fp] <= read(row, fp) /\ x[fp] <= read(row, fp) \div 2
    BY Zenon
  <2>1. /\ read(row, fp) \in 0..Max /\ exact[fp] \in 0..Max
        /\ exact[fp] <= read(row, fp) /\ Max \in Nat
    BY ReadType, SketchAssumption, Zenon DEF Inv, TypeOK, SketchInv, NeverUnder
  <2>2. x[fp] = exact[fp] \div 2
    BY Zenon
  <2>3. \A a, b \in Nat : a <= b => a \div 2 <= b /\ a \div 2 <= b \div 2
    OBVIOUS
  <2> QED BY <2>1, <2>2, <2>3
<1> HIDE DEF x
<1>6. \A e \in Estimators : floor'[e] <= elo'[e]
  <2> SUFFICES ASSUME NEW e \in Estimators PROVE floor'[e] <= elo'[e]
    BY Zenon
  <2>1. floor'[e] \in 0..Max /\ floor[e] \in 0..Max /\ elo[e] \in 0..Max
    BY <1>3, Zenon DEF Inv, TypeOK
  <2>2. floor'[e] <= floor[e] /\ floor[e] <= elo[e] /\ elo'[e] = elo[e]
    BY <1>1, <1>3, Zenon DEF Inv, SketchInv
  <2> QED BY <2>1, <2>2, SketchAssumption
<1> QED
  BY <1>1, <1>3, <1>4, <1>5, <1>6, Zenon DEF Inv, SketchInv, NeverUnder, read

\* Halving one word: its counters were pending, and are pending no more.
LEMMA HalveWordStep ==
  ASSUME Inv, HalveWord
  PROVE  Inv'
<1>1. /\ at[1] \in Rows /\ at[2] \in 0..lastWord /\ lastWord \in Nat
      /\ at = <<at[1], at[2]>>
  BY WordType DEF Inv, TypeOK
<1>2. /\ wpc = "halve" /\ counters' = halved(at[1], at[2])
      /\ UNCHANGED <<wfp, todo, exact, epc, efp, erow, elo, floor>>
  BY Zenon DEF HalveWord, estimators
<1>3. \/ wpc' = "halve" /\ at[2] < lastWord /\ at' = <<at[1], at[2] + 1>>
      \/ /\ wpc' = "halve" /\ at[2] = lastWord /\ at[1] < Depth - 1
         /\ at' = <<at[1] + 1, 0>>
      \/ wpc' = "idle" /\ at' = <<0, 0>>
  BY <1>2, Zenon DEF HalveWord
<1>4. /\ counters' \in [Rows -> [Indices -> 0..Max]]
      /\ \A q \in Rows, idx \in Indices :
           counters'[q][idx] = IF q = at[1] /\ wordOf(idx) = at[2]
                               THEN counters[q][idx] \div 2 ELSE counters[q][idx]
  BY <1>1, <1>2, HalvedType DEF Inv
<1>5. TypeOK'
  <2>1. at' \in Rows \X (0..lastWord)
    BY <1>1, <1>3, SketchAssumption, SMTT(30) DEF Rows
  <2>2. wpc' \in {"idle", "raise", "halve"}
    BY <1>3, Zenon
  <2> QED
    BY <1>2, <1>4, <2>1, <2>2, Zenon DEF Inv, TypeOK, lastWord, wordOf
<1>6. ASSUME NEW q \in Rows, NEW fp \in Fingerprints
      PROVE  /\ exact[fp] <= counters'[q][IndexOf[q][fp]]
             /\ wpc' = "halve" /\ Pending(q, IndexOf[q][fp])' =>
                  exact[fp] <= counters'[q][IndexOf[q][fp]] \div 2
  <2> DEFINE idx == IndexOf[q][fp]
  <2>1. idx \in Indices /\ wordOf(idx) \in 0..lastWord
    BY IndexType, WordType, Zenon
  <2>2. exact[fp] <= counters[q][idx]
    BY Zenon DEF Inv, SketchInv, NeverUnder, read
  <2>3. Pending(q, idx) => exact[fp] <= counters[q][idx] \div 2
    BY <1>2, Zenon DEF Inv, SketchInv, read
  <2> HIDE DEF idx
  <2>4. CASE q = at[1] /\ wordOf(idx) = at[2]
    <3>1. Pending(q, idx)
      BY <1>1, <2>1, <2>4 DEF Pending
    <3>2. counters'[q][idx] = counters[q][idx] \div 2
      BY <1>4, <2>1, <2>4, Zenon
    <3>3. wpc' = "halve" => ~Pending(q, idx)'
      BY <1>1, <1>3, <2>1, <2>4, SMTT(30) DEF Pending, Rows, wordOf
    <3> QED BY <2>3, <3>1, <3>2, <3>3, Zenon DEF idx
  <2>5. CASE ~(q = at[1] /\ wordOf(idx) = at[2])
    <3>1. counters'[q][idx] = counters[q][idx]
      BY <1>4, <2>1, <2>5, Zenon
    <3>2. wpc' = "halve" /\ Pending(q, idx)' => Pending(q, idx)
      BY <1>1, <1>3, <2>1, <2>5, SMTT(30) DEF Pending, Rows, wordOf
    <3> QED BY <2>2, <2>3, <3>1, <3>2, Zenon DEF idx
  <2> QED BY <2>4, <2>5, Zenon
<1> QED
  BY <1>2, <1>3, <1>5, <1>6, Zenon DEF Inv, SketchInv, NeverUnder, read

\* An estimate that begins takes the exact count for its floor.
LEMMA EstimateStep ==
  ASSUME Inv, NEW e \in Estimators, NEW fp \in Fingerprints, Estimate(e, fp)
  PROVE  Inv'
<1>1. /\ epc' = [epc EXCEPT ![e] = "read"] /\ efp' = [efp EXCEPT ![e] = fp]
      /\ erow' = [erow EXCEPT ![e] = 0] /\ elo' = [elo EXCEPT ![e] = Max]
      /\ floor' = [floor EXCEPT ![e] = exact[fp]]
      /\ UNCHANGED <<counters, wpc, wfp, todo, at, exact>>
  BY Zenon DEF Estimate, drainer
<1>2. exact[fp] \in 0..Max /\ Max \in 0..Max /\ 0 \in Rows
  BY SketchAssumption DEF Inv, TypeOK, Rows
<1>3. TypeOK'
  BY <1>1, <1>2, Zenon DEF Inv, TypeOK, lastWord, wordOf
<1>4. \A f \in Estimators : floor'[f] <= elo'[f] /\ floor'[f] <= exact'[efp'[f]]
  BY <1>1, <1>2, SMTT(30) DEF Inv, TypeOK, SketchInv
<1> QED
  BY <1>1, <1>3, <1>4, Zenon
     DEF Inv, SketchInv, NeverUnder, read, Pending, wordOf

\* An estimate that reads a row reads at least its floor.
LEMMA EstimateReadStep ==
  ASSUME Inv, NEW e \in Estimators, EstimateRead(e)
  PROVE  Inv'
<1> DEFINE c == read(erow[e], efp[e])
<1>1. /\ elo' = [elo EXCEPT ![e] = min(elo[e], c)]
      /\ UNCHANGED <<counters, wpc, wfp, todo, at, exact, efp, floor>>
      /\ \/ erow[e] < Depth - 1 /\ erow' = [erow EXCEPT ![e] = erow[e] + 1]
            /\ UNCHANGED epc
         \/ epc' = [epc EXCEPT ![e] = "done"] /\ UNCHANGED erow
  BY Zenon DEF EstimateRead, EstimateRow, drainer
<1>2. erow[e] \in Rows /\ efp[e] \in Fingerprints /\ elo[e] \in 0..Max
  BY Zenon DEF Inv, TypeOK
<1>3. c \in 0..Max /\ exact[efp[e]] <= c
  BY <1>2, ReadType, Zenon DEF Inv, SketchInv, NeverUnder
<1>4. /\ floor[e] <= elo[e] /\ floor[e] <= exact[efp[e]]
      /\ floor[e] \in 0..Max /\ exact[efp[e]] \in 0..Max
  BY <1>2, Zenon DEF Inv, SketchInv, TypeOK
<1> HIDE DEF c
<1>5. min(elo[e], c) \in 0..Max /\ floor[e] <= min(elo[e], c)
  BY <1>2, <1>3, <1>4, SketchAssumption DEF min
<1>6. TypeOK'
  <2>1. erow' \in [Estimators -> Rows]
    <3>1. erow[e] < Depth - 1 => erow[e] + 1 \in Rows
      BY <1>2, SketchAssumption DEF Rows
    <3> QED BY <1>1, <1>2, <3>1, Zenon DEF Inv, TypeOK
  <2>2. epc' \in [Estimators -> {"idle", "read", "done"}]
    BY <1>1, Zenon DEF Inv, TypeOK
  <2> QED
    BY <1>1, <1>5, <2>1, <2>2, Zenon DEF Inv, TypeOK, lastWord, wordOf
<1>7. \A f \in Estimators : floor'[f] <= elo'[f] /\ floor'[f] <= exact'[efp'[f]]
  BY <1>1, <1>5, ZenonT(30) DEF Inv, TypeOK, SketchInv
<1> QED
  BY <1>1, <1>6, <1>7, Zenon
     DEF Inv, SketchInv, NeverUnder, read, Pending, wordOf

\* The inductive invariant holds for ever.
THEOREM InvHolds == Spec => []Inv
<1>1. Init => Inv
  <2> SUFFICES ASSUME Init PROVE Inv
    BY Zenon
  <2>1. 0 \in 0..Max /\ Max \in 0..Max /\ 0 \in Rows /\ 0 \in 0..lastWord
    BY SketchAssumption, WordType DEF Rows
  <2>2. TypeOK
    <3>1. at \in Rows \X (0..lastWord)
      BY <2>1, Zenon DEF Init
    <3> QED BY <2>1, <3>1, Zenon DEF Init, TypeOK
  <2>3. \A fp \in Fingerprints, row \in Rows : read(row, fp) = 0 /\ exact[fp] = 0
    BY IndexType, Zenon DEF Init, read
  <2>4. NeverUnder
    BY <2>3 DEF NeverUnder
  <2>5. \A e \in Estimators : floor[e] <= elo[e] /\ floor[e] <= exact[efp[e]]
    <3>1. \A e \in Estimators : floor[e] = 0 /\ elo[e] = Max
      BY Zenon DEF Init
    <3>2. \A e \in Estimators : exact[efp[e]] = 0
      BY Zenon DEF Init
    <3>3. 0 <= Max /\ 0 <= 0
      BY SketchAssumption
    <3> QED BY <3>1, <3>2, <3>3, Zenon
  <2> QED
    BY <2>2, <2>4, <2>5, Zenon DEF Init, Inv, SketchInv
<1>2. Inv /\ [Next]_vars => Inv'
  <2> SUFFICES ASSUME Inv, [Next]_vars PROVE Inv'
    BY Zenon
  <2>1. CASE Next
    BY <2>1, IncrementStep, RaiseStep, HalveStep, HalveWordStep, EstimateStep,
       EstimateReadStep, Zenon DEF Next
  <2>2. CASE UNCHANGED vars
    BY <2>2, Zenon
       DEF vars, drainer, estimators, Inv, TypeOK, SketchInv, NeverUnder, read,
           Pending, wordOf, lastWord
  <2> QED BY <2>1, <2>2, Zenon
<1> QED
  BY <1>1, <1>2, PTL DEF Spec

\* Sketch.TypeOK holds for ever: no counter ever outgrows its nibble.
THEOREM TypeCorrect == Spec => []TypeOK
<1>1. Inv => TypeOK
  BY Zenon DEF Inv
<1> QED BY <1>1, InvHolds, PTL

\* Sketch.NeverUnder holds for ever: no counter of a fingerprint falls below
\* its exact count.
THEOREM NeverUnderHolds == Spec => []NeverUnder
<1>1. Inv => NeverUnder
  BY Zenon DEF Inv, SketchInv
<1> QED BY <1>1, InvHolds, PTL

\* Sketch.EstimateNeverUnder holds for ever: a lock-free estimate is as good a
\* lower bound as the exact counts of its time.
THEOREM EstimateHolds == Spec => []EstimateNeverUnder
<1>1. Inv => EstimateNeverUnder
  BY Zenon DEF Inv, SketchInv, EstimateNeverUnder
<1> QED BY <1>1, InvHolds, PTL
-----------------------------------------------------------------------------
(* A counter without collisions. *)

\* What ExactWhenAlone needs half-way: a raise that has been made is ahead of
\* the exact count by one, and a counter still to be halved is twice as large.
Ahead(fp, row) == wpc = "raise" /\ fp = wfp /\ row \notin todo
Late(fp, row) == wpc = "halve" /\ Pending(row, IndexOf[row][fp])

AloneInv ==
  \A fp \in Fingerprints, row \in Rows :
    alone(fp, row) =>
      /\ Ahead(fp, row) => read(row, fp) = exact[fp] + 1
      /\ Late(fp, row) => exact[fp] = read(row, fp) \div 2
      /\ ~Ahead(fp, row) /\ ~Late(fp, row) => read(row, fp) = exact[fp]

\* increment: a counter that fp has to itself is among the least, since none is
\* below the exact count.
LEMMA AloneIncrement ==
  ASSUME Inv, AloneInv, NEW fp \in Fingerprints, Increment(fp)
  PROVE  AloneInv'
<1> DEFINE sat == \A row \in Rows : read(row, fp) >= Max
<1>1. IncrementRows(fp, lowest(fp), sat)
  BY Zenon DEF Increment
<1>2. wfp' = fp /\ wpc = "idle" /\ UNCHANGED counters
  BY <1>1, Zenon DEF IncrementRows
<1> SUFFICES ASSUME NEW g \in Fingerprints, NEW row \in Rows, alone(g, row)
             PROVE  /\ Ahead(g, row)' => read(row, g)' = exact'[g] + 1
                    /\ Late(g, row)' => exact'[g] = read(row, g)' \div 2
                    /\ ~Ahead(g, row)' /\ ~Late(g, row)' => read(row, g)' = exact'[g]
  BY Zenon DEF AloneInv, alone
<1>3. read(row, g) = exact[g] /\ read(row, g)' = read(row, g)
  BY <1>2, Zenon DEF AloneInv, Ahead, Late, read
<1>4. CASE sat
  <2>1. exact' = counted(fp) /\ wpc' = "idle"
    BY <1>1, <1>2, <1>4, Zenon DEF IncrementRows, Account
  <2>2. counted(fp)[g] = exact[g]
    <3>1. exact \in [Fingerprints -> 0..Max] /\ exact[g] \in 0..Max /\ Max \in Nat
      BY SketchAssumption, Zenon DEF Inv, TypeOK
    <3>2. CASE g = fp
      <4>1. exact[g] = Max
        BY <1>3, <1>4, <3>1, <3>2
      <4> QED BY <3>1, <3>2, <4>1 DEF counted, min
    <3>3. CASE g # fp
      BY <3>1, <3>3, Zenon DEF counted
    <3> QED BY <3>2, <3>3, Zenon
  <2> QED BY <1>3, <2>1, <2>2, Zenon DEF Ahead, Late
<1>5. CASE ~sat
  <2>1. todo' = lowest(fp) /\ wpc' = "raise" /\ UNCHANGED exact
    BY <1>1, <1>5, Zenon DEF IncrementRows
  <2>2. g = fp => row \in lowest(fp)
    BY <1>3, Zenon DEF Inv, SketchInv, NeverUnder, lowest
  <2> QED BY <1>2, <1>3, <2>1, <2>2, Zenon DEF Ahead, Late
<1> QED BY <1>4, <1>5, Zenon

\* raise: only the counter of wfp in the row changes, and a counter that
\* another fingerprint has to itself is not that one.
LEMMA AloneRaise ==
  ASSUME Inv, AloneInv, Raise
  PROVE  AloneInv'
<1>1. PICK low \in todo :
        /\ wpc = "raise"
        /\ counters' = [counters EXCEPT ![low][IndexOf[low][wfp]] = @ + 1]
        /\ todo' = todo \ {low}
        /\ \/ todo' # {} /\ UNCHANGED <<wpc, exact>>
           \/ todo' = {} /\ wpc' = "idle" /\ exact' = counted(wfp)
        /\ UNCHANGED wfp
  BY Zenon DEF Raise, Account
<1>2. low \in Rows /\ wfp \in Fingerprints /\ IndexOf[low][wfp] \in Indices
  BY IndexType, Zenon DEF Inv, TypeOK
<1> SUFFICES ASSUME NEW g \in Fingerprints, NEW row \in Rows, alone(g, row)
             PROVE  /\ Ahead(g, row)' => read(row, g)' = exact'[g] + 1
                    /\ Late(g, row)' => exact'[g] = read(row, g)' \div 2
                    /\ ~Ahead(g, row)' /\ ~Late(g, row)' => read(row, g)' = exact'[g]
  BY Zenon DEF AloneInv, alone
<1>3. /\ g = wfp /\ row \notin todo => read(row, g) = exact[g] + 1
      /\ ~(g = wfp /\ row \notin todo) => read(row, g) = exact[g]
  BY <1>1, Zenon DEF AloneInv, Ahead, Late
<1>4. IndexOf[row][g] \in Indices /\ (g # wfp => IndexOf[row][g] # IndexOf[row][wfp])
  BY <1>2, IndexType, Zenon DEF alone
<1>5. /\ g = wfp /\ row = low => read(row, g)' = read(row, g) + 1
      /\ ~(g = wfp /\ row = low) => read(row, g)' = read(row, g)
  <2>1. counters \in [Rows -> [Indices -> 0..Max]]
    BY Zenon DEF Inv, TypeOK
  <2>2. row # low => counters'[row] = counters[row]
    BY <1>1, <1>2, <2>1, Zenon
  <2>3. counters'[low] = [counters[low] EXCEPT ![IndexOf[low][wfp]] = @ + 1]
    BY <1>1, <1>2, <2>1, Zenon
  <2>4. counters[low] \in [Indices -> 0..Max]
    BY <1>2, <2>1, Zenon
  <2> QED BY <1>2, <1>4, <2>2, <2>3, <2>4, ZenonT(30) DEF read
<1>6. /\ g = wfp /\ row \notin todo' => read(row, g)' = exact[g] + 1
      /\ ~(g = wfp /\ row \notin todo') => read(row, g)' = exact[g]
  BY <1>1, <1>3, <1>5, Zenon
<1>7. CASE todo' # {}
  BY <1>1, <1>6, <1>7, Zenon DEF Ahead, Late
<1>8. CASE todo' = {}
  <2>1. exact \in [Fingerprints -> 0..Max] /\ exact[g] \in 0..Max /\ Max \in Nat
    BY SketchAssumption, Zenon DEF Inv, TypeOK
  <2>2. g = wfp => exact[g] + 1 \in 0..Max
    <3>1. read(row, g)' \in 0..Max
      <4>1. TypeOK'
        BY RaiseStep, Zenon DEF Inv
      <4> QED BY <1>4, <4>1, ZenonT(30) DEF TypeOK, read
    <3> QED BY <1>6, <1>8, <3>1, Zenon
  <2>3. counted(wfp)[g] = IF g = wfp THEN exact[g] + 1 ELSE exact[g]
    BY <1>2, <2>1, <2>2, SMTT(30) DEF counted, min
  <2> QED BY <1>1, <1>6, <1>8, <2>3, Zenon DEF Ahead, Late
<1> QED BY <1>7, <1>8, Zenon

\* Halving begins: everything is late.
LEMMA AloneHalve ==
  ASSUME Inv, AloneInv, Halve
  PROVE  AloneInv'
<1>1. /\ wpc = "idle" /\ wpc' = "halve" /\ at' = <<0, 0>> /\ UNCHANGED counters
      /\ \A fp \in Fingerprints : exact'[fp] = exact[fp] \div 2
  BY Zenon DEF Halve, Account
<1>2. \A row \in Rows, fp \in Fingerprints : Pending(row, IndexOf[row][fp])'
  <2>1. \A row \in Rows, fp \in Fingerprints : wordOf(IndexOf[row][fp]) \in 0..lastWord
    BY IndexType, WordType, Zenon
  <2>2. \A row \in Rows : row \in Nat
    BY SketchAssumption, SMTT(30) DEF Rows
  <2> QED BY <1>1, <2>1, <2>2, WordType DEF Pending, wordOf
<1>3. \A fp \in Fingerprints, row \in Rows : alone(fp, row) => read(row, fp) = exact[fp]
  BY <1>1, Zenon DEF AloneInv, Ahead, Late
<1> QED
  BY <1>1, <1>2, <1>3, ZenonT(30) DEF AloneInv, Ahead, Late, alone, read

\* A word is halved: its counters are late no more, and no other counter stops
\* being late, since the last word is the only one late at the end.
LEMMA AloneHalveWord ==
  ASSUME Inv, AloneInv, HalveWord
  PROVE  AloneInv'
<1>1. /\ at[1] \in Rows /\ at[2] \in 0..lastWord /\ lastWord \in Nat
      /\ at = <<at[1], at[2]>>
  BY WordType DEF Inv, TypeOK
<1>2. /\ wpc = "halve" /\ counters' = halved(at[1], at[2]) /\ UNCHANGED exact
      /\ \/ wpc' = "halve" /\ at[2] < lastWord /\ at' = <<at[1], at[2] + 1>>
         \/ /\ wpc' = "halve" /\ at[2] = lastWord /\ at[1] < Depth - 1
            /\ at' = <<at[1] + 1, 0>>
         \/ wpc' = "idle" /\ at[2] = lastWord /\ at[1] = Depth - 1
  BY Zenon DEF HalveWord
<1> SUFFICES ASSUME NEW fp \in Fingerprints, NEW row \in Rows, alone(fp, row)
             PROVE  /\ Late(fp, row)' => exact[fp] = read(row, fp)' \div 2
                    /\ ~Late(fp, row)' => read(row, fp)' = exact[fp]
  BY <1>2, ZenonT(30) DEF AloneInv, alone, Ahead
<1> DEFINE idx == IndexOf[row][fp]
<1>3. idx \in Indices /\ wordOf(idx) \in 0..lastWord
  BY IndexType, WordType, Zenon
<1>4. /\ Pending(row, idx) => exact[fp] = counters[row][idx] \div 2
      /\ ~Pending(row, idx) => counters[row][idx] = exact[fp]
  BY <1>2, Zenon DEF AloneInv, Ahead, Late, read
<1>5. counters'[row][idx] = IF row = at[1] /\ wordOf(idx) = at[2]
                            THEN counters[row][idx] \div 2 ELSE counters[row][idx]
  BY <1>1, <1>2, <1>3, HalvedType DEF Inv
<1>6. /\ read(row, fp)' = counters'[row][idx]
      /\ Late(fp, row)' <=> wpc' = "halve" /\ Pending(row, idx)'
  BY Zenon DEF read, Late
<1> HIDE DEF idx
<1>7. CASE row = at[1] /\ wordOf(idx) = at[2]
  <2>1. Pending(row, idx)
    BY <1>1, <1>3, <1>7 DEF Pending
  <2>2. wpc' = "halve" => ~Pending(row, idx)'
    BY <1>1, <1>2, <1>3, <1>7, SMTT(30) DEF Pending, Rows, wordOf
  <2> QED BY <1>4, <1>5, <1>6, <1>7, <2>1, <2>2, Zenon
<1>8. CASE ~(row = at[1] /\ wordOf(idx) = at[2])
  <2>1. (wpc' = "halve" /\ Pending(row, idx)') <=> Pending(row, idx)
    BY <1>1, <1>2, <1>3, <1>8, SketchAssumption, SMTT(30)
       DEF Pending, Rows, wordOf
  <2> QED BY <1>4, <1>5, <1>6, <1>8, <2>1, Zenon
<1> QED BY <1>7, <1>8, Zenon

\* Sketch.ExactWhenAlone holds for ever: between two operations of the drainer,
\* a counter that a fingerprint has to itself is its exact count.
THEOREM ExactWhenAloneHolds == Spec => []ExactWhenAlone
<1>1. Init => AloneInv
  <2> SUFFICES ASSUME Init PROVE AloneInv
    BY Zenon
  <2>1. \A fp \in Fingerprints, row \in Rows : read(row, fp) = 0 /\ exact[fp] = 0
    BY IndexType, Zenon DEF Init, read
  <2> QED BY <2>1, Zenon DEF Init, AloneInv, Ahead, Late
<1>2. Inv /\ AloneInv /\ [Next]_vars => AloneInv'
  <2> SUFFICES ASSUME Inv, AloneInv, [Next]_vars PROVE AloneInv'
    BY Zenon
  <2>1. ASSUME UNCHANGED drainer PROVE AloneInv'
    BY <2>1, SMTT(30)
       DEF drainer, AloneInv, Ahead, Late, Pending, alone, read, wordOf
  <2>2. ASSUME NEW e \in Estimators,
               EstimateRead(e) \/ \E fp \in Fingerprints : Estimate(e, fp)
        PROVE  UNCHANGED drainer
    BY <2>2, Zenon DEF EstimateRead, EstimateRow, Estimate
  <2>3. CASE Next
    BY <2>1, <2>2, <2>3, AloneIncrement, AloneRaise, AloneHalve,
       AloneHalveWord, Zenon DEF Next
  <2>4. CASE UNCHANGED vars
    BY <2>1, <2>4, Zenon DEF vars
  <2> QED BY <2>3, <2>4, Zenon
<1>3. AloneInv => ExactWhenAlone
  BY Zenon DEF AloneInv, ExactWhenAlone, Ahead, Late
<1> QED
  BY <1>1, <1>2, <1>3, InvHolds, PTL DEF Spec
=============================================================================
