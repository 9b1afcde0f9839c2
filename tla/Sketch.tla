------------------------------- MODULE Sketch -------------------------------
(***************************************************************************)
(* The Count-Min sketch of internal/tinylfu: the drainer increments and    *)
(* halves it, counter by counter and word by word, while goroutines on the *)
(* eviction path estimate frequencies from it, counter by counter.  There  *)
(* is no lock: every word is loaded and stored atomically.                 *)
(*                                                                         *)
(* Counters are numbers here; that the nibbles of a packed word behave     *)
(* like them is the subject of PackedSketch.                               *)
(***************************************************************************)
EXTENDS Integers

CONSTANTS
  Estimators,    \* goroutines that call Estimate
  Fingerprints,
  Depth,         \* rows (depth)
  Width,         \* counters per row
  PerWord,       \* counters in a word (nibblesPerWord)
  Max,           \* where a counter saturates (nibbleMax)
  IndexOf        \* IndexOf[row][fp]: counterIndex

Rows == 0..(Depth - 1)
Indices == 0..(Width - 1)

ASSUME SketchAssumption ==
  /\ Depth \in Nat \ {0} /\ Width \in Nat \ {0} /\ PerWord \in Nat \ {0}
  /\ Max \in Nat
  /\ IndexOf \in [Rows -> [Fingerprints -> Indices]]

VARIABLES
  counters,  \* counters[row][idx]
  wpc,       \* the drainer: "idle", "raise" or "halve"
  wfp,       \* increment: its fingerprint...
  todo,      \* ...and the rows it still has to raise
  at,        \* halve: the next word, <<row, word>>
  epc,       \* an estimator: "idle", "read" or "done"
  efp,       \* its fingerprint
  erow,      \* the next row it reads
  elo,       \* the least counter it has read, and its answer at "done"
  exact,     \* history: exact[fp], the increments of fp, saturated and halved
             \* like a counter of its own
  floor      \* history: the least exact[efp[e]] since e's call began

drainer == <<counters, wpc, wfp, todo, at, exact>>
estimators == <<epc, efp, erow, elo>>
vars == <<drainer, estimators, floor>>

read(row, fp) == counters[row][IndexOf[row][fp]]
wordOf(idx) == idx \div PerWord
lastWord == wordOf(Width - 1)
min(a, b) == IF a <= b THEN a ELSE b

Init ==
  /\ counters = [row \in Rows |-> [idx \in Indices |-> 0]]
  /\ wpc = "idle" /\ wfp \in Fingerprints /\ todo = {} /\ at = <<0, 0>>
  /\ epc = [e \in Estimators |-> "idle"]
  /\ efp \in [Estimators -> Fingerprints]
  /\ erow = [e \in Estimators |-> 0]
  /\ elo = [e \in Estimators |-> Max]
  /\ exact = [fp \in Fingerprints |-> 0]
  /\ floor = [e \in Estimators |-> 0]

\* What the exact counts become, seen by the estimates under way.
Account(x) ==
  /\ exact' = x
  /\ floor' = [e \in Estimators |-> min(floor[e], x[efp[e]])]

-----------------------------------------------------------------------------
(* The drainer. *)

\* The exact count of fp, one increment later.
counted(fp) == [exact EXCEPT ![fp] = min(@ + 1, Max)]

\* The rows where the counter of fp is least.
lowest(fp) == {row \in Rows : \A other \in Rows : read(row, fp) <= read(other, fp)}

\* increment reads the counters of fp, which nobody else writes, and raises
\* the given rows; when the least counter is saturated there is nothing to do.
IncrementRows(fp, rows, saturated) ==
  /\ wpc = "idle"
  /\ wfp' = fp
  /\ \/ /\ saturated
        /\ Account(counted(fp))
        /\ UNCHANGED <<wpc, todo>>
     \/ /\ ~saturated
        /\ todo' = rows
        /\ wpc' = "raise"
        /\ UNCHANGED <<exact, floor>>
  /\ UNCHANGED <<counters, at, estimators>>

\* Mutant: only the first of the least counters is raised.
IncrementFirst(fp) ==
  IncrementRows(fp, {row \in lowest(fp) : \A other \in lowest(fp) : row <= other},
                \A row \in Rows : read(row, fp) >= Max)

Increment(fp) ==
  IncrementRows(fp, lowest(fp), \A row \in Rows : read(row, fp) >= Max)

\* raise, on the rows at the minimum from the first to the last.  With the
\* last one the increment has been made.
Raise ==
  \E row \in todo :
    /\ wpc = "raise"
    /\ \A other \in todo : row <= other
    /\ counters' = [counters EXCEPT ![row][IndexOf[row][wfp]] = @ + 1]
    /\ todo' = todo \ {row}
    /\ \/ /\ todo' # {}
          /\ UNCHANGED <<wpc, exact, floor>>
       \/ /\ todo' = {}
          /\ wpc' = "idle"
          /\ Account(counted(wfp))
    /\ UNCHANGED <<wfp, at, estimators>>

Halve ==
  /\ wpc = "idle"
  /\ wpc' = "halve"
  /\ at' = <<0, 0>>
  /\ Account([fp \in Fingerprints |-> exact[fp] \div 2])
  /\ UNCHANGED <<counters, wfp, todo, estimators>>

\* The counters once the word at <<row, word>> has been halved: one store
\* halves all the counters of the word.
halved(row, word) ==
  [counters EXCEPT ![row] =
     [idx \in Indices |-> IF wordOf(idx) = word
                          THEN counters[row][idx] \div 2
                          ELSE counters[row][idx]]]

\* Mutant: only the first row is halved.
HalveFirstRow ==
  /\ wpc = "halve"
  /\ counters' = halved(at[1], at[2])
  /\ at' = <<0, IF at[2] = lastWord THEN 0 ELSE at[2] + 1>>
  /\ wpc' = IF at[2] = lastWord THEN "idle" ELSE "halve"
  /\ UNCHANGED <<wfp, todo, exact, estimators, floor>>

\* Row by row, and in a row word by word.
HalveWord ==
  /\ wpc = "halve"
  /\ counters' = halved(at[1], at[2])
  /\ \/ /\ at[2] < lastWord
        /\ at' = <<at[1], at[2] + 1>>
        /\ UNCHANGED wpc
     \/ /\ at[2] = lastWord /\ at[1] < Depth - 1
        /\ at' = <<at[1] + 1, 0>>
        /\ UNCHANGED wpc
     \/ /\ at[2] = lastWord /\ at[1] = Depth - 1
        /\ wpc' = "idle"
        /\ at' = <<0, 0>>
  /\ UNCHANGED <<wfp, todo, exact, estimators, floor>>

-----------------------------------------------------------------------------
(* Estimate. *)

Estimate(e, fp) ==
  /\ epc[e] # "read"
  /\ epc' = [epc EXCEPT ![e] = "read"]
  /\ efp' = [efp EXCEPT ![e] = fp]
  /\ erow' = [erow EXCEPT ![e] = 0]
  /\ elo' = [elo EXCEPT ![e] = Max]
  /\ floor' = [floor EXCEPT ![e] = exact[fp]]
  /\ UNCHANGED drainer

\* The next row of e's loop, which has read the counter c.
EstimateRow(e, c) ==
  /\ epc[e] = "read"
  /\ elo' = [elo EXCEPT ![e] = min(@, c)]
  /\ \/ /\ erow[e] < Depth - 1
        /\ erow' = [erow EXCEPT ![e] = @ + 1]
        /\ UNCHANGED epc
     \/ /\ erow[e] = Depth - 1
        /\ epc' = [epc EXCEPT ![e] = "done"]
        /\ UNCHANGED erow
  /\ UNCHANGED <<drainer, efp, floor>>

\* Mutant: the index of the first row serves for all of them.
EstimateOneIndex(e) ==
  EstimateRow(e, counters[erow[e]][IndexOf[0][efp[e]]])

EstimateRead(e) == EstimateRow(e, read(erow[e], efp[e]))

Next ==
  \/ \E fp \in Fingerprints : Increment(fp)
  \/ Raise \/ Halve \/ HalveWord
  \/ \E e \in Estimators :
       EstimateRead(e) \/ \E fp \in Fingerprints : Estimate(e, fp)

Spec == Init /\ [][Next]_vars

-----------------------------------------------------------------------------
(* Properties. *)

\* Types.  A counter stays within its nibble: raise "MUST" only be called on
\* one below nibbleMax (sketch.go:85), or it carries into its neighbour.
TypeOK ==
  /\ counters \in [Rows -> [Indices -> 0..Max]]
  /\ wpc \in {"idle", "raise", "halve"} /\ wfp \in Fingerprints
  /\ todo \subseteq Rows
  /\ at \in Rows \X (0..lastWord)
  /\ epc \in [Estimators -> {"idle", "read", "done"}]
  /\ efp \in [Estimators -> Fingerprints] /\ erow \in [Estimators -> Rows]
  /\ elo \in [Estimators -> 0..Max]
  /\ exact \in [Fingerprints -> 0..Max] /\ floor \in [Estimators -> 0..Max]

\* The sketch never undercounts: every counter of fp is at least the number of
\* increments of fp, in the middle of an increment or of a halving too.
NeverUnder == \A fp \in Fingerprints, row \in Rows : exact[fp] <= read(row, fp)

\* An estimate that reads row by row while the drainer raises and halves is at
\* least the least exact count of its fingerprint while it ran.
EstimateNeverUnder == \A e \in Estimators : epc[e] = "done" => floor[e] <= elo[e]

\* fp has its counter in this row to itself.
alone(fp, row) ==
  \A other \in Fingerprints \ {fp} : IndexOf[row][other] # IndexOf[row][fp]

\* Conservative update costs nothing where there is no collision: a counter
\* that fp has to itself is exact between two operations of the drainer, so
\* one such row makes the estimate of fp exact.
ExactWhenAlone ==
  wpc = "idle" =>
    \A fp \in Fingerprints, row \in Rows :
      alone(fp, row) => read(row, fp) = exact[fp]
=============================================================================
