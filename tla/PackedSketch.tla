---------------------------- MODULE PackedSketch ----------------------------
(***************************************************************************)
(* The words behind the counters of Sketch: 4-bit counters packed into     *)
(* unsigned integers.  A counter is read by a shift and a mask and raised  *)
(* by adding to its whole word, and one shift of a word halves all that it *)
(* holds.                                                                  *)
(*                                                                         *)
(* The source has 16 counters of 4 bits in a word of 64.  A counter only   *)
(* ever touches its neighbours, so fewer and narrower ones show the same.  *)
(***************************************************************************)
EXTENDS Sketch, Bitwise

CONSTANT NibbleBits   \* bits of a counter (4)

ASSUME PackedAssumption == NibbleBits \in Nat \ {0} /\ Max = 2^NibbleBits - 1

VARIABLE words        \* words[row][word]

pvars == <<vars, words>>

wordSize == 2^(NibbleBits * PerWord)

\* 0x7...7: all but the highest bit of every counter.
halfNibbles == (2^(NibbleBits - 1) - 1) * ((wordSize - 1) \div Max)

shift(idx) == (idx % PerWord) * NibbleBits

readWord(w, idx) == shiftR(w, shift(idx)) & Max

\* w.Load() + 1<<shift, in an unsigned integer.
raised(w, idx) == (w + 2^shift(idx)) % wordSize

\* Mutant: halving without the mask.
halvedUnmasked(w) == shiftR(w, 1)

halvedWord(w) == shiftR(w, 1) & halfNibbles

PInit == Init /\ words = [row \in Rows |-> [word \in 0..lastWord |-> 0]]

RaiseWord ==
  /\ Raise
  /\ \E row \in todo \ todo' :
       LET idx == IndexOf[row][wfp]
       IN  words' = [words EXCEPT ![row][wordOf(idx)] = raised(@, idx)]

HalvePacked ==
  /\ HalveWord
  /\ words' = [words EXCEPT ![at[1]][at[2]] = halvedWord(@)]

PNext ==
  \/ RaiseWord \/ HalvePacked
  \/ /\ \/ Halve \/ \E fp \in Fingerprints : Increment(fp)
        \/ \E e \in Estimators :
             EstimateRead(e) \/ \E fp \in Fingerprints : Estimate(e, fp)
     /\ UNCHANGED words

PSpec == PInit /\ [][PNext]_pvars

-----------------------------------------------------------------------------

\* The packed words behave like separate counters: a raise never carries into
\* the neighbour (sketch.go:85), and the shift that halves a word never moves
\* a bit into the counter below.
WordsAgree ==
  \A row \in Rows, idx \in Indices :
    readWord(words[row][wordOf(idx)], idx) = counters[row][idx]
=============================================================================
