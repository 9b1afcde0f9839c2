---------------------------- MODULE PolicyProofs ----------------------------
(***************************************************************************)
(* Proofs about Policy, for any number of recorders, tuners and stripes,   *)
(* any depth, any widths and any hash to doorkeeper bits.                  *)
(***************************************************************************)
EXTENDS Policy, FiniteSetTheorems, FunctionTheorems, TLAPS

\* The stripe of a fingerprint exists.
LEMMA StripeOfType ==
  \A fp \in Fingerprints : stripeOf(fp) \in Stripes
BY PolicyAssumption DEF stripeOf, Stripes

\* The drainer's locals between two drains are well typed.
LEMMA NoLocalsType ==
  NoLocals \in Locals
BY PolicyAssumption DEF Locals, NoLocals, Generations

\* Every step of a push keeps the types and the bound on the stripes: the
\* append is guarded by the room that is left, under the stripe's mutex.
LEMMA PushTypes ==
  ASSUME TypeOK, NEW r \in Recorders, Push(r)
  PROVE  TypeOK'
<1> USE DEF TypeOK
<1>1. CASE PushTryLock(r)
  <2> DEFINE s == stripeOf(rfp[r])
  <2>1. s \in Stripes
    BY StripeOfType, Zenon
  <2>2. /\ locked' = locked \/ locked' = locked \cup {s}
        /\ rpc' \in [Recorders -> {"idle", "tryLock", "append", "wake"}]
        /\ UNCHANGED <<active, buf, wake, sk, dk, width, incs, door, incrs,
                       rfp, tpc, cpc, dpc, d, owed, early>>
    BY <1>1, Zenon DEF PushTryLock, objects, history
  <2> HIDE DEF s
  <2>3. locked' \subseteq Stripes
    BY <2>1, <2>2, Zenon
  <2> QED
    BY <2>2, <2>3, Zenon
<1>2. CASE PushAppend(r)
  <2> DEFINE s == stripeOf(rfp[r])
             n == Len(buf[s])
  <2>1. PushBody(r, n < Depth, n + 1 >= Depth)
    BY <1>2, Zenon DEF PushAppend
  <2>2. s \in Stripes /\ n \in Nat /\ n <= Depth /\ buf[s] \in Seq(Fingerprints)
    <3>1. rfp[r] \in Fingerprints
      BY Zenon
    <3>2. s \in Stripes
      BY <3>1, StripeOfType, Zenon
    <3> HIDE DEF s
    <3>3. buf[s] \in Seq(Fingerprints) /\ n <= Depth
      BY <3>2, Zenon
    <3> QED BY <3>2, <3>3
  <2>3. CASE ~(n < Depth)
    BY <2>1, <2>2, <2>3, ZenonT(30) DEF PushBody, objects
  <2>4. CASE n < Depth
    <3>1. /\ buf' = [buf EXCEPT ![s] = Append(@, rfp[r])]
          /\ owed' = [owed EXCEPT ![rfp[r]] = @ + 1]
          /\ rpc' = [rpc EXCEPT ![r] = IF n + 1 >= Depth THEN "wake"
                                                         ELSE "idle"]
          /\ locked' = locked \ {s}
          /\ UNCHANGED <<active, wake, objects, rfp, tpc, cpc, dpc, d, early>>
      BY <2>1, <2>4, Zenon DEF PushBody
    <3> HIDE DEF s
    <3>2. /\ Append(buf[s], rfp[r]) \in Seq(Fingerprints)
          /\ Len(Append(buf[s], rfp[r])) = n + 1
      BY <2>2
    <3>3. \A q \in Stripes : Len(buf'[q]) <= Depth
      BY <3>1, <3>2, <2>2, <2>4, PolicyAssumption
    <3>4. buf' \in [Stripes -> Seq(Fingerprints)]
      BY <3>1, <3>2, <2>2, Zenon
    <3>5. rpc' \in [Recorders -> {"idle", "tryLock", "append", "wake"}]
      BY <3>1, Zenon
    <3>6. owed' \in [Fingerprints -> Int]
      BY <3>1
    <3>7. locked' \subseteq Stripes
      BY <3>1, Zenon
    <3>8. UNCHANGED <<active, wake, sk, dk, width, incs, door, incrs, rfp, tpc,
                      cpc, dpc, d, early>>
      BY <3>1, Zenon DEF objects
    <3> QED
      BY <3>3, <3>4, <3>5, <3>6, <3>7, <3>8, Zenon
  <2> QED BY <2>3, <2>4, Zenon
<1>3. CASE PushWake(r)
  BY <1>3, Zenon DEF PushWake, objects, history
<1> QED BY <1>1, <1>2, <1>3, Zenon DEF Push

\* Every step of the drainer keeps the types.
LEMMA DrainTypes ==
  ASSUME TypeOK, Drain \/ SelectTick
  PROVE  TypeOK'
<1> USE DEF TypeOK
<1>1. ASSUME NEW then \in {"select", "exited"}, Selected(then), wake' \in BOOLEAN
      PROVE  TypeOK'
  <2>1. d' \in Locals
    BY <1>1, NoLocalsType, Zenon DEF Selected, Locals
  <2> QED BY <1>1, <2>1, Zenon DEF Selected, objects, history
<1>2. CASE SelectDone
  BY <1>1, <1>2, Zenon DEF SelectDone
<1>3. CASE SelectWake
  BY <1>1, <1>3, Zenon DEF SelectWake
<1>4. CASE SelectTick
  BY <1>1, <1>4, Zenon DEF SelectTick
<1>5. CASE LoadDoorkeeper
  BY <1>5, Zenon DEF LoadDoorkeeper, Locals, objects, history
<1>6. CASE DrainLock
  <2>1. d.i \in Stripes
    BY <1>6, PolicyAssumption DEF DrainLock, Locals, Stripes
  <2> QED
    BY <1>6, <2>1, Zenon DEF DrainLock, objects, history
<1>7. CASE DrainTake
  <2>1. /\ d.i \in 0..NStripes - 1 /\ d.i \in Stripes
        /\ buf[d.i] \in Seq(Fingerprints)
    BY <1>7, Zenon DEF DrainTake, Stripes
  <2>2. d' \in Locals
    <3>1. d.i + 1 \in 0..NStripes
      BY <2>1, PolicyAssumption, SMTT(30)
    <3>2. d' = [d EXCEPT !.scratch = buf[d.i], !.i = d.i + 1]
      BY <1>7, Zenon DEF DrainTake
    <3>3. d \in Locals
      BY Zenon
    <3> QED BY <2>1, <3>1, <3>2, <3>3, Zenon DEF Locals
  <2>3. /\ buf' \in [Stripes -> Seq(Fingerprints)]
        /\ \A s \in Stripes : Len(buf'[s]) <= Depth
    BY <1>7, <2>1, PolicyAssumption, SMTT(30) DEF DrainTake
  <2> QED
    BY <1>7, <2>2, <2>3, Zenon DEF DrainTake, objects, history
<1>8. CASE Fold
  <2> DEFINE aging == incrs + 1 >= width[d.sk]
             fp == Head(d.scratch)
  <2>1. FoldOne(aging)
    BY <1>8, Zenon DEF Fold
  <2> HIDE DEF aging
  <2>2. fp \in Fingerprints /\ d' \in Locals
    <3>1. d.scratch \in Seq(Fingerprints) /\ d.scratch # <<>>
      BY <2>1, Zenon DEF FoldOne, Locals
    <3>2. fp \in Fingerprints /\ Tail(d.scratch) \in Seq(Fingerprints)
      BY <3>1
    <3>3. d' = [d EXCEPT !.scratch = Tail(d.scratch)]
      BY <2>1, Zenon DEF FoldOne
    <3> QED BY <3>2, <3>3, Zenon DEF Locals
  <2>3. /\ owed' \in [Fingerprints -> Int]
        /\ early' \in [Fingerprints -> Int]
    BY <2>1, <2>2, SMTT(30) DEF FoldOne
  <2>4. BitsOf[fp] \subseteq Bits
    BY <2>2, PolicyAssumption, Zenon
  <2>5. /\ incs' \in [Generations -> Nat] /\ incrs' \in Nat
        /\ door' \in [Generations -> SUBSET Bits]
    BY <2>1, <2>4, SMTT(30) DEF FoldOne
  <2> QED
    BY <2>1, <2>2, <2>3, <2>5, Zenon DEF FoldOne
<1>9. CASE DrainEnd
  BY <1>9, NoLocalsType, Zenon DEF DrainEnd, Locals, objects, history
<1> QED
  BY <1>2, <1>3, <1>4, <1>5, <1>6, <1>7, <1>8, <1>9, Zenon DEF Drain

\* Every step keeps the types.
LEMMA TypeStep == TypeOK /\ [Next]_vars => TypeOK'
<1> SUFFICES ASSUME TypeOK, [Next]_vars PROVE TypeOK'
  BY Zenon
<1> USE DEF TypeOK
<1>1. ASSUME NEW r \in Recorders, Push(r) PROVE TypeOK'
  BY <1>1, PushTypes, Zenon
<1>2. ASSUME NEW r \in Recorders, NEW fp \in Fingerprints, Record(r, fp)
      PROVE  TypeOK'
  BY <1>2, Zenon DEF Record, objects, history
<1>3. ASSUME NEW on \in BOOLEAN, SetActive(on) PROVE TypeOK'
  BY <1>3, Zenon DEF SetActive, objects, history
<1>4. ASSUME NEW t \in Tuners, ResizeDoorkeeper(t) PROVE TypeOK'
  BY <1>4 DEF ResizeDoorkeeper, history
<1>5. ASSUME NEW t \in Tuners, NEW w \in Widths, ResizeSketch(t, w)
      PROVE  TypeOK'
  <2>1. sk' \in Generations
    BY <1>5, PolicyAssumption DEF ResizeSketch, Generations
  <2> QED
    BY <1>5, <2>1, Zenon DEF ResizeSketch, history
<1>6. CASE Close
  BY <1>6, Zenon DEF Close, objects
<1>7. CASE CloseJoin
  BY <1>7, Zenon DEF CloseJoin, objects, history
<1>8. CASE Drain \/ SelectTick
  BY <1>8, DrainTypes, Zenon
<1>9. CASE UNCHANGED vars
  BY <1>9, Zenon DEF vars, objects, history
<1> QED
  BY <1>1, <1>2, <1>3, <1>4, <1>5, <1>6, <1>7, <1>8, <1>9, Zenon DEF Next

\* Policy.TypeOK holds for ever; in particular no stripe outgrows its depth.
THEOREM TypeCorrect == Spec => []TypeOK
<1>1. Init => TypeOK
  <2> SUFFICES ASSUME Init PROVE TypeOK
    BY Zenon
  <2>1. \A s \in Stripes : buf[s] = <<>> /\ Len(buf[s]) <= Depth
    BY PolicyAssumption DEF Init
  <2>2. d \in Locals /\ dpc = "select"
    BY NoLocalsType, Zenon DEF Init
  <2>3. sk \in Generations /\ dk \in Nat
    BY PolicyAssumption DEF Init, Generations
  <2> QED
    BY <2>1, <2>2, <2>3, PolicyAssumption DEF Init, TypeOK
<1> QED
  BY <1>1, TypeStep, PTL DEF Spec

-----------------------------------------------------------------------------
(* No lost wakeups. *)

\* A drain starts with the first stripe.
DrainStart == dpc = "loadDoor" => d.i = 0

\* A step that leaves the stripes, the token and the drainer alone, and takes
\* no recorder away from its send, loses no wakeup.
LEMMA SignalKept ==
  ASSUME FullStripeSignalled, UNCHANGED <<buf, wake, dpc, d>>,
         \A r \in Recorders : rpc[r] = "wake" => rpc'[r] = "wake"
  PROVE  FullStripeSignalled'
BY Zenon DEF FullStripeSignalled, Signalled

\* Every step keeps FullStripeSignalled: the push that fills a stripe has its
\* send to come, the receive that takes the token starts a drain of all the
\* stripes, and the drain passes a stripe only by emptying it.
LEMMA SignalStep ==
  TypeOK /\ DrainStart /\ FullStripeSignalled /\ [Next]_vars
    => DrainStart' /\ FullStripeSignalled'
<1> SUFFICES ASSUME TypeOK, DrainStart, FullStripeSignalled, [Next]_vars
             PROVE  DrainStart' /\ FullStripeSignalled'
  BY Zenon
<1>1. ASSUME NEW r \in Recorders, PushTryLock(r)
      PROVE  DrainStart' /\ FullStripeSignalled'
  <2>1. \A q \in Recorders : rpc[q] = "wake" => rpc'[q] = "wake"
    BY <1>1, Zenon DEF PushTryLock, TypeOK
  <2> QED
    BY <1>1, <2>1, SignalKept, Zenon DEF PushTryLock, DrainStart
<1>2. ASSUME NEW r \in Recorders, PushAppend(r)
      PROVE  DrainStart' /\ FullStripeSignalled'
  <2> DEFINE s == stripeOf(rfp[r])
             n == Len(buf[s])
  <2>1. PushBody(r, n < Depth, n + 1 >= Depth)
    BY <1>2, Zenon DEF PushAppend
  <2>2. /\ s \in Stripes /\ n \in Nat /\ Depth \in Nat
        /\ buf[s] \in Seq(Fingerprints) /\ rfp[r] \in Fingerprints
    <3>1. rfp[r] \in Fingerprints
      BY Zenon DEF TypeOK
    <3>2. s \in Stripes
      BY <3>1, StripeOfType, Zenon
    <3> HIDE DEF s
    <3>3. buf[s] \in Seq(Fingerprints)
      BY <3>2, Zenon DEF TypeOK
    <3> QED BY <3>1, <3>2, <3>3, PolicyAssumption, SMTT(30)
  <2>3. \A q \in Recorders : rpc[q] = "wake" => rpc'[q] = "wake"
    BY <2>1, Zenon DEF PushBody, TypeOK
  <2>4. UNCHANGED <<wake, dpc, d>>
    BY <2>1, Zenon DEF PushBody
  <2>5. CASE ~(n < Depth)
    <3>1. UNCHANGED buf
      BY <2>1, <2>5, Zenon DEF PushBody
    <3> QED
      BY <3>1, <2>3, <2>4, SignalKept, Zenon DEF DrainStart
  <2>6. CASE n < Depth
    <3>1. /\ buf' = [buf EXCEPT ![s] = Append(buf[s], rfp[r])]
          /\ n + 1 >= Depth => rpc'[r] = "wake"
      BY <2>1, <2>6, Zenon DEF PushBody, TypeOK
    <3> HIDE DEF s
    <3>2. Len(buf'[s]) = n + 1
      BY <3>1, <2>2 DEF TypeOK
    <3>3. \A q \in Stripes \ {s} : buf'[q] = buf[q]
      BY <3>1, Zenon DEF TypeOK
    <3>4. CASE n + 1 >= Depth
      BY <3>1, <3>4, <2>4, Zenon DEF FullStripeSignalled, Signalled, DrainStart
    <3>5. CASE ~(n + 1 >= Depth)
      <4>1. \A q \in Stripes : Len(buf'[q]) >= Depth => Len(buf[q]) >= Depth
        BY <3>2, <3>3, <3>5, <2>2, Zenon
      <4> QED
        BY <4>1, <2>3, <2>4, Zenon
           DEF FullStripeSignalled, Signalled, DrainStart
    <3> QED BY <3>4, <3>5, Zenon
  <2> QED BY <2>5, <2>6, Zenon
<1>3. ASSUME NEW r \in Recorders, PushWake(r)
      PROVE  DrainStart' /\ FullStripeSignalled'
  BY <1>3, Zenon DEF PushWake, FullStripeSignalled, Signalled, DrainStart
<1>4. ASSUME NEW r \in Recorders, NEW fp \in Fingerprints, Record(r, fp)
      PROVE  DrainStart' /\ FullStripeSignalled'
  <2>1. \A q \in Recorders : rpc[q] = "wake" => rpc'[q] = "wake"
    BY <1>4, Zenon DEF Record, TypeOK
  <2> QED
    BY <1>4, <2>1, SignalKept, Zenon DEF Record, DrainStart
<1>5. CASE \/ \E on \in BOOLEAN : SetActive(on)
           \/ \E t \in Tuners :
                ResizeDoorkeeper(t) \/ \E w \in Widths : ResizeSketch(t, w)
           \/ Close \/ CloseJoin \/ UNCHANGED vars
  <2>1. UNCHANGED <<buf, wake, dpc, d, rpc>>
    BY <1>5, Zenon
       DEF SetActive, ResizeDoorkeeper, ResizeSketch, Close, CloseJoin, vars
  <2> QED
    BY <2>1, SignalKept, Zenon DEF DrainStart
<1>6. CASE SelectDone \/ SelectWake \/ SelectTick
  <2>1. dpc' = "loadDoor" /\ d'.i = 0
    BY <1>6, Zenon DEF SelectDone, SelectWake, SelectTick, Selected, NoLocals
  <2> QED
    BY <2>1, Zenon DEF FullStripeSignalled, Signalled, DrainStart
<1>7. CASE LoadDoorkeeper
  <2>1. dpc' = "drain" /\ d'.i = 0
    BY <1>7, Zenon DEF LoadDoorkeeper, DrainStart, TypeOK, Locals
  <2>2. \A s \in Stripes : d'.i <= s
    BY <2>1 DEF Stripes
  <2> QED
    BY <2>1, <2>2, Zenon DEF FullStripeSignalled, Signalled, DrainStart
<1>8. CASE DrainLock
  BY <1>8, Zenon DEF DrainLock, FullStripeSignalled, Signalled, DrainStart
<1>9. CASE DrainTake
  <2>1. /\ d.i \in Stripes /\ dpc = "take" /\ dpc' = "drain"
        /\ d'.i = d.i + 1 /\ buf' = [buf EXCEPT ![d.i] = <<>>]
        /\ UNCHANGED <<wake, rpc>>
    BY <1>9, Zenon DEF DrainTake, TypeOK, Locals
  <2>2. Len(buf'[d.i]) < Depth
    BY <2>1, PolicyAssumption DEF TypeOK
  <2>3. \A s \in Stripes \ {d.i} : buf'[s] = buf[s]
    BY <2>1, Zenon DEF TypeOK
  <2>4. \A s \in Stripes \ {d.i} : d.i <= s => d'.i <= s
    BY <2>1, PolicyAssumption DEF Stripes
  <2>5. ASSUME NEW s \in Stripes, Len(buf'[s]) >= Depth
        PROVE  Signalled(s)'
    <3>1. s # d.i
      BY <2>2, <2>5, PolicyAssumption
    <3>2. Signalled(s)
      BY <3>1, <2>1, <2>3, <2>5, Zenon DEF FullStripeSignalled
    <3> QED
      BY <3>1, <3>2, <2>1, <2>4, Zenon DEF Signalled
  <2> QED
    BY <2>1, <2>5, Zenon DEF FullStripeSignalled, DrainStart
<1>10. CASE Fold
  <2>1. /\ dpc = "drain" /\ d'.i = d.i
        /\ UNCHANGED <<buf, wake, rpc, dpc>>
    BY <1>10, Zenon DEF Fold, FoldOne, TypeOK, Locals
  <2> QED
    BY <2>1, Zenon DEF FullStripeSignalled, Signalled, DrainStart
<1>11. CASE DrainEnd
  <2>1. /\ d.i = NStripes /\ dpc = "drain" /\ dpc' \in {"select", "exited"}
        /\ UNCHANGED <<buf, wake, rpc>>
    BY <1>11, Zenon DEF DrainEnd, TypeOK, Locals
  <2>2. \A s \in Stripes : ~(d.i <= s)
    BY <2>1, PolicyAssumption DEF Stripes
  <2> QED
    BY <2>1, <2>2, Zenon DEF FullStripeSignalled, Signalled, DrainStart
<1> QED
  BY <1>1, <1>2, <1>3, <1>4, <1>5, <1>6, <1>7, <1>8, <1>9, <1>10, <1>11, Zenon
     DEF Next, Push, Drain

\* Policy.FullStripeSignalled holds for ever: no interleaving of the recorders,
\* the drainer and Close loses the wakeup of a full stripe.
THEOREM NoLostWakeup == Spec => []FullStripeSignalled
<1>1. Init => DrainStart /\ FullStripeSignalled
  BY PolicyAssumption, SMTT(30) DEF Init, DrainStart, FullStripeSignalled
<1> QED
  BY <1>1, SignalStep, TypeCorrect, PTL DEF Spec

-----------------------------------------------------------------------------
(* Aging. *)

\* The drainer is between the load of its sketch and the end of the drain.
Draining == dpc \in {"loadDoor", "drain", "take"}

\* A sketch starts empty when it is published, and only the drainer's sketch
\* is ever incremented: what it has had since it was halved is within incrs,
\* which may also count increments of an earlier sketch.
AgingInv ==
  /\ AgingBounded
  /\ \A g \in Generations : g > sk => incs[g] = 0
  /\ incs[sk] <= incrs
  /\ Draining => /\ d.sk <= sk
                 /\ \A g \in Generations : g > d.sk => incs[g] = 0
                 /\ incs[d.sk] <= incrs

\* Every step keeps the aging invariant.
LEMMA AgingStep == TypeOK /\ AgingInv /\ [Next]_vars => AgingInv'
<1> SUFFICES ASSUME TypeOK, AgingInv, [Next]_vars PROVE AgingInv'
  BY Zenon
<1> USE DEF AgingInv, AgingBounded, Draining
<1>1. CASE UNCHANGED <<objects, dpc, d>>
  BY <1>1, Zenon DEF objects
<1>2. ASSUME NEW r \in Recorders,
             Push(r) \/ \E fp \in Fingerprints : Record(r, fp)
      PROVE  AgingInv'
  BY <1>1, <1>2, Zenon
     DEF Push, PushTryLock, PushAppend, PushBody, PushWake, Record
<1>3. ASSUME NEW t \in Tuners, ResizeDoorkeeper(t) PROVE AgingInv'
  BY <1>3, Zenon DEF ResizeDoorkeeper
<1>4. ASSUME NEW t \in Tuners, NEW w \in Widths, ResizeSketch(t, w)
      PROVE  AgingInv'
  <2>1. /\ sk \in Nat /\ sk + 1 \in Generations /\ sk' = sk + 1
        /\ width' = [width EXCEPT ![sk + 1] = w]
        /\ w \in Nat /\ w > 0
        /\ UNCHANGED <<incs, incrs, dpc, d>>
    BY <1>4, PolicyAssumption, SMTT(30) DEF ResizeSketch, TypeOK, Generations
  <2>2. incs[sk + 1] = 0
    BY <2>1
  <2>3. \A g \in Generations : incs'[g] < width'[g]
    BY <2>1, <2>2, Zenon DEF TypeOK
  <2>4. \A g \in Generations : g > sk' => incs'[g] = 0
    BY <2>1 DEF Generations
  <2>5. incs'[sk'] <= incrs'
    BY <2>1, <2>2 DEF TypeOK
  <2>6. Draining' => d'.sk <= sk'
    BY <2>1 DEF TypeOK, Locals, Generations
  <2> QED
    BY <2>1, <2>3, <2>4, <2>5, <2>6, Zenon
<1>5. CASE (\E on \in BOOLEAN : SetActive(on)) \/ Close \/ CloseJoin
  BY <1>1, <1>5, Zenon DEF SetActive, Close, CloseJoin
<1>6. CASE SelectDone \/ SelectWake \/ SelectTick
  <2>1. d'.sk = sk /\ UNCHANGED objects
    BY <1>6, Zenon DEF SelectDone, SelectWake, SelectTick, Selected, NoLocals
  <2> QED
    BY <2>1 DEF objects, TypeOK, Generations
<1>7. CASE LoadDoorkeeper \/ DrainLock \/ DrainTake
  <2>1. d'.sk = d.sk /\ Draining /\ UNCHANGED objects
    BY <1>7, Zenon DEF LoadDoorkeeper, DrainLock, DrainTake, TypeOK, Locals
  <2> QED
    BY <2>1, Zenon DEF objects
<1>8. CASE Fold
  <2> DEFINE g0 == d.sk
  <2>1. /\ g0 \in Generations /\ d'.sk = g0 /\ Draining
        /\ UNCHANGED <<sk, width, dpc>>
    BY <1>8, Zenon DEF Fold, FoldOne, TypeOK, Locals
  <2>2. /\ incs[g0] \in Nat /\ incrs \in Nat /\ width[g0] \in Nat
        /\ width[g0] > 0
    <3>1. incs[g0] \in Nat /\ incrs \in Nat /\ width[g0] \in Widths
      BY <2>1, Zenon DEF TypeOK
    <3>2. \A w \in Widths : w \in Nat /\ w > 0
      BY PolicyAssumption
    <3> QED BY <3>1, <3>2, Zenon
  <2>3. \/ UNCHANGED <<incs, incrs>>
        \/ /\ ~(incrs + 1 >= width[g0])
           /\ incs' = [incs EXCEPT ![g0] = incs[g0] + 1]
           /\ incrs' = incrs + 1
        \/ incs' = [incs EXCEPT ![g0] = 0] /\ incrs' = 0
    BY <1>8, Zenon DEF Fold, FoldOne
  <2>4. /\ incs'[g0] < width[g0] /\ incs'[g0] <= incrs'
        /\ \A g \in Generations \ {g0} : incs'[g] = incs[g]
    BY <2>1, <2>2, <2>3, SMTT(30) DEF TypeOK
  <2>5. \A g \in Generations : g > g0 => incs'[g] = 0
    BY <2>1, <2>4, SMTT(30) DEF Generations
  <2>6. /\ sk \in Generations /\ g0 <= sk /\ incrs' \in Nat
    BY <2>1, <2>2, <2>3, SMTT(30) DEF TypeOK
  <2>7. incs'[sk] <= incrs'
    BY <2>4, <2>5, <2>6, <2>1, SMTT(30) DEF Generations
  <2>8. \A g \in Generations : g > sk => incs'[g] = 0
    BY <2>5, <2>6, <2>1, SMTT(30) DEF Generations
  <2> QED
    BY <2>1, <2>4, <2>5, <2>6, <2>7, <2>8, Zenon
<1>9. CASE DrainEnd
  <2>1. ~Draining' /\ UNCHANGED objects
    BY <1>9, Zenon DEF DrainEnd, TypeOK, Locals
  <2> QED
    BY <2>1, Zenon DEF objects
<1>10. CASE UNCHANGED vars
  BY <1>1, <1>10, Zenon DEF vars
<1> QED
  BY <1>2, <1>3, <1>4, <1>5, <1>6, <1>7, <1>8, <1>9, <1>10, Zenon
     DEF Next, Drain

\* Policy.AgingBounded holds for ever, whenever Resize comes and whatever
\* widths it brings.
THEOREM AgingHolds == Spec => []AgingBounded
<1>1. Init => AgingInv
  BY PolicyAssumption DEF Init, AgingInv, AgingBounded, Draining, Generations
<1>2. AgingInv => AgingBounded
  BY Zenon DEF AgingInv
<1> QED
  BY <1>1, <1>2, AgingStep, TypeCorrect, PTL DEF Spec

-----------------------------------------------------------------------------
(* Every sample is folded once, and before Close returns. *)

\* How often fp is in a sequence, and what Append and Tail do to it.
LEMMA OccurrencesType ==
  ASSUME NEW q \in Seq(Fingerprints), NEW fp
  PROVE  /\ IsFiniteSet({i \in 1..Len(q) : q[i] = fp})
         /\ occurrences(q, fp) \in Nat
<1>1. IsFiniteSet(1..Len(q))
  BY FS_Interval
<1>2. {i \in 1..Len(q) : q[i] = fp} \in SUBSET (1..Len(q))
  BY Zenon
<1>3. IsFiniteSet({i \in 1..Len(q) : q[i] = fp})
  BY <1>1, <1>2, FS_Subset, Zenon
<1> QED  BY <1>3, FS_CardinalityType, Zenon DEF occurrences

LEMMA OccurrencesEmpty == \A fp : occurrences(<<>>, fp) = 0
<1> TAKE fp
<1>1. {i \in 1..Len(<<>>) : <<>>[i] = fp} = {}
  OBVIOUS
<1> QED  BY <1>1, FS_EmptySet, Zenon DEF occurrences

LEMMA OccurrencesAppend ==
  ASSUME NEW q \in Seq(Fingerprints), NEW x \in Fingerprints, NEW fp
  PROVE  occurrences(Append(q, x), fp) =
           occurrences(q, fp) + (IF x = fp THEN 1 ELSE 0)
<1> DEFINE A == {i \in 1..Len(q) : q[i] = fp}
           B == {i \in 1..Len(Append(q, x)) : Append(q, x)[i] = fp}
           n == Len(q) + 1
<1>1. IsFiniteSet(A) /\ Cardinality(A) \in Nat
  BY OccurrencesType, FS_CardinalityType, Zenon
<1>2. Len(Append(q, x)) = n /\ Append(q, x)[n] = x
      /\ \A i \in 1..Len(q) : Append(q, x)[i] = q[i]
  OBVIOUS
<1>3. 1..n = (1..Len(q)) \cup {n} /\ n \notin 1..Len(q)
  OBVIOUS
<1>4. B = (IF x = fp THEN A \cup {n} ELSE A) /\ n \notin A
  BY <1>2, <1>3, Zenon
<1> HIDE DEF A, B, n
<1>5. Cardinality(A \cup {n}) = Cardinality(A) + 1
  BY <1>1, <1>4, FS_AddElement, Zenon
<1>6. Cardinality(B) = Cardinality(A) + (IF x = fp THEN 1 ELSE 0)
  BY <1>1, <1>4, <1>5
<1> QED  BY <1>6, Zenon DEF occurrences, A, B

LEMMA OccurrencesTail ==
  ASSUME NEW q \in Seq(Fingerprints), q # <<>>, NEW fp
  PROVE  occurrences(q, fp) =
           occurrences(Tail(q), fp) + (IF Head(q) = fp THEN 1 ELSE 0)
<1> DEFINE A == {i \in 1..Len(Tail(q)) : Tail(q)[i] = fp}
           B == {i \in 1..Len(q) : q[i] = fp}
           f == [i \in A |-> i + 1]
<1>1. Tail(q) \in Seq(Fingerprints) /\ Len(Tail(q)) = Len(q) - 1
      /\ \A i \in 1..Len(Tail(q)) : Tail(q)[i] = q[i + 1]
  OBVIOUS
<1>2. IsFiniteSet(A) /\ IsFiniteSet(B)
  BY <1>1, OccurrencesType, Zenon
<1>3. Len(q) \in Nat /\ Len(q) >= 1 /\ q[1] = Head(q)
  OBVIOUS
<1>4. \A i \in A : i + 1 \in B \ {1}
  BY <1>1, <1>3
<1>5. \A j \in B \ {1} : j - 1 \in A /\ j = (j - 1) + 1
  BY <1>1, <1>3
<1>6. f \in Bijection(A, B \ {1})
  <2>1. f \in [A -> B \ {1}]
    BY <1>4, Zenon
  <2>2. \A i, j \in A : f[i] = f[j] => i = j
    BY <1>1
  <2>3. \A j \in B \ {1} : \E i \in A : f[i] = j
    BY <1>5, Zenon
  <2> HIDE DEF A, B, f
  <2> QED  BY <2>1, <2>2, <2>3, Fun_IsBij, Zenon
<1>7. ExistsBijection(A, B \ {1})
  BY <1>6, Fun_ExistsBij, Zenon
<1>8. (1 \in B) = (Head(q) = fp)
  BY <1>3
<1> HIDE DEF A, B
<1>9. Cardinality(B \ {1}) = Cardinality(A)
  BY <1>2, <1>7, FS_Bijection, Zenon
<1>10. Cardinality(B \ {1}) =
         IF 1 \in B THEN Cardinality(B) - 1 ELSE Cardinality(B)
  BY <1>2, FS_RemoveElement, Zenon
<1>11. Cardinality(A) \in Nat /\ Cardinality(B) \in Nat
  BY <1>2, FS_CardinalityType, Zenon
<1>12. Cardinality(B) = Cardinality(A) + (IF Head(q) = fp THEN 1 ELSE 0)
  BY <1>8, <1>9, <1>10, <1>11
<1> QED  BY <1>12, Zenon DEF occurrences, A, B

\* A stripe holds fingerprints of its own, and the scratch is empty except
\* while it is being folded.
Sorted ==
  \A s \in Stripes : \A j \in 1..Len(buf[s]) : stripeOf(buf[s][j]) = s

ConservedInv ==
  /\ SamplesConserved /\ Sorted
  /\ dpc # "drain" => d.scratch = <<>>

\* A step that touches neither the stripes nor what the drainer has taken.
LEMMA ConservedKept ==
  ASSUME ConservedInv, UNCHANGED <<buf, owed>>, d'.scratch = d.scratch,
         dpc' # "drain" => d.scratch = <<>>
  PROVE  ConservedInv'
BY DEF ConservedInv, SamplesConserved, Sorted, occurrences

\* What an append under the stripe's mutex does.
LEMMA AppendStep ==
  ASSUME TypeOK, NEW r \in Recorders, PushAppend(r)
  PROVE  LET s == stripeOf(rfp[r])
         IN  \/ UNCHANGED <<buf, owed, early, d, dpc, cpc>>
             \/ /\ buf' = [buf EXCEPT ![s] = Append(buf[s], rfp[r])]
                /\ owed' = [owed EXCEPT ![rfp[r]] = owed[rfp[r]] + 1]
                /\ UNCHANGED <<early, d, dpc, cpc>>
BY Zenon DEF PushAppend, PushBody

LEMMA ConservedAppend ==
  ASSUME TypeOK, ConservedInv, NEW r \in Recorders, PushAppend(r)
  PROVE  ConservedInv'
<1> DEFINE x == rfp[r]
           s == stripeOf(x)
<1>1. x \in Fingerprints /\ s \in Stripes
  BY StripeOfType, Zenon DEF TypeOK
<1>2. buf[s] \in Seq(Fingerprints) /\ d.scratch \in Seq(Fingerprints)
  BY <1>1, Zenon DEF TypeOK, Locals
<1>3. CASE UNCHANGED <<buf, owed, early, d, dpc, cpc>>
  BY <1>3, ConservedKept, Zenon DEF ConservedInv
<1>4. CASE /\ buf' = [buf EXCEPT ![s] = Append(buf[s], x)]
           /\ owed' = [owed EXCEPT ![x] = owed[x] + 1]
           /\ UNCHANGED <<early, d, dpc, cpc>>
  <2>1. buf'[s] = Append(buf[s], x) /\ \A q \in Stripes \ {s} : buf'[q] = buf[q]
    BY <1>1, <1>4, Zenon DEF TypeOK
  <2>2. ASSUME NEW fp \in Fingerprints
        PROVE  owed'[fp] = occurrences(buf'[stripeOf(fp)], fp) +
                           occurrences(d'.scratch, fp)
    <3>1. owed[fp] = occurrences(buf[stripeOf(fp)], fp) +
                     occurrences(d.scratch, fp)
      BY Zenon DEF ConservedInv, SamplesConserved
    <3>2. stripeOf(fp) \in Stripes
      BY StripeOfType, Zenon
    <3>3. occurrences(buf[stripeOf(fp)], fp) \in Nat
          /\ occurrences(d.scratch, fp) \in Nat
      BY <1>2, <3>2, OccurrencesType, Zenon DEF TypeOK
    <3>4. CASE fp = x
      <4>1. occurrences(buf'[s], x) = occurrences(buf[s], x) + 1
        <5> HIDE DEF s, x
        <5> QED  BY <1>1, <1>2, <2>1, OccurrencesAppend, ZenonT(30)
      <4>2. owed'[x] = owed[x] + 1
        BY <1>1, <1>4, Zenon DEF TypeOK
      <4> QED  BY <1>4, <3>1, <3>3, <3>4, <4>1, <4>2
    <3>5. CASE fp # x
      <4>1. owed'[fp] = owed[fp]
        BY <1>1, <1>4, <3>5, Zenon DEF TypeOK
      <4>2. occurrences(buf'[stripeOf(fp)], fp) =
              occurrences(buf[stripeOf(fp)], fp)
        <5>1. CASE stripeOf(fp) = s
          <6>1. occurrences(Append(buf[s], x), fp) =
                  occurrences(buf[s], fp) + (IF x = fp THEN 1 ELSE 0)
            <7> HIDE DEF s, x
            <7> QED  BY <1>1, <1>2, OccurrencesAppend, ZenonT(30)
          <6>2. occurrences(buf[s], fp) \in Nat
            BY <3>3, <5>1, Zenon
          <6>3. occurrences(buf'[s], fp) = occurrences(buf[s], fp)
            <7> HIDE DEF s, x
            <7> QED  BY <2>1, <3>5, <6>1, <6>2, SMTT(30)
          <6> QED  BY <5>1, <6>3, Zenon
        <5>2. CASE stripeOf(fp) # s
          BY <2>1, <3>2, <5>2, Zenon
        <5> QED  BY <5>1, <5>2, Zenon
      <4> QED  BY <1>4, <3>1, <4>1, <4>2, Zenon
    <3> QED  BY <3>4, <3>5, Zenon
  <2>3. Sorted'
    <3> SUFFICES ASSUME NEW q \in Stripes, NEW j \in 1..Len(buf'[q])
                 PROVE  stripeOf(buf'[q][j]) = q
      BY Zenon DEF Sorted, stripeOf
    <3>1. CASE q # s
      BY <2>1, <3>1, Zenon DEF ConservedInv, Sorted
    <3>2. CASE q = s
      <4>1. j \in 1..(Len(buf[s]) + 1)
        BY <1>1, <1>2, <2>1, <3>2, SMTT(30)
      <4>2. \/ j \in 1..Len(buf[s]) /\ buf'[q][j] = buf[s][j]
            \/ buf'[q][j] = x
        <5> HIDE DEF s, x
        <5> QED  BY <1>1, <1>2, <2>1, <3>2, <4>1, SMTT(30)
      <4> QED  BY <1>1, <3>2, <4>2, Zenon DEF ConservedInv, Sorted
    <3> QED  BY <3>1, <3>2, Zenon
  <2>4. SamplesConserved'
    BY <2>2, Zenon DEF SamplesConserved, occurrences, stripeOf
  <2> QED  BY <1>4, <2>3, <2>4, Zenon DEF ConservedInv
<1> QED  BY <1>3, <1>4, AppendStep, Zenon

LEMMA ConservedTake ==
  ASSUME TypeOK, ConservedInv, DrainTake
  PROVE  ConservedInv'
<1>1. /\ d.i \in Stripes /\ d.scratch = <<>>
      /\ buf' = [buf EXCEPT ![d.i] = <<>>] /\ d'.scratch = buf[d.i]
      /\ dpc' = "drain" /\ owed' = owed
  BY Zenon DEF DrainTake, TypeOK, Locals, ConservedInv, history
<1>2. ASSUME NEW fp \in Fingerprints
      PROVE  owed'[fp] = occurrences(buf'[stripeOf(fp)], fp) +
                         occurrences(d'.scratch, fp)
  <2>1. owed[fp] = occurrences(buf[stripeOf(fp)], fp) + 0
    BY <1>1, OccurrencesEmpty, Zenon DEF ConservedInv, SamplesConserved
  <2>2. stripeOf(fp) \in Stripes
    BY StripeOfType, Zenon
  <2>3. occurrences(buf[stripeOf(fp)], fp) \in Nat
    BY <2>2, OccurrencesType, Zenon DEF TypeOK
  <2>4. CASE stripeOf(fp) = d.i
    BY <1>1, <2>1, <2>3, <2>4, OccurrencesEmpty DEF TypeOK
  <2>5. CASE stripeOf(fp) # d.i
    <3>1. {j \in 1..Len(buf[d.i]) : buf[d.i][j] = fp} = {}
      BY <1>1, <2>5, Zenon DEF ConservedInv, Sorted
    <3>2. occurrences(buf[d.i], fp) = 0
      BY <3>1, FS_EmptySet, Zenon DEF occurrences
    <3>3. buf'[stripeOf(fp)] = buf[stripeOf(fp)]
      BY <1>1, <2>2, <2>5, Zenon DEF TypeOK
    <3> QED  BY <1>1, <2>1, <2>3, <3>2, <3>3, Zenon
  <2> QED  BY <2>4, <2>5, Zenon
<1>3. SamplesConserved'
  BY <1>2, Zenon DEF SamplesConserved, occurrences, stripeOf
<1>4. Sorted'
  BY <1>1 DEF TypeOK, ConservedInv, Sorted, stripeOf
<1> QED  BY <1>1, <1>3, <1>4, Zenon DEF ConservedInv

\* What a fold takes from the scratch and from the books.
LEMMA FoldStep ==
  ASSUME TypeOK, Fold
  PROVE  /\ d.scratch \in Seq(Fingerprints) /\ d.scratch # <<>>
         /\ Head(d.scratch) \in Fingerprints
         /\ d'.scratch = Tail(d.scratch) /\ d'.i = d.i /\ d'.then = d.then
         /\ owed' = [owed EXCEPT ![Head(d.scratch)] = @ - 1]
         /\ early' = [early EXCEPT ![Head(d.scratch)] =
                        IF @ > 0 THEN @ - 1 ELSE 0]
         /\ dpc = "drain" /\ UNCHANGED <<buf, dpc, cpc>>
<1>1. d.scratch \in Seq(Fingerprints) /\ d.scratch # <<>>
  BY Zenon DEF TypeOK, Locals, Fold, FoldOne
<1>2. d'.scratch = Tail(d.scratch) /\ d'.i = d.i /\ d'.then = d.then
  BY Zenon DEF TypeOK, Locals, Fold, FoldOne
<1> QED  BY <1>1, <1>2, SMTT(30) DEF Fold, FoldOne

LEMMA ConservedFold ==
  ASSUME TypeOK, ConservedInv, Fold
  PROVE  ConservedInv'
<1> DEFINE q == d.scratch
           x == Head(d.scratch)
<1>1. /\ q \in Seq(Fingerprints) /\ q # <<>> /\ x \in Fingerprints
      /\ d'.scratch = Tail(q) /\ owed' = [owed EXCEPT ![x] = @ - 1]
      /\ dpc = "drain" /\ UNCHANGED <<buf, dpc>>
  BY FoldStep, Zenon
<1>2. ASSUME NEW fp \in Fingerprints
      PROVE  owed'[fp] = occurrences(buf'[stripeOf(fp)], fp) +
                         occurrences(d'.scratch, fp)
  <2>1. owed[fp] = occurrences(buf[stripeOf(fp)], fp) + occurrences(q, fp)
    BY Zenon DEF ConservedInv, SamplesConserved
  <2>2. Tail(q) \in Seq(Fingerprints)
    BY <1>1, SMTT(30)
  <2>3. stripeOf(fp) \in Stripes
    BY StripeOfType, Zenon
  <2>4. occurrences(buf[stripeOf(fp)], fp) \in Nat
        /\ occurrences(q, fp) \in Nat /\ occurrences(Tail(q), fp) \in Nat
    BY <1>1, <2>2, <2>3, OccurrencesType, Zenon DEF TypeOK
  <2>5. occurrences(q, fp) =
          occurrences(Tail(q), fp) + (IF x = fp THEN 1 ELSE 0)
    BY <1>1, OccurrencesTail, Zenon
  <2>6. owed'[fp] = owed[fp] - (IF x = fp THEN 1 ELSE 0)
    BY <1>1, SMTT(30) DEF TypeOK
  <2> HIDE DEF q, x
  <2> QED  BY <1>1, <2>1, <2>4, <2>5, <2>6, SMTT(30)
<1>3. SamplesConserved'
  BY <1>2, Zenon DEF SamplesConserved, occurrences, stripeOf
<1>4. Sorted'
  BY <1>1, Zenon DEF ConservedInv, Sorted, stripeOf
<1> QED  BY <1>1, <1>3, <1>4, Zenon DEF ConservedInv

LEMMA ConservedStep == TypeOK /\ ConservedInv /\ [Next]_vars => ConservedInv'
<1> SUFFICES ASSUME TypeOK, ConservedInv, [Next]_vars PROVE ConservedInv'
  BY Zenon
<1>1. ASSUME NEW r \in Recorders,
             \/ PushTryLock(r) \/ PushWake(r)
             \/ \E fp \in Fingerprints : Record(r, fp)
      PROVE  ConservedInv'
  BY <1>1, ConservedKept, Zenon
     DEF PushTryLock, PushWake, Record, history, ConservedInv
<1>2. CASE \/ \E on \in BOOLEAN : SetActive(on)
           \/ \E t \in Tuners :
                ResizeDoorkeeper(t) \/ \E w \in Widths : ResizeSketch(t, w)
           \/ Close \/ CloseJoin \/ UNCHANGED vars
  BY <1>2, ConservedKept, Zenon
     DEF SetActive, ResizeDoorkeeper, ResizeSketch, Close, CloseJoin, vars,
         history, ConservedInv
<1>3. CASE SelectDone \/ SelectWake \/ SelectTick
  <2>1. d.scratch = <<>> /\ d'.scratch = <<>> /\ UNCHANGED <<buf, owed>>
    BY <1>3, Zenon
       DEF SelectDone, SelectWake, SelectTick, Selected, NoLocals,
           ConservedInv, history
  <2> QED  BY <2>1, ConservedKept, Zenon
<1>4. CASE LoadDoorkeeper \/ DrainLock
  <2>1. d.scratch = <<>> /\ d'.scratch = <<>> /\ UNCHANGED <<buf, owed>>
    BY <1>4, Zenon
       DEF LoadDoorkeeper, DrainLock, TypeOK, Locals, ConservedInv, history
  <2> QED  BY <2>1, ConservedKept, Zenon
<1>5. CASE DrainEnd
  <2>1. d.scratch = <<>> /\ d'.scratch = <<>> /\ UNCHANGED <<buf, owed>>
    BY <1>5, Zenon DEF DrainEnd, NoLocals, history
  <2> QED  BY <2>1, ConservedKept, Zenon
<1> QED
  BY <1>1, <1>2, <1>3, <1>4, <1>5, ConservedAppend, ConservedTake,
     ConservedFold, Zenon DEF Next, Push, Drain

LEMMA ConservedInit == Init => ConservedInv
<1> SUFFICES ASSUME Init PROVE ConservedInv
  BY Zenon
<1>1. \A s \in Stripes : buf[s] = <<>>
  BY Zenon DEF Init
<1>2. d.scratch = <<>>
  BY Zenon DEF Init, NoLocals
<1>3. SamplesConserved
  BY <1>1, <1>2, OccurrencesEmpty, StripeOfType DEF Init, SamplesConserved
<1> QED  BY <1>1, <1>2, <1>3 DEF ConservedInv, Sorted

\* buffer.go: a sample that got into a stripe is folded exactly once, however
\* pushes, drains, Resize and Close interleave.
THEOREM SamplesConservedHolds == Spec => []SamplesConserved
<1>1. ConservedInv => SamplesConserved
  BY Zenon DEF ConservedInv
<1> QED
  BY <1>1, ConservedInit, ConservedStep, TypeCorrect, PTL DEF Spec

\* The drain that the closing of done starts is the last one, and the stripes
\* that it has passed hold nothing that Close found there.
LastDrain == Draining /\ d.then = "exited"

FinalInv ==
  /\ \A fp \in Fingerprints : 0 <= early[fp] /\ early[fp] <= owed[fp]
  /\ LastDrain =>
       /\ cpc # "open"
       /\ \A fp \in Fingerprints :
            stripeOf(fp) < d.i => early[fp] <= occurrences(d.scratch, fp)
  /\ dpc = "exited" =>
       cpc # "open" /\ \A fp \in Fingerprints : early[fp] = 0
  /\ cpc = "closed" => dpc = "exited"

\* A step of nobody who closes, drains or pushes.
LEMMA FinalKept ==
  ASSUME FinalInv, UNCHANGED <<owed, early, cpc, dpc, d>>
  PROVE  FinalInv'
BY Zenon DEF FinalInv, LastDrain, Draining, occurrences, stripeOf

LEMMA FinalStep ==
  TypeOK /\ DrainStart /\ ConservedInv /\ FinalInv /\ [Next]_vars => FinalInv'
<1> SUFFICES ASSUME TypeOK, DrainStart, ConservedInv, FinalInv, [Next]_vars
             PROVE  FinalInv'
  BY Zenon
<1>0. /\ owed \in [Fingerprints -> Int] /\ early \in [Fingerprints -> Int]
      /\ \A fp \in Fingerprints : stripeOf(fp) \in Stripes
      /\ \A fp \in Fingerprints : stripeOf(fp) \in 0..(NStripes - 1)
      /\ NStripes \in Nat
  BY StripeOfType, PolicyAssumption, Zenon DEF TypeOK, Stripes
<1>1. ASSUME NEW r \in Recorders,
             \/ PushTryLock(r) \/ PushWake(r)
             \/ \E fp \in Fingerprints : Record(r, fp)
      PROVE  FinalInv'
  BY <1>1, FinalKept, Zenon DEF PushTryLock, PushWake, Record, history
<1>2. CASE \/ \E on \in BOOLEAN : SetActive(on)
           \/ \E t \in Tuners :
                ResizeDoorkeeper(t) \/ \E w \in Widths : ResizeSketch(t, w)
           \/ UNCHANGED vars
  BY <1>2, FinalKept, Zenon
     DEF SetActive, ResizeDoorkeeper, ResizeSketch, vars, history
<1>3. ASSUME NEW r \in Recorders, PushAppend(r) PROVE FinalInv'
  <2>1. \A fp \in Fingerprints : owed[fp] <= owed'[fp]
    BY <1>0, <1>3, AppendStep, SMTT(30)
  <2>2. UNCHANGED <<early, d, dpc, cpc>>
    BY <1>3, AppendStep, Zenon
  <2>3. \A fp \in Fingerprints : owed'[fp] \in Int
    BY <1>3, TypeStep, Zenon DEF TypeOK
  <2>4. \A fp \in Fingerprints : 0 <= early'[fp] /\ early'[fp] <= owed'[fp]
    BY <1>0, <2>1, <2>2, <2>3, SMTT(30) DEF FinalInv
  <2> QED  BY <2>2, <2>4, Zenon
              DEF FinalInv, LastDrain, Draining, occurrences, stripeOf
<1>4. CASE Close
  <2>1. /\ cpc = "open" /\ cpc' = "waiting" /\ early' = owed
        /\ UNCHANGED <<owed, d, dpc>>
    BY <1>4, Zenon DEF Close
  <2>2. ~LastDrain /\ dpc # "exited"
    BY <2>1, Zenon DEF FinalInv
  <2>3. \A fp \in Fingerprints : 0 <= owed[fp]
    BY <1>0, SMTT(30) DEF FinalInv
  <2> QED  BY <1>0, <2>1, <2>2, <2>3, SMTT(30) DEF FinalInv, LastDrain, Draining
<1>5. CASE CloseJoin
  <2>1. /\ dpc = "exited" /\ cpc' = "closed" /\ UNCHANGED <<owed, early, d, dpc>>
    BY <1>5, Zenon DEF CloseJoin, history
  <2> QED  BY <2>1, Zenon DEF FinalInv, LastDrain, Draining
<1>6. CASE SelectDone \/ SelectWake \/ SelectTick
  <2>1. /\ dpc = "select" /\ dpc' = "loadDoor" /\ d'.i = 0
        /\ d'.then = "exited" => cpc # "open"
        /\ UNCHANGED <<owed, early, cpc>>
    BY <1>6, Zenon
       DEF SelectDone, SelectWake, SelectTick, Selected, NoLocals, history
  <2>2. \A fp \in Fingerprints : ~(stripeOf(fp) < d'.i)
    BY <1>0, <2>1
  <2> QED  BY <2>1, <2>2, Zenon DEF FinalInv, LastDrain, stripeOf
<1>7. CASE LoadDoorkeeper \/ DrainLock
  <2>1. /\ dpc \in {"loadDoor", "drain"} /\ dpc' \in {"drain", "take"}
        /\ d'.i = d.i /\ d'.then = d.then /\ d'.scratch = d.scratch
        /\ UNCHANGED <<owed, early, cpc>>
    BY <1>7, Zenon DEF LoadDoorkeeper, DrainLock, TypeOK, Locals, history
  <2> QED  BY <2>1, Zenon
              DEF FinalInv, LastDrain, Draining, occurrences, stripeOf
<1>8. CASE DrainTake
  <2>1. /\ dpc = "take" /\ dpc' = "drain" /\ d.i \in Stripes
        /\ d'.i = d.i + 1 /\ d'.then = d.then /\ d'.scratch = buf[d.i]
        /\ d.scratch = <<>> /\ UNCHANGED <<owed, early, cpc>>
    BY <1>8, Zenon DEF DrainTake, TypeOK, Locals, history, ConservedInv
  <2>2. ASSUME NEW fp \in Fingerprints, LastDrain, stripeOf(fp) < d'.i
        PROVE  early'[fp] <= occurrences(d'.scratch, fp)
    <3>1. occurrences(d.scratch, fp) = 0
      BY <2>1, OccurrencesEmpty, Zenon
    <3>2. occurrences(d'.scratch, fp) \in Nat
      BY <2>1, OccurrencesType, Zenon DEF TypeOK
    <3>3. CASE stripeOf(fp) < d.i
      BY <1>0, <2>1, <2>2, <3>1, <3>2, <3>3 DEF FinalInv
    <3>4. CASE ~(stripeOf(fp) < d.i)
      <4>1. stripeOf(fp) = d.i
        BY <1>0, <2>1, <2>2, <3>4, SMTT(30) DEF Stripes
      <4>2. owed[fp] = occurrences(d'.scratch, fp) + 0
        BY <2>1, <3>1, <4>1, Zenon DEF ConservedInv, SamplesConserved
      <4> QED  BY <1>0, <2>1, <3>2, <4>2 DEF FinalInv
    <3> QED  BY <3>3, <3>4, Zenon
  <2> QED  BY <2>1, <2>2, Zenon
              DEF FinalInv, LastDrain, Draining, occurrences, stripeOf
<1>9. CASE Fold
  <2> DEFINE q == d.scratch
             x == Head(d.scratch)
  <2>1. /\ q \in Seq(Fingerprints) /\ q # <<>> /\ x \in Fingerprints
        /\ d'.scratch = Tail(q) /\ d'.i = d.i /\ d'.then = d.then
        /\ owed' = [owed EXCEPT ![x] = @ - 1]
        /\ early' = [early EXCEPT ![x] = IF @ > 0 THEN @ - 1 ELSE 0]
        /\ dpc = "drain" /\ UNCHANGED <<dpc, cpc>>
    BY <1>9, FoldStep, Zenon
  <2>2. ASSUME NEW fp \in Fingerprints
        PROVE  /\ occurrences(q, fp) \in Nat /\ occurrences(Tail(q), fp) \in Nat
               /\ occurrences(q, fp) <= owed[fp]
               /\ occurrences(q, fp) =
                    occurrences(Tail(q), fp) + (IF x = fp THEN 1 ELSE 0)
    <3>1. occurrences(q, fp) \in Nat /\ occurrences(Tail(q), fp) \in Nat
          /\ occurrences(buf[stripeOf(fp)], fp) \in Nat
      <4>1. Tail(q) \in Seq(Fingerprints)
        BY <2>1
      <4>2. buf[stripeOf(fp)] \in Seq(Fingerprints)
        BY <1>0, Zenon DEF TypeOK
      <4> HIDE DEF q
      <4> QED  BY <2>1, <4>1, <4>2, OccurrencesType, Zenon
    <3>2. owed[fp] = occurrences(buf[stripeOf(fp)], fp) + occurrences(q, fp)
      BY Zenon DEF ConservedInv, SamplesConserved
    <3>3. occurrences(q, fp) =
            occurrences(Tail(q), fp) + (IF x = fp THEN 1 ELSE 0)
      BY <2>1, OccurrencesTail, Zenon
    <3> HIDE DEF q, x
    <3> QED  BY <3>1, <3>2, <3>3, SMTT(30)
  <2>3. ASSUME NEW fp \in Fingerprints
        PROVE  /\ owed'[fp] = owed[fp] - (IF x = fp THEN 1 ELSE 0)
               /\ early'[fp] = IF x = fp /\ early[fp] > 0 THEN early[fp] - 1
                               ELSE early[fp]
    <3>1. 0 <= early[fp]
      BY Zenon DEF FinalInv
    <3> HIDE DEF q, x
    <3> QED  BY <1>0, <2>1, <3>1, SMTT(30)
  <2> HIDE DEF q, x
  <2>4. \A fp \in Fingerprints : 0 <= early'[fp] /\ early'[fp] <= owed'[fp]
    BY <1>0, <2>2, <2>3, SMTT(30) DEF FinalInv
  <2>5. ASSUME NEW fp \in Fingerprints, LastDrain, stripeOf(fp) < d.i
        PROVE  early'[fp] <= occurrences(Tail(q), fp)
    <3>1. early[fp] <= occurrences(q, fp)
      BY <2>5, Zenon DEF FinalInv, q
    <3> QED  BY <1>0, <2>2, <2>3, <3>1, SMTT(30)
  <2> QED  BY <2>1, <2>4, <2>5, Zenon
              DEF FinalInv, LastDrain, Draining, occurrences, stripeOf
<1>10. CASE DrainEnd
  <2>1. /\ dpc = "drain" /\ d.scratch = <<>> /\ d.i = NStripes
        /\ dpc' = d.then /\ UNCHANGED <<owed, early, cpc>>
        /\ d.then \in {"select", "exited"}
    BY <1>10, Zenon DEF DrainEnd, history, TypeOK, Locals
  <2>2. ASSUME d.then = "exited", NEW fp \in Fingerprints PROVE early[fp] = 0
    <3>1. stripeOf(fp) < d.i
      BY <1>0, <2>1, SMTT(30)
    <3>2. early[fp] <= occurrences(d.scratch, fp)
      BY <2>1, <2>2, <3>1, Zenon DEF FinalInv, LastDrain, Draining
    <3>3. early[fp] <= 0
      BY <2>1, <3>2, OccurrencesEmpty, Zenon
    <3> QED  BY <1>0, <3>3, SMTT(30) DEF FinalInv
  <2> QED  BY <2>1, <2>2, Zenon DEF FinalInv, LastDrain, Draining
<1> QED
  BY <1>1, <1>2, <1>3, <1>4, <1>5, <1>6, <1>7, <1>8, <1>9, <1>10, ZenonT(30)
     DEF Next, Push, Drain

LEMMA FinalInvHolds == Spec => []FinalInv
<1>1. Init => DrainStart /\ FinalInv
  BY DEF Init, DrainStart, FinalInv, LastDrain, Draining
<1>2. DrainStart /\ TypeOK /\ FullStripeSignalled /\ [Next]_vars => DrainStart'
  BY SignalStep, Zenon
<1> QED
  BY <1>1, <1>2, ConservedInit, ConservedStep, FinalStep, TypeCorrect,
     NoLostWakeup, PTL DEF Spec

\* policy.go:123: when Close returns, the final drain has folded every sample
\* that was buffered before it was called.
THEOREM FinalDrainHolds == Spec => []FinalDrain
<1>1. FinalInv => FinalDrain
  BY Zenon DEF FinalInv, FinalDrain
<1> QED  BY <1>1, FinalInvHolds, PTL

\* policy.go:126: once Close has returned, nothing touches the sketch, the
\* doorkeeper or the count towards the next aging.
THEOREM ClosedIsFinalHolds == Spec => ClosedIsFinal
<1>1. FinalInv /\ [Next]_vars =>
        [cpc = "closed" => UNCHANGED <<incs, door, incrs>>]_vars
  <2> SUFFICES ASSUME FinalInv, Next, cpc = "closed"
               PROVE  UNCHANGED <<incs, door, incrs>>
    BY Zenon
  <2>1. dpc = "exited"
    BY Zenon DEF FinalInv
  <2> QED
    BY <2>1, Zenon
       DEF Next, Push, PushTryLock, PushAppend, PushBody, PushWake, Record,
           SetActive, ResizeDoorkeeper, ResizeSketch, Close, CloseJoin, Drain,
           SelectDone, SelectWake, SelectTick, Selected, LoadDoorkeeper,
           DrainLock, DrainTake, Fold, FoldOne, DrainEnd, objects
<1> QED  BY <1>1, FinalInvHolds, PTL DEF Spec, ClosedIsFinal
=============================================================================
