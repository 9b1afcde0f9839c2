------------------------------- MODULE Policy -------------------------------
(***************************************************************************)
(* The frequency policy of internal/tinylfu: goroutines that Record        *)
(* accesses into striped, lossy buffers, the one drainer goroutine that    *)
(* folds them through the doorkeeper into the sketch and ages both, live   *)
(* Resize, and Close.                                                      *)
(*                                                                         *)
(* Sketches and doorkeepers are heap objects behind atomic pointers: the   *)
(* drainer may still be folding into one that Resize has replaced.  They   *)
(* are numbered in the order they are published, so the published one is   *)
(* the newest.  What a sketch's counters hold is the subject of Sketch;    *)
(* here a sketch is its width and the increments it has had since it was   *)
(* built or last halved, and a doorkeeper is the set of its bits.          *)
(***************************************************************************)
EXTENDS Integers, Sequences, FiniteSets

CONSTANTS
  Recorders,     \* goroutines that call Record
  Tuners,        \* goroutines that call SetActive and Resize
  Fingerprints,  \* uint64s
  NStripes,      \* stripes of the access buffer, a power of two
  Depth,         \* capacity of a stripe (RingDepth)
  Bits,          \* bits of a doorkeeper
  BitsOf,        \* BitsOf[fp]: the k bits of fp
  Widths,        \* sketch widths Resize may be asked for
  InitWidth,
  MaxResizes     \* bound: calls of Resize

Stripes == 0..(NStripes - 1)
Generations == 0..MaxResizes

ASSUME PolicyAssumption ==
  /\ Fingerprints \subseteq Nat
  /\ NStripes \in Nat \ {0} /\ Depth \in Nat \ {0}
  /\ BitsOf \in [Fingerprints -> SUBSET Bits]
  /\ Widths \subseteq Nat \ {0} /\ InitWidth \in Widths
  /\ MaxResizes \in Nat

VARIABLES
  active,      \* Record feeds the buffers
  buf,         \* buf[s]: the fingerprints in stripe s
  locked,      \* the stripes whose mutex is held
  wake,        \* the wake channel holds its one token
  sk, dk,      \* the published sketch and doorkeeper
  width, incs, \* the sketches
  door,        \* the doorkeepers
  incrs,       \* p.incrs: increments towards the next aging
  rpc, rfp,    \* a recorder's next step and its fingerprint
  tpc,         \* a tuner's next step
  cpc,         \* the closer: done is closed from "waiting" on
  dpc, d,      \* the drainer's next step and its locals
  owed, early  \* history: samples buffered and not folded, and those of
               \* them that were buffered before Close

objects == <<sk, dk, width, incs, door, incrs>>
history == <<owed, early>>
vars == <<active, buf, locked, wake, objects, rpc, rfp, tpc, cpc, dpc, d,
          history>>

stripeOf(fp) == fp % NStripes

\* The drainer's locals: the sketch and the doorkeeper it has loaded, the next
\* stripe, the samples taken and not yet folded, and what comes after.
Locals == [sk: Generations, dk: Nat, i: 0..NStripes,
           scratch: Seq(Fingerprints), then: {"select", "exited"}]

NoLocals ==
  [sk |-> 0, dk |-> 0, i |-> 0, scratch |-> <<>>, then |-> "select"]

Init ==
  /\ active = FALSE
  /\ buf = [s \in Stripes |-> <<>>] /\ locked = {}
  /\ wake = FALSE
  /\ sk = 0 /\ dk = 0
  /\ width = [g \in Generations |-> InitWidth]
  /\ incs = [g \in Generations |-> 0]
  /\ door = [g \in Generations |-> {}]
  /\ incrs = 0
  /\ rpc = [r \in Recorders |-> "idle"]
  /\ rfp \in [Recorders -> Fingerprints]
  /\ tpc = [t \in Tuners |-> "idle"]
  /\ cpc = "open"
  /\ dpc = "select" /\ d = NoLocals
  /\ owed = [fp \in Fingerprints |-> 0]
  /\ early = [fp \in Fingerprints |-> 0]

-----------------------------------------------------------------------------
(* Record: an inactive policy drops the sample at once. *)

Record(r, fp) ==
  /\ rpc[r] = "idle"
  /\ active
  /\ rfp' = [rfp EXCEPT ![r] = fp]
  /\ rpc' = [rpc EXCEPT ![r] = "tryLock"]
  /\ UNCHANGED <<active, buf, locked, wake, objects, tpc, cpc, dpc, d,
                 history>>

\* The drainer waits for stripe s, whose mutex may have been put in starvation
\* mode for it: TryLock then fails even while the mutex is free.
starving(s) == dpc = "drain" /\ d.scratch = <<>> /\ d.i = s

\* push: a contended stripe drops the sample.
PushTryLock(r) ==
  LET s == stripeOf(rfp[r])
  IN  /\ rpc[r] = "tryLock"
      /\ \/ /\ s \in locked \/ starving(s)
            /\ rpc' = [rpc EXCEPT ![r] = "idle"]
            /\ UNCHANGED locked
         \/ /\ s \notin locked
            /\ locked' = locked \cup {s}
            /\ rpc' = [rpc EXCEPT ![r] = "append"]
      /\ UNCHANGED <<active, buf, wake, objects, rfp, tpc, cpc, dpc, d,
                     history>>

\* The critical section of push: the sample is appended if there is room, and
\* the push that fills the stripe goes on to wake the drainer.
PushBody(r, room, fills) ==
  LET s == stripeOf(rfp[r])
  IN  /\ rpc[r] = "append"
      /\ locked' = locked \ {s}
      /\ \/ /\ ~room
            /\ rpc' = [rpc EXCEPT ![r] = "idle"]
            /\ UNCHANGED <<buf, owed>>
         \/ /\ room
            /\ buf' = [buf EXCEPT ![s] = Append(@, rfp[r])]
            /\ owed' = [owed EXCEPT ![rfp[r]] = @ + 1]
            /\ rpc' = [rpc EXCEPT ![r] = IF fills THEN "wake" ELSE "idle"]
      /\ UNCHANGED <<active, wake, objects, rfp, tpc, cpc, dpc, d, early>>

\* Mutants: the fill noticed one push too late; a push that finds the stripe
\* full returns with its mutex held.
PushAppendLateWake(r) ==
  LET n == Len(buf[stripeOf(rfp[r])]) IN PushBody(r, n < Depth, n >= Depth)

PushAppendKeepsLock(r) ==
  LET n == Len(buf[stripeOf(rfp[r])])
  IN  \/ n < Depth /\ PushBody(r, TRUE, n + 1 >= Depth)
      \/ /\ rpc[r] = "append" /\ n >= Depth
         /\ rpc' = [rpc EXCEPT ![r] = "idle"]
         /\ UNCHANGED <<active, buf, locked, wake, objects, rfp, tpc, cpc, dpc,
                        d, history>>

PushAppend(r) ==
  LET n == Len(buf[stripeOf(rfp[r])]) IN PushBody(r, n < Depth, n + 1 >= Depth)

\* The non-blocking send: a token already there stands for this one.
PushWake(r) ==
  /\ rpc[r] = "wake"
  /\ wake' = TRUE
  /\ rpc' = [rpc EXCEPT ![r] = "idle"]
  /\ UNCHANGED <<active, buf, locked, objects, rfp, tpc, cpc, dpc, d, history>>

-----------------------------------------------------------------------------
(* SetActive, Resize and Close. *)

SetActive(on) ==
  /\ active' = on
  /\ UNCHANGED <<buf, locked, wake, objects, rpc, rfp, tpc, cpc, dpc, d,
                 history>>

\* Mutant: Resize restarts the drainer's count.
ResizeSketchRestarts(t, w) ==
  /\ tpc[t] = "idle" /\ sk < MaxResizes
  /\ sk' = sk + 1 /\ incrs' = 0
  /\ width' = [width EXCEPT ![sk + 1] = w]
  /\ tpc' = [tpc EXCEPT ![t] = "doorkeeper"]
  /\ UNCHANGED <<active, buf, locked, wake, dk, incs, door, rpc, rfp, cpc, dpc,
                 d, history>>

\* Resize publishes a fresh sketch, then a fresh doorkeeper.  incrs is the
\* drainer's, and stays.
ResizeSketch(t, w) ==
  /\ tpc[t] = "idle" /\ sk < MaxResizes
  /\ sk' = sk + 1
  /\ width' = [width EXCEPT ![sk + 1] = w]
  /\ tpc' = [tpc EXCEPT ![t] = "doorkeeper"]
  /\ UNCHANGED <<active, buf, locked, wake, dk, incs, door, incrs, rpc, rfp,
                 cpc, dpc, d, history>>

ResizeDoorkeeper(t) ==
  /\ tpc[t] = "doorkeeper"
  /\ dk' = dk + 1
  /\ tpc' = [tpc EXCEPT ![t] = "idle"]
  /\ UNCHANGED <<active, buf, locked, wake, sk, width, incs, door, incrs, rpc,
                 rfp, cpc, dpc, d, history>>

Close ==
  /\ cpc = "open"
  /\ cpc' = "waiting"
  /\ early' = owed
  /\ UNCHANGED <<active, buf, locked, wake, objects, rpc, rfp, tpc, dpc, d,
                 owed>>

CloseJoin ==
  /\ cpc = "waiting" /\ dpc = "exited"
  /\ cpc' = "closed"
  /\ UNCHANGED <<active, buf, locked, wake, objects, rpc, rfp, tpc, dpc, d,
                 history>>

-----------------------------------------------------------------------------
(* The drainer. *)

\* The select, by its three cases; the first thing drainOnce does is to load
\* the published sketch.
Selected(then) ==
  /\ dpc = "select"
  /\ dpc' = "loadDoor"
  /\ d' = [NoLocals EXCEPT !.sk = sk, !.then = then]
  /\ UNCHANGED <<active, buf, locked, objects, rpc, rfp, tpc, cpc, history>>

\* Mutant: done ends the drainer without a last drain.
SelectDoneExit ==
  /\ cpc # "open" /\ dpc = "select"
  /\ dpc' = "exited"
  /\ UNCHANGED <<active, buf, locked, wake, objects, rpc, rfp, tpc, cpc, d,
                 history>>

SelectDone == cpc # "open" /\ Selected("exited") /\ UNCHANGED wake
SelectWake == wake /\ Selected("select") /\ wake' = FALSE
SelectTick == Selected("select") /\ UNCHANGED wake

LoadDoorkeeper ==
  /\ dpc = "loadDoor"
  /\ d' = [d EXCEPT !.dk = dk]
  /\ dpc' = "drain"
  /\ UNCHANGED <<active, buf, locked, wake, objects, rpc, rfp, tpc, cpc,
                 history>>

\* drainInto waits for the stripe's mutex...
DrainLock ==
  /\ dpc = "drain" /\ d.scratch = <<>> /\ d.i < NStripes
  /\ d.i \notin locked
  /\ locked' = locked \cup {d.i}
  /\ dpc' = "take"
  /\ UNCHANGED <<active, buf, wake, objects, rpc, rfp, tpc, cpc, d, history>>

\* Mutant: the stripe is copied and not emptied.
DrainCopy ==
  /\ dpc = "take"
  /\ d' = [d EXCEPT !.scratch = buf[d.i], !.i = @ + 1]
  /\ locked' = locked \ {d.i}
  /\ dpc' = "drain"
  /\ UNCHANGED <<active, buf, wake, objects, rpc, rfp, tpc, cpc, history>>

\* ...copies the stripe to the scratch, empties it and releases the mutex.
DrainTake ==
  /\ dpc = "take"
  /\ d' = [d EXCEPT !.scratch = buf[d.i], !.i = @ + 1]
  /\ buf' = [buf EXCEPT ![d.i] = <<>>]
  /\ locked' = locked \ {d.i}
  /\ dpc' = "drain"
  /\ UNCHANGED <<active, wake, objects, rpc, rfp, tpc, cpc, history>>

\* putOrHas: was fp there already (or do its bits happen to be set)?
seen(fp) == BitsOf[fp] \subseteq door[d.dk]

\* One fingerprint of the scratch: its first sighting goes to the doorkeeper,
\* a later one to the sketch, which may be due for aging.
FoldOne(aging) ==
  LET fp == Head(d.scratch)
  IN  /\ dpc = "drain" /\ d.scratch # <<>>
      /\ d' = [d EXCEPT !.scratch = Tail(@)]
      /\ owed' = [owed EXCEPT ![fp] = @ - 1]
      /\ early' = [early EXCEPT ![fp] = IF @ > 0 THEN @ - 1 ELSE 0]
      /\ \/ /\ ~seen(fp)
            /\ door' = [door EXCEPT ![d.dk] = @ \cup BitsOf[fp]]
            /\ UNCHANGED <<incs, incrs>>
         \/ /\ seen(fp) /\ ~aging
            /\ incs' = [incs EXCEPT ![d.sk] = @ + 1]
            /\ incrs' = incrs + 1
            /\ UNCHANGED door
         \/ /\ seen(fp) /\ aging
            /\ incs' = [incs EXCEPT ![d.sk] = 0]
            /\ door' = [door EXCEPT ![d.dk] = {}]
            /\ incrs' = 0
      /\ UNCHANGED <<active, buf, locked, wake, sk, dk, width, rpc, rfp, tpc,
                     cpc, dpc>>

\* Mutant: aging comes one increment late.
FoldLate == FoldOne(incrs + 1 > width[d.sk])

\* agingN is the width of the sketch that the drainer has loaded.
Fold == FoldOne(incrs + 1 >= width[d.sk])

\* Mutant: the loop goes on after the last drain.
DrainForever ==
  /\ dpc = "drain" /\ d.scratch = <<>> /\ d.i = NStripes
  /\ dpc' = "select"
  /\ d' = NoLocals
  /\ UNCHANGED <<active, buf, locked, wake, objects, rpc, rfp, tpc, cpc,
                 history>>

DrainEnd ==
  /\ dpc = "drain" /\ d.scratch = <<>> /\ d.i = NStripes
  /\ dpc' = d.then
  /\ d' = NoLocals
  /\ UNCHANGED <<active, buf, locked, wake, objects, rpc, rfp, tpc, cpc,
                 history>>

-----------------------------------------------------------------------------

\* A step of a call of Record that is under way.
Push(r) == PushTryLock(r) \/ PushAppend(r) \/ PushWake(r)

\* A step of the drainer other than waiting for the ticker.
Drain == \/ SelectDone \/ SelectWake \/ LoadDoorkeeper
         \/ DrainLock \/ DrainTake \/ Fold \/ DrainEnd

Next ==
  \/ \E r \in Recorders :
       Push(r) \/ \E fp \in Fingerprints : Record(r, fp)
  \/ \E on \in BOOLEAN : SetActive(on)
  \/ \E t \in Tuners :
       ResizeDoorkeeper(t) \/ \E w \in Widths : ResizeSketch(t, w)
  \/ Close \/ CloseJoin
  \/ Drain \/ SelectTick

Spec == Init /\ [][Next]_vars

\* Goroutines that can run do run, a mutex that is free again and again is
\* got, and the select takes a ready case in the end.  Nothing is assumed of
\* the ticker.
FairSpec ==
  /\ Spec
  /\ \A r \in Recorders : WF_vars(Push(r))
  /\ WF_vars(LoadDoorkeeper \/ DrainTake \/ Fold \/ DrainEnd)
  /\ SF_vars(DrainLock) /\ SF_vars(SelectWake) /\ SF_vars(SelectDone)
  /\ WF_vars(CloseJoin)

-----------------------------------------------------------------------------
(* Properties. *)

\* Types, and the bound on a stripe: what Record costs in memory is fixed.
TypeOK ==
  /\ active \in BOOLEAN /\ wake \in BOOLEAN
  /\ buf \in [Stripes -> Seq(Fingerprints)] /\ locked \subseteq Stripes
  /\ \A s \in Stripes : Len(buf[s]) <= Depth
  /\ sk \in Generations /\ dk \in Nat
  /\ width \in [Generations -> Widths] /\ incs \in [Generations -> Nat]
  /\ door \in [Generations -> SUBSET Bits] /\ incrs \in Nat
  /\ rpc \in [Recorders -> {"idle", "tryLock", "append", "wake"}]
  /\ rfp \in [Recorders -> Fingerprints]
  /\ tpc \in [Tuners -> {"idle", "doorkeeper"}]
  /\ cpc \in {"open", "waiting", "closed"}
  /\ dpc \in {"select", "loadDoor", "drain", "take", "exited"}
  /\ d \in Locals
  /\ dpc = "take" => d.i \in Stripes
  /\ owed \in [Fingerprints -> Int] /\ early \in [Fingerprints -> Int]

\* Stripe s is going to be drained, with or without the ticker.
Signalled(s) ==
  \/ wake \/ \E r \in Recorders : rpc[r] = "wake"
  \/ dpc = "loadDoor" \/ (dpc \in {"drain", "take"} /\ d.i <= s)

\* No wakeup is lost: a stripe that is full, and drops every sample until it
\* is drained, has a wakeup on its way or the drainer still to come.
FullStripeSignalled ==
  dpc # "exited" => \A s \in Stripes : Len(buf[s]) >= Depth => Signalled(s)

occurrences(q, fp) == Cardinality({i \in 1..Len(q) : q[i] = fp})

\* A sample that got into a stripe is folded exactly once: the scratch is the
\* drainer's own, and emptying a stripe takes exactly what was copied.
SamplesConserved ==
  \A fp \in Fingerprints :
    owed[fp] = occurrences(buf[stripeOf(fp)], fp) + occurrences(d.scratch, fp)

\* policy.go:123: Close has the drainer "perform a final drain": when it
\* returns, every sample buffered before it was called has been folded.
FinalDrain ==
  cpc = "closed" => \A fp \in Fingerprints : early[fp] = 0

\* A sketch is halved before it has had as many increments as it is wide, and
\* a Resize in the middle of a drain makes no exception, although the sketch
\* that the drainer folds into is then not the published one, and the count
\* towards the next aging belongs to neither.
AgingBounded == \A g \in Generations : incs[g] < width[g]

\* Nothing touches the sketch and the doorkeeper once Close has returned.
ClosedIsFinal ==
  [][cpc = "closed" => UNCHANGED <<incs, door, incrs>>]_vars

\* A full stripe is drained in the end, without the help of the ticker.
FullStripeDrained ==
  \A s \in Stripes :
    Len(buf[s]) >= Depth ~> Len(buf[s]) < Depth \/ dpc = "exited"

\* Close returns.
CloseReturns == cpc = "waiting" ~> cpc = "closed"
=============================================================================
