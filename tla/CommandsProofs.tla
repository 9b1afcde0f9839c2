--------------------------- MODULE CommandsProofs ---------------------------
(***************************************************************************)
(* Proofs about the command handlers, for every width of a Duration, every *)
(* unit of time and every number a client may pass.                        *)
(***************************************************************************)
EXTENDS Commands, TLAPS, FiniteSetTheorems, WellFoundedInduction

-----------------------------------------------------------------------------
(* Arithmetic. *)

\* A number that is at most a quotient.
LEMMA DivRange ==
  ASSUME NEW m \in Nat, NEW s \in Nat \ {0}, NEW n \in Int, n <= m \div s
  PROVE  n * s <= m
  OBVIOUS

\* What is within the modulus is its own remainder.
LEMMA SmallMod ==
  ASSUME NEW b \in Nat \ {0}, NEW a \in 0..(b - 1)
  PROVE  a % b = a
  OBVIOUS

LEMMA Scale == \A unit : scale(unit) \in Nat \ {0}
<1>1. Second \in Nat \ {0}
  BY CommandsAssumption DEF Second
<1> QED  BY <1>1, CommandsAssumption, Zenon DEF scale

\* What passes the check of its range is a Duration, and does not wrap.
LEMMA InRangeExact ==
  ASSUME NEW unit, NEW n \in Int, inRange(unit, n)
  PROVE  /\ n * scale(unit) \in -MaxInt..MaxInt
         /\ wrap(n * scale(unit)) = n * scale(unit)
<1> DEFINE s == scale(unit)
           x == n * s
<1>0. MaxInt \in Nat /\ s \in Nat \ {0} /\ x \in Int
  BY CommandsAssumption, Scale
<1>1. x <= MaxInt
  BY <1>0, DivRange, Zenon DEF inRange
<1>2. (-n) * s <= MaxInt
  BY <1>0, DivRange DEF inRange
<1>3. (-n) * s = -x
  BY <1>0
<1>4. x \in -MaxInt..MaxInt
  BY <1>0, <1>1, <1>2, <1>3
<1> DEFINE b == 2 * (MaxInt + 1)
           a == x + MaxInt + 1
<1>5. b \in Nat \ {0} /\ a \in 0..(b - 1)
  BY <1>0, <1>4
<1>6. a % b = a
  BY <1>5, SmallMod, Zenon
<1>7. wrap(x) = x
  BY <1>0, <1>6 DEF wrap
<1> QED  BY <1>4, <1>7, Zenon
-----------------------------------------------------------------------------
(* What SET stores. *)

\* The locals of a SET.
SetLocals ==
  [verb : {"none"}, key : Keys, ttl : Nat, read : Nat, set : Nat,
   entry : Entries, args : {<<>>}, count : {0}]

\* The locals of a DEL or an EXISTS that has arguments left.
LoopLocals ==
  [verb : {"DEL", "EXISTS"}, key : {Absent}, ttl : {0}, read : {0}, set : {0},
   entry : {Persistent}, args : Seq(Keys) \ {<<>>}, count : Nat]

\* The lifetime is the one that was asked for when the clock was read.
Asked(l) ==
  LET u == l.entry.unit
  IN  /\ l.read <= now
      /\ u # "none" =>
           /\ l.ttl > 0
           /\ l.ttl = l.entry.n * scale(u) - (IF relative(u) THEN 0 ELSE l.read)

\* The inductive invariant, of a connection and of all.
ConnInv(c) ==
  /\ pc[c] \in {"setClock", "setStore"} =>
       loc[c] \in SetLocals /\ Asked(loc[c])
  /\ pc[c] = "setStore" /\ loc[c].entry.unit # "none" =>
       /\ loc[c].set >= loc[c].read
       /\ loc[c].entry.expiresAt = loc[c].set + loc[c].ttl
  /\ pc[c] = "loop" => loc[c] \in LoopLocals

SetInv ==
  /\ TypeOK
  /\ loc = [c \in Conns |-> loc[c]]
  /\ \A c \in Conns : ConnInv(c)

\* A lifetime that SET accepts is not wrapped and not saturated.
LEMMA TTLExact ==
  ASSUME TypeOK, NEW unit \in Units, NEW n \in Int, inRange(unit, n),
         ttlOf(unit, n) > 0
  PROVE  /\ ttlOf(unit, n) \in Nat
         /\ ttlOf(unit, n) = n * scale(unit) - (IF relative(unit) THEN 0 ELSE now)
<1> DEFINE x == n * scale(unit)
<1>1. x \in -MaxInt..MaxInt /\ wrap(x) = x
  BY InRangeExact, Zenon
<1>2. MaxInt \in Nat /\ now \in Nat
  BY CommandsAssumption DEF TypeOK
<1>3. CASE relative(unit)
  <2>1. ttlOf(unit, n) = x
    BY <1>1, <1>3, Zenon DEF ttlOf
  <2> QED  BY <1>1, <1>2, <1>3, <2>1
<1>4. CASE ~relative(unit)
  <2>1. ttlOf(unit, n) = saturate(x - now)
    BY <1>4, Zenon DEF ttlOf
  <2>2. x - now \in Int /\ x - now <= MaxInt
    BY <1>1, <1>2
  <2>3. saturate(x - now) = x - now
    BY <1>2, <2>1, <2>2 DEF saturate
  <2> QED  BY <1>2, <1>4, <2>1, <2>2, <2>3
<1> QED  BY <1>3, <1>4, Zenon

\* A step of c is of no concern to the other connections.
LEMMA LocalStep ==
  ASSUME SetInv, TypeOK', NEW c \in Conns, NEW label, NEW locals,
         pc' = [pc EXCEPT ![c] = label], loc' = [loc EXCEPT ![c] = locals],
         UNCHANGED now, ConnInv(c)'
  PROVE  SetInv'
<1>1. \A d \in Conns \ {c} : pc'[d] = pc[d] /\ loc'[d] = loc[d]
  BY Zenon DEF SetInv, TypeOK
<1>2. \A d \in Conns \ {c} : ConnInv(d)'
  BY <1>1 DEF SetInv, ConnInv, Asked
<1>3. loc' = [d \in Conns |-> loc'[d]]
  BY Zenon DEF SetInv
<1> QED  BY <1>2, <1>3, Zenon DEF SetInv

\* A step after which c is not inside a SET.
LEMMA QuietStep ==
  ASSUME SetInv, NEW c \in Conns, NEW locals,
         NEW label \in {"idle", "loop", "ttlReply", "closed"},
         label = "loop" => locals \in LoopLocals,
         pc' = [pc EXCEPT ![c] = label], loc' = [loc EXCEPT ![c] = locals],
         UNCHANGED now, store' \in [Keys -> Entries \cup {Absent}],
         proto' \in [Conns -> {2, 3}], wproto' \in [Conns -> {2, 3}],
         commands' \in 0..MaxCommands, writes' \in Nat, removed' \in Nat
  PROVE  SetInv'
<1>1. TypeOK'
  BY Zenon DEF SetInv, TypeOK
<1>2. pc'[c] = label /\ loc'[c] = locals
  BY Zenon DEF SetInv, TypeOK
<1>3. ConnInv(c)'
  BY <1>2, Zenon DEF ConnInv
<1> QED  BY <1>1, <1>3, LocalStep, Zenon

\* A command that is answered, or begun, without a look at the store.
LEMMA CommandStep ==
  ASSUME SetInv, NEW c \in Conns, NEW locals, Frame(c),
         NEW label \in {"idle", "loop", "ttlReply", "closed"},
         label = "loop" => locals \in LoopLocals,
         pc' = [pc EXCEPT ![c] = label], loc' = [loc EXCEPT ![c] = locals],
         UNCHANGED <<store, now, proto, wproto, writes, removed>>
  PROVE  SetInv'
<1>1. commands' \in 0..MaxCommands
  BY CommandsAssumption DEF Frame, SetInv, TypeOK
<1> QED  BY <1>1, QuietStep, Zenon DEF SetInv, TypeOK

\* The steps of a SET.
LEMMA SetSteps ==
  ASSUME SetInv, NEW c \in Conns,
         \/ \E k \in Keys : \/ SetParse(c, k, "none", 0)
                             \/ SetParse(c, k, "bad", 0)
                             \/ \E unit \in Units, n \in Numbers :
                                  SetParse(c, k, unit, n)
         \/ SetClock(c) \/ SetStore(c)
  PROVE  SetInv'
<1>0. TypeOK /\ loc = [d \in Conns |-> loc[d]] /\ ConnInv(c)
      /\ now \in Nat
  BY CommandsAssumption DEF SetInv, TypeOK
<1>1. ASSUME NEW k \in Keys, NEW unit \in Units \cup {"none", "bad"},
             NEW n \in Int, SetParse(c, k, unit, n)
      PROVE  SetInv'
  <2> DEFINE ttl == IF unit \in Units THEN ttlOf(unit, n) ELSE 0
             ok == unit = "none" \/ (unit \in Units /\ inRange(unit, n) /\ ttl > 0)
             l == [NoLocals EXCEPT !.key = k, !.ttl = ttl, !.read = now,
                     !.entry = [Persistent EXCEPT !.unit = unit, !.n = n]]
  <2>0. /\ Frame(c)
        /\ UNCHANGED <<store, now, proto, wproto, writes, removed>>
    BY <1>1, Zenon DEF SetParse, Receive, conns, history
  <2>1. CASE ~ok
    <3>1. Reply(c, WriteError(Message))
      BY <1>1, <2>1, Zenon DEF SetParse
    <3> QED  BY <2>0, <3>1, CommandStep, Zenon DEF Reply, ReplyThen
  <2>2. CASE ok
    <3>1. pc' = [pc EXCEPT ![c] = "setClock"] /\ loc' = [loc EXCEPT ![c] = l]
      BY <1>1, <2>2, Zenon DEF SetParse, Continue
    <3>2. pc'[c] = "setClock" /\ loc'[c] = l
      BY <1>0, <3>1, Zenon DEF TypeOK
    <3>3. ttl \in Nat /\ unit \in Units \cup {"none"}
          /\ (unit # "none" => ttl > 0 /\
                ttl = n * scale(unit) - (IF relative(unit) THEN 0 ELSE now))
      BY <1>0, <2>2, TTLExact, Zenon DEF Units
    <3>4. /\ loc'[c] \in SetLocals /\ loc'[c].read = now /\ loc'[c].ttl = ttl
          /\ loc'[c].entry.unit = unit /\ loc'[c].entry.n = n
      <4> DEFINE e == [Persistent EXCEPT !.unit = unit, !.n = n]
      <4>0. l = [NoLocals EXCEPT !.key = k, !.ttl = ttl, !.read = now, !.entry = e]
        BY Zenon
      <4>2. e \in Entries /\ e.unit = unit /\ e.n = n
        BY <3>3, Zenon DEF Persistent, Entries
      <4> HIDE DEF l, ttl, ok, e
      <4>1. l = [verb |-> "none", key |-> k, ttl |-> ttl, read |-> now,
                 set |-> 0, entry |-> e, args |-> <<>>, count |-> 0]
        BY <4>0, Zenon DEF NoLocals
      <4>3. l \in SetLocals
        BY <1>0, <3>3, <4>1, <4>2, Zenon DEF SetLocals
      <4> QED  BY <3>2, <4>1, <4>2, <4>3, SMTT(30)
    <3> HIDE DEF l, ttl, ok
    <3>5. Asked(loc[c])'
      BY <1>0, <2>0, <3>3, <3>4 DEF Asked
    <3>6. ConnInv(c)'
      BY <3>2, <3>4, <3>5, Zenon DEF ConnInv
    <3>7. TypeOK'
      BY <1>0, <2>0, <3>1, CommandsAssumption, SMTT(30) DEF TypeOK, Frame
    <3> QED  BY <2>0, <3>1, <3>6, <3>7, LocalStep, Zenon
  <2> QED  BY <2>1, <2>2, Zenon
<1>2. CASE SetClock(c)
  <2> DEFINE l == loc[c]
             m == IF l.ttl > 0
                  THEN [l EXCEPT !.entry.expiresAt = now + l.ttl, !.set = now] ELSE l
  <2>1. /\ pc[c] = "setClock"
        /\ pc' = [pc EXCEPT ![c] = "setStore"] /\ loc' = [loc EXCEPT ![c] = m]
        /\ UNCHANGED <<store, now, proto, wproto, commands, writes, removed>>
    BY <1>2, Zenon DEF SetClock, Continue, conns, history
  <2>2. l \in SetLocals /\ Asked(l)
    BY <1>0, <2>1, Zenon DEF ConnInv
  <2>3. pc'[c] = "setStore" /\ loc'[c] = m
    BY <1>0, <2>1, Zenon DEF TypeOK
  <2>4. CASE l.ttl > 0
    <3> DEFINE e == [l.entry EXCEPT !.expiresAt = now + l.ttl]
    <3>0. l.entry \in Entries /\ l.ttl \in Nat /\ now + l.ttl \in Nat
      BY <1>0, <2>2 DEF SetLocals
    <3>1. /\ e \in Entries /\ e.unit = l.entry.unit /\ e.n = l.entry.n
          /\ e.expiresAt = now + l.ttl
      BY <3>0, Zenon DEF Entries
    <3>2. m = [l EXCEPT !.entry = e, !.set = now]
      BY <2>4, Zenon
    <3> HIDE DEF e, m
    <3>3. /\ m \in SetLocals /\ m.read = l.read /\ m.ttl = l.ttl /\ m.set = now
          /\ m.entry = e
      BY <1>0, <2>2, <3>1, <3>2, Zenon DEF SetLocals
    <3>4. Asked(loc[c])'
      BY <2>1, <2>2, <2>3, <3>1, <3>3, ZenonT(30) DEF Asked
    <3>5. ConnInv(c)'
      BY <2>1, <2>2, <2>3, <3>1, <3>3, <3>4, Zenon DEF ConnInv, Asked
    <3> QED  BY <1>0, <2>1, <3>5, LocalStep, Zenon DEF TypeOK
  <2>5. CASE ~(l.ttl > 0)
    <3>1. m = l /\ l.entry.unit = "none"
      BY <2>2, <2>5, Zenon DEF Asked
    <3>2. ConnInv(c)'
      BY <2>1, <2>2, <2>3, <3>1, Zenon DEF ConnInv, Asked
    <3> QED  BY <2>1, <3>2, <1>0, LocalStep, Zenon DEF TypeOK
  <2> QED  BY <2>4, <2>5, Zenon
<1>3. CASE SetStore(c)
  <2>1. /\ pc[c] = "setStore" /\ pc' = [pc EXCEPT ![c] = "idle"]
        /\ loc' = [loc EXCEPT ![c] = NoLocals]
        /\ UNCHANGED <<now, proto, wproto, commands, removed>>
        /\ writes' \in {writes, writes + 1}
        /\ store' \in {store, [store EXCEPT ![loc[c].key] = loc[c].entry]}
    BY <1>3, Zenon DEF SetStore, Reply, ReplyThen, conns
  <2>2. loc[c].key \in Keys /\ loc[c].entry \in Entries
    BY <1>0, <2>1, Zenon DEF ConnInv, SetLocals
  <2>3. store' \in [Keys -> Entries \cup {Absent}] /\ writes' \in Nat
    BY <1>0, <2>1, <2>2 DEF TypeOK
  <2> QED  BY <1>0, <2>1, <2>3, QuietStep, Zenon DEF TypeOK
<1>4. Numbers \subseteq Int
  BY CommandsAssumption
<1> QED  BY <1>1, <1>2, <1>3, <1>4

\* What is left of a sequence of more than one.
LEMMA TailLeft ==
  ASSUME NEW S, NEW s \in Seq(S), Len(s) > 1
  PROVE  Tail(s) \in Seq(S) /\ Tail(s) # <<>>
<1>1. Tail(s) \in Seq(S) /\ Len(Tail(s)) = Len(s) - 1
  OBVIOUS
<1>2. Len(Tail(s)) # 0
  BY <1>1
<1>3. Len(<<>>) = 0
  BY Zenon
<1> QED  BY <1>1, <1>2, <1>3, Zenon

\* Every step keeps the invariant.
LEMMA SetInvStep ==
  ASSUME SetInv, [Next]_vars
  PROVE  SetInv'
<1>0. TypeOK /\ now \in Nat /\ MaxCommands \in Nat
  BY CommandsAssumption, SMTT(30) DEF SetInv, TypeOK
<1> USE DEF Receive, Reply, ReplyThen, Continue, conns, history
<1>1. ASSUME NEW c \in Conns, Command(c)
      PROVE  SetInv'
  <2>1. CASE \E k \in Keys :
               \/ SetParse(c, k, "none", 0) \/ SetParse(c, k, "bad", 0)
               \/ \E unit \in Units, n \in Numbers : SetParse(c, k, unit, n)
    BY <2>1, SetSteps, Zenon
  <2>2. ASSUME NEW k \in Keys, NEW verb, TTLLookup(c, verb, k)
        PROVE  SetInv'
    BY <2>2, CommandStep, Zenon DEF TTLLookup
  <2>3. ASSUME NEW verb \in {"DEL", "EXISTS"}, NEW args \in Seq(Keys),
               args # <<>>, Variadic(c, verb, args)
        PROVE  SetInv'
    <3>1. [NoLocals EXCEPT !.verb = verb, !.args = args] \in LoopLocals
      BY <2>3, Zenon DEF NoLocals, LoopLocals
    <3> QED  BY <2>3, <3>1, CommandStep, Zenon DEF Variadic
  <2>4. ASSUME NEW version \in {0, 2, 3, 4}, NEW opts, Hello(c, version, opts)
        PROVE  SetInv'
    <3>1. /\ proto' \in [Conns -> {2, 3}] /\ wproto' \in [Conns -> {2, 3}]
          /\ UNCHANGED <<store, now, writes, removed>>
          /\ commands' \in 0..MaxCommands
      BY <1>0, <2>4 DEF Hello, Frame, served, TypeOK
    <3>2. pc' = [pc EXCEPT ![c] = "idle"] /\ loc' = [loc EXCEPT ![c] = NoLocals]
      BY <2>4, Zenon DEF Hello, HelloReply
    <3> QED  BY <1>0, <3>1, <3>2, QuietStep, Zenon DEF TypeOK
  <2>5. ASSUME NEW x, NEW y,
               \/ ConfigGet(c, x, y) \/ WrongArity(c, x, y)
               \/ Plain(c, x, y) \/ UnknownCommand(c, x)
        PROVE  SetInv'
    <3>1. /\ Frame(c) /\ pc' = [pc EXCEPT ![c] = "idle"]
          /\ loc' = [loc EXCEPT ![c] = NoLocals]
          /\ UNCHANGED <<store, now, proto, wproto, writes, removed>>
      BY <2>5, Zenon DEF ConfigGet, WrongArity, Plain, UnknownCommand
    <3> QED  BY <3>1, CommandStep, Zenon
  <2>6. ASSUME NEW x, \/ ConfigSetMaxMemory(c, x) \/ ConfigSetPolicy(c, x)
                      \/ ConfigSetOther(c) \/ Quit(c) \/ Get(c, x)
        PROVE  SetInv'
    <3>1. /\ Frame(c) /\ loc' = [loc EXCEPT ![c] = NoLocals]
          /\ pc' \in {[pc EXCEPT ![c] = "idle"], [pc EXCEPT ![c] = "closed"]}
          /\ UNCHANGED <<store, now, proto, wproto, writes, removed>>
      BY <2>6, Zenon
         DEF ConfigSetMaxMemory, ConfigSetPolicy, ConfigSetOther, Quit, Get
    <3> QED  BY <3>1, CommandStep, Zenon
  <2>7. CASE EmptyFrame(c)
    BY <1>0, <2>7 DEF EmptyFrame, Frame, SetInv, ConnInv, Asked, TypeOK
  <2>8. ASSUME NEW verb \in {"DEL", "EXISTS"}, NEW k \in Keys, NEW l \in Keys,
               Variadic(c, verb, <<k>>) \/ Variadic(c, verb, <<k, l>>)
        PROVE  SetInv'
    <3>1. /\ <<k>> \in Seq(Keys) /\ <<k, l>> \in Seq(Keys)
          /\ <<k>> # <<>> /\ <<k, l>> # <<>>
      OBVIOUS
    <3> QED  BY <2>3, <2>8, <3>1, Zenon
  <2> QED  BY <1>1, <2>1, <2>2, <2>4, <2>5, <2>6, <2>7, <2>8, Zenon DEF Command
<1>2. ASSUME NEW c \in Conns, Handler(c)
      PROVE  SetInv'
  <2>1. CASE SetClock(c) \/ SetStore(c)
    BY <2>1, SetSteps, Zenon
  <2>2. ASSUME NEW hit, Counted(c, hit), pc[c] = "loop"
        PROVE  \E label \in {"idle", "loop"} : \E locals :
                 /\ label = "loop" => locals \in LoopLocals
                 /\ pc' = [pc EXCEPT ![c] = label]
                 /\ loc' = [loc EXCEPT ![c] = locals]
    <3> DEFINE l == loc[c]
               n == l.count + (IF hit THEN 1 ELSE 0)
               m == [l EXCEPT !.args = Tail(@), !.count = n]
    <3>1. l \in LoopLocals
      BY <2>2, Zenon DEF SetInv, ConnInv
    <3>2. CASE Reply(c, WriteInt(n))
      <4>1. pc' = [pc EXCEPT ![c] = "idle"] /\ loc' = [loc EXCEPT ![c] = NoLocals]
        BY <3>2, Zenon
      <4> QED  BY <4>1, Zenon
    <3>3. CASE Len(l.args) > 1 /\ Continue(c, "loop", m)
      <4>1. l.args \in Seq(Keys) /\ n \in Nat
        BY <3>1 DEF LoopLocals
      <4>2. Tail(l.args) \in Seq(Keys) /\ Tail(l.args) # <<>>
        BY <3>3, <4>1, TailLeft, Zenon
      <4>3. m \in LoopLocals
        BY <3>1, <4>1, <4>2, Zenon DEF LoopLocals
      <4>4. pc' = [pc EXCEPT ![c] = "loop"] /\ loc' = [loc EXCEPT ![c] = m]
        BY <3>3, Zenon
      <4> HIDE DEF m
      <4> QED  BY <4>3, <4>4, Zenon
    <3> QED  BY <2>2, <3>2, <3>3, Zenon DEF Counted
  <2>3. CASE DelKey(c)
    <3>1. store' = [store EXCEPT ![Head(loc[c].args)] = Absent]
          /\ removed' \in {removed, removed + 1}
          /\ UNCHANGED <<now, proto, wproto, commands, writes>>
      BY <1>0, <2>3 DEF DelKey, TypeOK
    <3>2. store' \in [Keys -> Entries \cup {Absent}] /\ removed' \in Nat
      <4> DEFINE x == Head(loc[c].args)
                 E == Entries \cup {Absent}
      <4>1. store \in [Keys -> E] /\ Absent \in E /\ removed \in Nat
        BY <1>0, Zenon DEF TypeOK
      <4>2. store' = [store EXCEPT ![x] = Absent]
        BY <3>1, Zenon
      <4> HIDE DEF x, E
      <4>3. store' \in [Keys -> E]
        BY <4>1, <4>2, Zenon
      <4> QED  BY <3>1, <4>1, <4>3 DEF E
    <3>3. PICK label, locals :
            /\ label \in {"idle", "loop"}
            /\ label = "loop" => locals \in LoopLocals
            /\ pc' = [pc EXCEPT ![c] = label]
            /\ loc' = [loc EXCEPT ![c] = locals]
      BY <2>2, <2>3, SMTT(30) DEF DelKey
    <3> QED  BY <1>0, <3>1, <3>2, <3>3, QuietStep, Zenon DEF TypeOK
  <2>4. CASE ExistsKey(c)
    <3>1. PICK label, locals :
            /\ label \in {"idle", "loop"}
            /\ label = "loop" => locals \in LoopLocals
            /\ pc' = [pc EXCEPT ![c] = label]
            /\ loc' = [loc EXCEPT ![c] = locals]
      BY <2>2, <2>4 DEF ExistsKey
    <3> QED  BY <1>0, <2>4, <3>1, QuietStep, Zenon DEF ExistsKey, TypeOK
  <2>5. CASE TTLReply(c)
    <3>1. pc' = [pc EXCEPT ![c] = "idle"] /\ loc' = [loc EXCEPT ![c] = NoLocals]
          /\ UNCHANGED <<store, now, proto, wproto, commands, writes, removed>>
      BY <2>5, Zenon DEF TTLReply
    <3> QED  BY <1>0, <3>1, QuietStep, Zenon DEF TypeOK
  <2> QED  BY <1>2, <2>1, <2>3, <2>4, <2>5, Zenon DEF Handler
<1>3. CASE \E k \in Keys : Evict(k)
  BY <1>0, <1>3, ZenonT(30) DEF Evict, SetInv, ConnInv, Asked, TypeOK
<1>4. CASE Tick
  <2>1. now' \in StartTime..MaxTime /\ now <= now'
    BY <1>0, <1>4, CommandsAssumption, SMTT(30) DEF Tick, TypeOK
  <2>2. ASSUME NEW c \in Conns
        PROVE  ConnInv(c)'
    BY <1>0, <1>4, <2>1, SMTT(30) DEF Tick, SetInv, ConnInv, Asked, SetLocals
  <2> QED  BY <1>0, <1>4, <2>1, <2>2, Zenon DEF Tick, SetInv, TypeOK
<1>5. CASE UNCHANGED vars
  BY <1>5, Zenon DEF vars, SetInv, ConnInv, Asked, TypeOK
<1> QED  BY <1>1, <1>2, <1>3, <1>4, <1>5, Zenon DEF Next, Finished

\* The invariant holds.
LEMMA SetInvHolds == Spec => []SetInv
<1>1. Init => SetInv
  BY CommandsAssumption DEF Init, SetInv, ConnInv, TypeOK
<1> QED  BY <1>1, SetInvStep, PTL DEF Spec

\* commands.go:75, for 64 bits and nanoseconds as for any width and unit: what
\* SET stores expires when it was asked to, plus the time between the two
\* looks at the clock.
THEOREM ExpiryExactHolds == Spec => []ExpiryExact
<1>1. SetInv => ExpiryExact
  <2> SUFFICES ASSUME SetInv, NEW c \in Conns, pc[c] = "setStore",
                      loc[c].entry.unit # "none"
               PROVE  LET l == loc[c]
                          unit == l.entry.unit
                          due == l.entry.n * scale(unit)
                                   + (IF relative(unit) THEN l.read ELSE 0)
                          got == l.entry.expiresAt
                      IN  got > l.set /\ due <= got /\ got <= due + (l.set - l.read)
    BY Zenon DEF SetInv, ExpiryExact
  <2>1. /\ loc[c] \in SetLocals /\ Asked(loc[c]) /\ loc[c].set >= loc[c].read
        /\ loc[c].entry.expiresAt = loc[c].set + loc[c].ttl
    BY Zenon DEF SetInv, ConnInv
  <2>2. loc[c].entry.n * scale(loc[c].entry.unit) \in Int
    BY <2>1, Scale DEF SetLocals, Entries
  <2> QED  BY <2>1, <2>2, SMTT(30) DEF Asked, SetLocals, Entries
<1> QED  BY <1>1, SetInvHolds, PTL

-----------------------------------------------------------------------------
(* What DEL reports. *)

Held == {k \in Keys : store[k] # Absent}

\* The inductive invariant: an entry that was stored is held, or was reported
\* removed once, or was overwritten, evicted or found expired.
RemovedInv == removed + Cardinality(Held) <= writes

\* How a step changes what is held.
LEMMA HeldFinite ==
  /\ IsFiniteSet(Held) /\ Cardinality(Held) \in Nat
  /\ \A k : k \notin Held => Cardinality(Held \cup {k}) = Cardinality(Held) + 1
  /\ \A k : k \in Held => Cardinality(Held \ {k}) = Cardinality(Held) - 1
<1>1. IsFiniteSet(Keys) /\ Held \subseteq Keys
  BY CommandsAssumption, Zenon DEF Held
<1>2. IsFiniteSet(Held)
  BY <1>1, FS_Subset, Zenon
<1> QED  BY <1>2, FS_CardinalityType, FS_AddElement, FS_RemoveElement, Zenon

LEMMA RemovedStep ==
  ASSUME SetInv, RemovedInv, [Next]_vars
  PROVE  RemovedInv'
<1>0. /\ store \in [Keys -> Entries \cup {Absent}]
      /\ removed \in Nat /\ writes \in Nat /\ Cardinality(Held) \in Nat
  BY HeldFinite, Zenon DEF SetInv, TypeOK
<1>1. ASSUME UNCHANGED <<store, removed, writes>>
      PROVE  RemovedInv'
  BY <1>1, Zenon DEF RemovedInv, Held
<1> USE DEF conns, history
<1>2. ASSUME NEW c \in Conns, Command(c)
      PROVE  UNCHANGED <<store, removed, writes>>
  BY <1>2, ZenonT(30)
     DEF Command, SetParse, TTLLookup, Variadic, Hello, ConfigGet,
         ConfigSetMaxMemory, ConfigSetPolicy, ConfigSetOther, Plain, Get, Quit,
         UnknownCommand, WrongArity, EmptyFrame
<1>3. ASSUME NEW c \in Conns, SetStore(c)
      PROVE  RemovedInv'
  <2> DEFINE k == loc[c].key
  <2>1. CASE UNCHANGED <<store, writes>>
    BY <1>1, <1>3, <2>1, Zenon DEF SetStore
  <2>2. CASE store' = [store EXCEPT ![k] = loc[c].entry] /\ writes' = writes + 1
    <3>1. k \in Keys /\ loc[c].entry # Absent
      BY <1>3, CommandsAssumption, Zenon
         DEF SetStore, SetInv, ConnInv, SetLocals
    <3>2. Held' = Held \cup {k}
      BY <1>0, <2>2, <3>1, Zenon DEF Held
    <3>3. Cardinality(Held') \in {Cardinality(Held), Cardinality(Held) + 1}
      <4>1. CASE k \in Held
        BY <3>2, <4>1, Zenon
      <4>2. CASE k \notin Held
        BY <3>2, <4>2, HeldFinite, Zenon
      <4> QED  BY <4>1, <4>2, Zenon
    <3>4. removed' = removed
      BY <1>3, Zenon DEF SetStore
    <3> QED  BY <1>0, <2>2, <3>3, <3>4, SMTT(30) DEF RemovedInv
  <2> QED  BY <1>3, <2>1, <2>2, Zenon DEF SetStore
<1>4. ASSUME NEW k, store' = [store EXCEPT ![k] = Absent], writes' = writes,
             removed' = removed \/ (k \in Held /\ removed' = removed + 1)
      PROVE  RemovedInv'
  <2>1. Held' = Held \ {k}
    BY <1>0, <1>4, Zenon DEF Held
  <2>2. CASE k \in Held
    <3>1. Cardinality(Held') = Cardinality(Held) - 1
      BY <2>1, <2>2, HeldFinite, Zenon
    <3> QED  BY <1>0, <1>4, <3>1 DEF RemovedInv
  <2>3. CASE k \notin Held
    <3>1. Held' = Held
      BY <2>1, <2>3, Zenon
    <3> QED  BY <1>0, <1>4, <2>3, <3>1, Zenon DEF RemovedInv
  <2> QED  BY <2>2, <2>3, Zenon
<1>5. ASSUME NEW c \in Conns, DelKey(c)
      PROVE  RemovedInv'
  <2> DEFINE k == Head(loc[c].args)
  <2>1. /\ store' = [store EXCEPT ![k] = Absent] /\ writes' = writes
        /\ removed' = removed + (IF dead(k) THEN 0 ELSE 1)
    BY <1>5, Zenon DEF DelKey
  <2>2. loc[c] \in LoopLocals
    BY <1>5, Zenon DEF DelKey, SetInv, ConnInv
  <2>3. k \in Keys
    BY <2>2 DEF LoopLocals
  <2>4. ~dead(k) => k \in Held
    BY <2>3, Zenon DEF dead, Held
  <2>5. removed' = removed \/ (k \in Held /\ removed' = removed + 1)
    BY <1>0, <2>1, <2>4, SMTT(30)
  <2> HIDE DEF k
  <2> QED  BY <1>4, <2>1, <2>5, Zenon
<1>6. ASSUME NEW k \in Keys, Evict(k)
      PROVE  RemovedInv'
  BY <1>4, <1>6, Zenon DEF Evict
<1>7. CASE Tick \/ UNCHANGED vars \/ \E c \in Conns : SetClock(c)
           \/ ExistsKey(c) \/ TTLReply(c)
  BY <1>1, <1>7, Zenon DEF Tick, vars, SetClock, ExistsKey, TTLReply
<1> QED  BY <1>1, <1>2, <1>3, <1>5, <1>6, <1>7, Zenon
            DEF Next, Handler, Finished

\* commands.go:163: with any number of connections and keys, no more removals
\* are reported than entries were stored.
THEOREM RemovedOnceHolds == Spec => []RemovedOnce
<1>1. Init => RemovedInv
  <2>1. ASSUME Init
        PROVE  Held = {}
    BY <2>1, Zenon DEF Init, Held
  <2> QED  BY <2>1, FS_EmptySet, SMTT(30) DEF Init, RemovedInv
<1>2. SetInv /\ RemovedInv /\ [Next]_vars => RemovedInv'
  BY RemovedStep, Zenon
<1>3. SetInv /\ RemovedInv => RemovedOnce
  BY HeldFinite DEF RemovedInv, RemovedOnce, SetInv, TypeOK
<1> QED  BY <1>1, <1>2, <1>3, SetInvHolds, PTL DEF Spec

-----------------------------------------------------------------------------
(* What TTL answers. *)

\* Of two products with the same positive factor.
LEMMA Cancel ==
  ASSUME NEW a \in Int, NEW b \in Int, NEW s \in Nat \ {0}, a * s < b * s
  PROVE  a < b
<1> SUFFICES ASSUME b <= a PROVE FALSE
  OBVIOUS
<1>1. PICK d \in Nat : a = b + d
  <2>1. a - b \in Nat /\ a = b + (a - b)
    OBVIOUS
  <2> QED  BY <2>1, Zenon
<1>2. a * s = b * s + d * s /\ d * s \in Nat
  BY <1>1
<1> QED  BY <1>2

\* A quotient, and its divisor.
LEMMA Quotient ==
  ASSUME NEW r \in Nat, NEW m \in Nat \ {0}
  PROVE  r \div m \in Nat /\ (r \div m) * m <= r
  OBVIOUS

\* Seconds rounded to the nearest are no more than n if the ticks are not.
LEMMA Rounded ==
  ASSUME NEW m \in Nat \ {0}, NEW p \in Nat \ {0}, NEW n \in Nat,
         NEW r \in Nat, r <= n * (p * m)
  PROVE  ((r \div m) + p \div 2) \div p <= n
<1> DEFINE q == r \div m
           h == p \div 2
           t == (q + h) \div p
<1>1. q \in Nat /\ q * m <= r /\ h \in Nat /\ h < p
  BY Quotient
<1>2. n * (p * m) = (n * p) * m /\ n * p \in Nat
  OBVIOUS
<1>3. q * m < (n * p + 1) * m
  <2>1. (n * p + 1) * m = (n * p) * m + m
    BY <1>2
  <2> HIDE DEF q
  <2> QED  BY <1>1, <1>2, <2>1
<1>4. q < n * p + 1
  <2> HIDE DEF q
  <2> QED  BY <1>1, <1>2, <1>3, Cancel
<1>5. t \in Nat /\ t * p <= q + h
  <2> HIDE DEF q, h
  <2> QED  BY <1>1, Quotient
<1>6. t * p < (n + 1) * p
  <2>1. (n + 1) * p = n * p + p
    OBVIOUS
  <2> HIDE DEF q, h, t
  <2> QED  BY <1>1, <1>2, <1>4, <1>5, <2>1
<1>7. t < n + 1
  <2> HIDE DEF t
  <2> QED  BY <1>5, <1>6, Cancel
<1> HIDE DEF t
<1>8. t <= n
  BY <1>5, <1>7, SMTT(30)
<1> QED  BY <1>8, Zenon DEF t

\* An entry stored with EX n has no more than n seconds to live.
Within(e) ==
  /\ e \in Entries
  /\ e.unit = "EX" => e.n \in Nat /\ e.expiresAt <= now + e.n * Second

\* The inductive invariant: of what is stored, of what TTL has found, and of
\* what SET is about to store.
WithinInv ==
  /\ \A k \in Keys : store[k] # Absent => Within(store[k])
  /\ \A c \in Conns :
       /\ pc[c] = "ttlReply" => Within(loc[c].entry)
       /\ pc[c] = "setStore" => Within(loc[c].entry)

\* A step of d that is neither TTLLookup nor SetClock.
LEMMA WithinLocal ==
  ASSUME SetInv, WithinInv, NEW d \in Conns, NEW label, NEW locals,
         pc' = [pc EXCEPT ![d] = label], loc' = [loc EXCEPT ![d] = locals],
         UNCHANGED now,
         label \in {"ttlReply", "setStore"} => Within(locals.entry),
         \A k \in Keys : store'[k] = store[k] \/ store'[k] = Absent
                         \/ Within(store'[k])
  PROVE  WithinInv'
<1>1. pc'[d] = label /\ loc'[d] = locals
      /\ \A c \in Conns \ {d} : pc'[c] = pc[c] /\ loc'[c] = loc[c]
  BY Zenon DEF SetInv, TypeOK
<1> QED  BY <1>1, SMTT(30) DEF WithinInv, Within

\* The handler of d is the only one to move.
LEMMA OwnStep ==
  ASSUME SetInv, NEW d \in Conns, Command(d)
  PROVE  /\ pc[d] = "idle" /\ UNCHANGED <<store, now>>
         /\ \/ \E label \in {"idle", "closed", "loop", "setClock"} : \E locals :
                 pc' = [pc EXCEPT ![d] = label] /\ loc' = [loc EXCEPT ![d] = locals]
            \/ \E k \in Keys : \E verb :
                 /\ store[k] # Absent
                 /\ pc' = [pc EXCEPT ![d] = "ttlReply"]
                 /\ loc' = [loc EXCEPT ![d] = [NoLocals EXCEPT !.verb = verb,
                                                              !.entry = store[k]]]
<1> USE DEF Receive, Frame, Reply, ReplyThen, Continue, conns, history
<1>1. ASSUME NEW k, NEW unit, NEW n, SetParse(d, k, unit, n)
      PROVE  /\ pc[d] = "idle" /\ UNCHANGED <<store, now>>
             /\ \E label \in {"idle", "closed", "loop", "setClock"} : \E locals :
                  pc' = [pc EXCEPT ![d] = label] /\ loc' = [loc EXCEPT ![d] = locals]
  <2>1. pc[d] = "idle" /\ UNCHANGED <<store, now>>
    BY <1>1, Zenon DEF SetParse
  <2> DEFINE ttl == IF unit \in Units THEN ttlOf(unit, n) ELSE 0
             l == [NoLocals EXCEPT !.key = k, !.ttl = ttl, !.read = now,
                     !.entry = [Persistent EXCEPT !.unit = unit, !.n = n]]
  <2>2. \/ Reply(d, WriteError(Message))
        \/ pc' = [pc EXCEPT ![d] = "setClock"] /\ loc' = [loc EXCEPT ![d] = l]
    BY <1>1, Zenon DEF SetParse
  <2> HIDE DEF l
  <2> QED  BY <2>1, <2>2, Zenon
<1>2. ASSUME NEW k \in Keys, NEW verb, TTLLookup(d, verb, k)
      PROVE  /\ pc[d] = "idle" /\ UNCHANGED <<store, now>>
             /\ \/ /\ pc' = [pc EXCEPT ![d] = "idle"]
                   /\ loc' = [loc EXCEPT ![d] = NoLocals]
                \/ /\ store[k] # Absent
                   /\ pc' = [pc EXCEPT ![d] = "ttlReply"]
                   /\ loc' = [loc EXCEPT ![d] = [NoLocals EXCEPT !.verb = verb,
                                                                !.entry = store[k]]]
  BY <1>2, Zenon DEF TTLLookup, dead
<1>3. ASSUME NEW x, NEW y, \/ Variadic(d, x, y) \/ Hello(d, x, y) \/ ConfigGet(d, x, y)
                           \/ Plain(d, x, y) \/ WrongArity(d, x, y)
      PROVE  /\ pc[d] = "idle" /\ UNCHANGED <<store, now>>
             /\ \E label \in {"idle", "closed", "loop", "setClock"} : \E locals :
                  pc' = [pc EXCEPT ![d] = label] /\ loc' = [loc EXCEPT ![d] = locals]
  BY <1>3, Zenon DEF Variadic, Hello, HelloReply, ConfigGet, Plain, WrongArity
<1>4. ASSUME NEW x, \/ ConfigSetMaxMemory(d, x) \/ ConfigSetPolicy(d, x)
                    \/ ConfigSetOther(d) \/ Quit(d) \/ Get(d, x) \/ UnknownCommand(d, x)
      PROVE  /\ pc[d] = "idle" /\ UNCHANGED <<store, now>>
             /\ \E label \in {"idle", "closed", "loop", "setClock"} : \E locals :
                  pc' = [pc EXCEPT ![d] = label] /\ loc' = [loc EXCEPT ![d] = locals]
  BY <1>4, Zenon
     DEF ConfigSetMaxMemory, ConfigSetPolicy, ConfigSetOther, Quit, Get,
         UnknownCommand
<1>5. CASE EmptyFrame(d)
  <2>1. pc[d] = "idle" /\ UNCHANGED <<store, now, pc, loc>>
    BY <1>5, Zenon DEF EmptyFrame
  <2>2. pc = [pc EXCEPT ![d] = "idle"] /\ loc = [loc EXCEPT ![d] = loc[d]]
    BY <2>1, Zenon DEF SetInv, TypeOK
  <2> QED  BY <2>1, <2>2, Zenon
<1> QED  BY <1>1, <1>2, <1>3, <1>4, <1>5, Zenon DEF Command

\* engine.Set adds the lifetime to the clock as it is.
LEMMA WithinClock ==
  ASSUME SetInv, WithinInv, NEW d \in Conns, SetClock(d)
  PROVE  WithinInv'
<1> DEFINE l == loc[d]
           e == [l.entry EXCEPT !.expiresAt = now + l.ttl]
           m == IF l.ttl > 0
                THEN [l EXCEPT !.entry.expiresAt = now + l.ttl, !.set = now] ELSE l
<1>1. /\ pc[d] = "setClock" /\ UNCHANGED <<store, now>>
      /\ pc' = [pc EXCEPT ![d] = "setStore"] /\ loc' = [loc EXCEPT ![d] = m]
  BY Zenon DEF SetClock, Continue
<1>2. l \in SetLocals /\ Asked(l)
  BY <1>1, Zenon DEF SetInv, ConnInv
<1>3. l.entry \in Entries /\ l.ttl \in Nat /\ now \in Nat /\ Second \in Nat \ {0}
  BY <1>2, CommandsAssumption, SMTT(30) DEF SetLocals, SetInv, TypeOK, Second
<1>4. CASE l.ttl > 0
  <2>1. m.entry = e
    BY <1>2, <1>4, Zenon DEF SetLocals
  <2>2. /\ e \in Entries /\ e.unit = l.entry.unit /\ e.n = l.entry.n
        /\ e.expiresAt = now + l.ttl
    BY <1>3 DEF Entries
  <2>3. e.unit = "EX" => e.n \in Nat /\ e.expiresAt <= now + e.n * Second
    <3> SUFFICES ASSUME e.unit = "EX"
                 PROVE  e.n \in Nat /\ e.expiresAt <= now + e.n * Second
      BY Zenon
    <3> DEFINE n == l.entry.n
    <3>1. l.ttl = n * Second /\ n \in Int
      BY <1>2, <1>3, <2>2 DEF Asked, scale, relative, Entries
    <3>2. n \in Nat
      <4> HIDE DEF n
      <4>1. 0 * Second < n * Second
        BY <1>3, <1>4, <3>1, SMTT(30)
      <4> QED  BY <1>3, <3>1, <4>1, Cancel
    <3> QED  BY <1>3, <2>2, <3>1, <3>2
  <2>4. Within(m.entry)
    BY <2>1, <2>2, <2>3, Zenon DEF Within
  <2> HIDE DEF m
  <2> QED  BY <1>1, <2>4, WithinLocal, Zenon
<1>5. CASE ~(l.ttl > 0)
  <2>1. m = l /\ l.entry.unit = "none"
    BY <1>2, <1>5, Zenon DEF Asked
  <2>2. Within(m.entry)
    BY <1>3, <2>1, Zenon DEF Within
  <2> HIDE DEF m
  <2> QED  BY <1>1, <2>2, WithinLocal, Zenon
<1> QED  BY <1>4, <1>5, Zenon

LEMMA WithinStep ==
  ASSUME SetInv, WithinInv, [Next]_vars
  PROVE  WithinInv'
<1>0. store \in [Keys -> Entries \cup {Absent}] /\ now \in Nat
      /\ pc = [c \in Conns |-> pc[c]] /\ loc = [c \in Conns |-> loc[c]]
  BY CommandsAssumption DEF SetInv, TypeOK
<1> USE DEF Reply, ReplyThen, Continue, conns, history
<1>1. ASSUME NEW d \in Conns, Command(d)
      PROVE  WithinInv'
  <2>1. UNCHANGED <<store, now>>
    BY <1>1, OwnStep, Zenon
  <2>2. ASSUME NEW label \in {"idle", "closed", "loop", "setClock"}, NEW locals,
               pc' = [pc EXCEPT ![d] = label], loc' = [loc EXCEPT ![d] = locals]
        PROVE  WithinInv'
    BY <2>1, <2>2, WithinLocal, Zenon
  <2>3. ASSUME NEW k \in Keys, NEW verb, store[k] # Absent,
               pc' = [pc EXCEPT ![d] = "ttlReply"],
               loc' = [loc EXCEPT ![d] = [NoLocals EXCEPT !.verb = verb,
                                                         !.entry = store[k]]]
        PROVE  WithinInv'
    <3> DEFINE l == [NoLocals EXCEPT !.verb = verb, !.entry = store[k]]
    <3>1. l.entry = store[k]
      BY Zenon DEF NoLocals
    <3>2. Within(l.entry)
      BY <2>3, <3>1, Zenon DEF WithinInv
    <3> HIDE DEF l
    <3>3. loc' = [loc EXCEPT ![d] = l]
      BY <2>3, Zenon DEF l
    <3> QED  BY <2>1, <2>3, <3>2, <3>3, WithinLocal, Zenon
  <2>4. \/ \E label \in {"idle", "closed", "loop", "setClock"} : \E locals :
             pc' = [pc EXCEPT ![d] = label] /\ loc' = [loc EXCEPT ![d] = locals]
        \/ \E k \in Keys : \E verb :
             /\ store[k] # Absent
             /\ pc' = [pc EXCEPT ![d] = "ttlReply"]
             /\ loc' = [loc EXCEPT ![d] = [NoLocals EXCEPT !.verb = verb,
                                                          !.entry = store[k]]]
    BY <1>1, OwnStep, Zenon
  <2> QED  BY <2>2, <2>3, <2>4, Zenon
<1>2. ASSUME NEW d \in Conns, SetStore(d)
      PROVE  WithinInv'
  <2>1. /\ pc[d] = "setStore" /\ pc' = [pc EXCEPT ![d] = "idle"]
        /\ loc' = [loc EXCEPT ![d] = NoLocals] /\ UNCHANGED now
        /\ store' = store \/ store' = [store EXCEPT ![loc[d].key] = loc[d].entry]
    BY <1>2, Zenon DEF SetStore
  <2>2. Within(loc[d].entry)
    BY <2>1, Zenon DEF WithinInv
  <2>3. \A k \in Keys : store'[k] = store[k] \/ Within(store'[k])
    BY <1>0, <2>1, <2>2, Zenon
  <2> QED  BY <2>1, <2>3, WithinLocal, Zenon
<1>3. ASSUME NEW d \in Conns, DelKey(d) \/ ExistsKey(d) \/ TTLReply(d)
      PROVE  WithinInv'
  <2>1. UNCHANGED now
        /\ \E x : store' = store \/ store' = [store EXCEPT ![x] = Absent]
    BY <1>3, Zenon DEF DelKey, ExistsKey, TTLReply
  <2>2. \A k \in Keys : store'[k] = store[k] \/ store'[k] = Absent
    BY <1>0, <2>1, Zenon
  <2>3. \E label \in {"idle", "loop"} : \E locals :
          pc' = [pc EXCEPT ![d] = label] /\ loc' = [loc EXCEPT ![d] = locals]
    <3>1. CASE TTLReply(d)
      <4>1. pc' = [pc EXCEPT ![d] = "idle"] /\ loc' = [loc EXCEPT ![d] = NoLocals]
        BY <3>1, Zenon DEF TTLReply
      <4> QED  BY <4>1, Zenon
    <3>2. ASSUME NEW hit, Counted(d, hit)
          PROVE  \E label \in {"idle", "loop"} : \E locals :
                   pc' = [pc EXCEPT ![d] = label] /\ loc' = [loc EXCEPT ![d] = locals]
      BY <3>2, Zenon DEF Counted
    <3> QED  BY <1>3, <3>1, <3>2, Zenon DEF DelKey, ExistsKey
  <2> QED  BY <2>1, <2>2, <2>3, WithinLocal, Zenon
<1>4. ASSUME NEW k \in Keys, Evict(k)
      PROVE  WithinInv'
  BY <1>0, <1>4, Zenon DEF Evict, WithinInv, Within
<1>5. CASE Tick
  <2>1. now' = now + 1 /\ UNCHANGED <<store, pc, loc>>
    BY <1>5, Zenon DEF Tick
  <2>2. ASSUME NEW e, Within(e)
        PROVE  Within(e)'
    <3>1. Second \in Nat
      BY CommandsAssumption DEF Second
    <3>2. e.unit = "EX" => e.expiresAt \in Nat /\ e.n * Second \in Nat
      BY <2>2, <3>1, SMTT(30) DEF Within, Entries
    <3> QED  BY <1>0, <2>1, <2>2, <3>2, SMTT(30) DEF Within
  <2>3. \A c \in Conns : /\ pc[c] = "ttlReply" => Within(loc[c].entry)'
                         /\ pc[c] = "setStore" => Within(loc[c].entry)'
    BY <2>1, <2>2, Zenon DEF WithinInv, Within
  <2>4. \A k \in Keys : store[k] # Absent => Within(store[k])'
    BY <2>1, <2>2, Zenon DEF WithinInv, Within
  <2> QED  BY <2>1, <2>3, <2>4, Zenon DEF WithinInv
<1>6. CASE UNCHANGED vars
  BY <1>6, Zenon DEF vars, WithinInv, Within
<1> QED  BY <1>1, <1>2, <1>3, <1>4, <1>5, <1>6, WithinClock, Zenon
            DEF Next, Handler, Finished

\* A reply of TTL is one of TTLReply, on the entry that it found.
LEMMA TTLStep ==
  ASSUME SetInv, WithinInv, Next, NEW c \in Conns, pc[c] = "ttlReply",
         pc'[c] = "idle", loc[c].verb = "TTL", loc[c].entry.unit = "EX"
  PROVE  last'.out[1].n <= loc[c].entry.n
<1>0. now \in Nat /\ pc = [d \in Conns |-> pc[d]]
      /\ Millisecond \in Nat \ {0} /\ MsPerSecond \in Nat \ {0}
  BY CommandsAssumption, SMTT(30) DEF SetInv, TypeOK
<1>1. TTLReply(c)
  <2>1. ASSUME NEW d \in Conns, Command(d)
        PROVE  FALSE
    <3>1. pc[d] = "idle" /\ \E label : pc' = [pc EXCEPT ![d] = label]
      BY <2>1, OwnStep, Zenon
    <3> QED  BY <1>0, <3>1, Zenon
  <2>2. ASSUME NEW d \in Conns, Handler(d), d # c
        PROVE  FALSE
    <3>1. \E label : pc' = [pc EXCEPT ![d] = label]
      BY <2>2, Zenon
         DEF Handler, SetClock, SetStore, DelKey, ExistsKey, TTLReply, Counted,
             Reply, ReplyThen, Continue
    <3> QED  BY <1>0, <2>2, <3>1, Zenon
  <2>3. CASE Handler(c)
    BY <2>3, Zenon DEF Handler, SetClock, SetStore, DelKey, ExistsKey
  <2>4. CASE Tick \/ (\E k \in Keys : Evict(k)) \/ Finished
    BY <2>4, Zenon DEF Tick, Evict, Finished, vars
  <2> QED  BY <2>1, <2>2, <2>3, <2>4, Zenon DEF Next
<1> DEFINE e == loc[c].entry
           r == e.expiresAt - now
           x == IF r < 0 THEN -1 ELSE inUnit("TTL", r \div Millisecond)
<1>2. last' = [to |-> c, out |-> <<Element(":", x)>>]
  BY <1>1, Zenon DEF TTLReply, Reply, ReplyThen, WriteInt
<1>3. last'.out[1].n = x
  <2> HIDE DEF x
  <2> QED  BY <1>2, Zenon DEF Element
<1>4. e \in Entries /\ e.n \in Nat /\ e.expiresAt <= now + e.n * Second
  BY Zenon DEF WithinInv, Within
<1>5. x <= e.n
  <2>1. CASE r < 0
    BY <1>4, <2>1, SMTT(30)
  <2>2. CASE ~(r < 0)
    <3>1. r \in Nat /\ r <= e.n * (MsPerSecond * Millisecond)
      <4>1. e.expiresAt \in Nat /\ Second = MsPerSecond * Millisecond
        BY <1>4, Zenon DEF Entries, Second
      <4>2. e.n * Second \in Int
        BY <1>0, <1>4, <4>1, SMTT(30)
      <4> QED  BY <1>0, <1>4, <2>2, <4>1, <4>2, SMTT(30)
    <3>2. x = ((r \div Millisecond) + MsPerSecond \div 2) \div MsPerSecond
      BY <2>2, Zenon DEF inUnit
    <3> HIDE DEF x, r, e
    <3> QED  BY <1>0, <1>4, <3>1, <3>2, Rounded, Zenon
  <2> QED  BY <2>1, <2>2, Zenon
<1> QED  BY <1>3, <1>5, Zenon

\* commands.go:220, for every unit of time and every lifetime: rounding to the
\* nearest second never shows a client more seconds than it has set.
THEOREM TTLWithinEXHolds == Spec => TTLWithinEX
<1>1. Init => WithinInv
  BY ZenonT(30) DEF Init, WithinInv
<1>2. SetInv /\ WithinInv /\ [Next]_vars => WithinInv'
  BY WithinStep, Zenon
<1>3. SetInv /\ WithinInv /\ [Next]_vars =>
        [\A c \in Conns :
           pc[c] = "ttlReply" /\ pc'[c] = "idle" =>
             LET l == loc[c]
             IN  l.verb = "TTL" /\ l.entry.unit = "EX" =>
                   last'.out[1].n <= l.entry.n]_vars
  BY TTLStep, Zenon
<1> QED  BY <1>1, <1>2, <1>3, SetInvHolds, PTL DEF Spec, TTLWithinEX
-----------------------------------------------------------------------------
(* What a reply is. *)

\* A set of numbers has a least one: what a proof by induction comes down to.
LEMMA LeastNumber ==
  ASSUME NEW T, T \subseteq Nat, T # {}
  PROVE  \E n \in T : \A m \in T : n <= m
<1>1. PICK n \in T : \A m \in T : ~(<<m, n>> \in OpToRel(<, Nat))
  BY NatLessThanWellFounded, WFMin
<1>2. \A m \in T : ~(m < n)
  BY <1>1 DEF OpToRel
<1> QED  BY <1>2

\* A function that does what owed does says what OneValue asks for.
LEMMA OneValueIf ==
  ASSUME NEW out, NEW f,
         f = [i \in 0..Len(out) |->
                IF i = 0 THEN 1 ELSE f[i - 1] - 1 + children(out[i])],
         \A g : g = [i \in 0..Len(out) |->
                       IF i = 0 THEN 1 ELSE g[i - 1] - 1 + children(out[i])] =>
           \A i \in 0..Len(out) : g[i] = 0 <=> i = Len(out)
  PROVE  OneValue(out)
BY Zenon DEF OneValue

\* An element and the elements it announces, which announce no others.
LEMMA OneReply ==
  ASSUME NEW S, NEW out \in Seq(S), Len(out) >= 1,
         children(out[1]) = Len(out) - 1,
         \A i \in 2..Len(out) : children(out[i]) = 0
  PROVE  OneValue(out)
<1> DEFINE L == Len(out)
           f == [i \in 0..L |-> IF i = 0 THEN 1 ELSE L - i]
<1>1. L \in Nat
  OBVIOUS
<1>2. \A i \in 0..L : f[i] = IF i = 0 THEN 1 ELSE L - i
  OBVIOUS
<1>3. \A i \in 1..L : f[i] = f[i - 1] - 1 + children(out[i])
  <2> TAKE i \in 1..L
  <2>1. f[i] = L - i /\ i - 1 \in 0..L
    BY <1>1
  <2>2. CASE i = 1
    <3>1. f[0] = 1
      BY <1>1
    <3> HIDE DEF f
    <3> QED  BY <1>1, <2>1, <2>2, <3>1
  <2>3. CASE i # 1
    <3>1. f[i - 1] = L - (i - 1) /\ children(out[i]) = 0
      BY <1>1, <2>3
    <3> HIDE DEF f
    <3> QED  BY <1>1, <2>1, <3>1
  <2> QED  BY <2>2, <2>3, Zenon
<1>4. f = [i \in 0..L |-> IF i = 0 THEN 1 ELSE f[i - 1] - 1 + children(out[i])]
  <2>1. \A i \in 0..L : i # 0 => L - i = f[i - 1] - 1 + children(out[i])
    <3>1. \A i \in 0..L : i # 0 => i \in 1..L
      BY <1>1
    <3>2. \A i \in 1..L : f[i] = L - i
      BY <1>1
    <3> QED  BY <1>3, <3>1, <3>2, Zenon
  <2>2. f = [i \in 0..L |-> IF i = 0 THEN 1 ELSE L - i]
    OBVIOUS
  <2> QED  BY <2>1, <2>2, Zenon
<1>5. ASSUME NEW g, g = [i \in 0..L |->
               IF i = 0 THEN 1 ELSE g[i - 1] - 1 + children(out[i])]
      PROVE  \A i \in 0..L : g[i] = 0 <=> i = L
  <2>1. g[0] = 1 /\ \A i \in 1..L : g[i] = g[i - 1] - 1 + children(out[i])
    BY <1>1, <1>5
  <2> DEFINE T == {i \in 0..L : g[i] # f[i]}
  <2> HIDE DEF f
  <2>2. ASSUME T # {} PROVE FALSE
    <3>1. PICK n \in T : \A m \in T : n <= m
      <4>1. T \subseteq Nat
        OBVIOUS
      <4> HIDE DEF T
      <4> QED  BY <2>2, <4>1, LeastNumber, Zenon
    <3>2. n \in 0..L /\ g[n] # f[n]
      BY <3>1
    <3>3. f[0] = 1
      BY <1>1, <1>2
    <3>4. n \in 1..L /\ n - 1 \in 0..L /\ ~(n <= n - 1)
      BY <1>1, <2>1, <3>2, <3>3
    <3>5. g[n - 1] = f[n - 1]
      BY <3>1, <3>4
    <3> QED  BY <1>3, <2>1, <3>2, <3>4, <3>5, Zenon
  <2>3. \A i \in 0..L : g[i] = f[i]
    BY <2>2, Zenon
  <2>4. \A i \in 0..L : f[i] = 0 <=> i = L
    BY <1>1, <1>2
  <2> QED  BY <2>3, <2>4, Zenon
<1> HIDE DEF f
<1> QED  BY <1>4, <1>5, OneValueIf, Zenon

\* The elements the writer knows, by themselves.
LEMMA Elements ==
  /\ \A n : children(Element(":", n)) = 0 /\ children(Element("*", n)) = n
  /\ \A n : children(Element("%", n)) = 2 * n
  /\ \A t \in {"+", "-", "_", "$"} : \A n : children(Element(t, n)) = 0
<1>1. \A t, n : Element(t, n).type = t /\ Element(t, n).n = n
  BY DEF Element
<1>2. /\ ":" # "*" /\ ":" # "%" /\ "*" # "%"
      /\ \A t \in {"+", "-", "_", "$"} : t # "*" /\ t # "%"
  OBVIOUS
<1> QED  BY <1>1, <1>2, Zenon DEF children

LEMMA Dialects ==
  /\ \A t \in {":", "*", "+", "-"} : \A d, n : Speaks(d, Element(t, n))
  /\ \A d : Speaks(d, Element("$", 0))
  /\ \A t \in {"%", "_"} : \A n : Speaks(3, Element(t, n))
  /\ Speaks(2, Element("$", -1))
<1>1. \A t, n : Element(t, n).type = t
  BY DEF Element
<1>2. /\ \A t \in {":", "*", "+", "-"} :
           t \notin {"_", "%"} /\ t # "$" /\ t \in {"+", "-", ":", "$", "*"}
      /\ "$" \notin {"_", "%"} /\ "$" \in {"+", "-", ":", "$", "*"}
      /\ \A t \in {"%", "_"} : t \in {"_", "%"}
  OBVIOUS
<1>3. Element("$", 0) # Element("$", -1)
  BY DEF Element
<1>4. \A t \in {":", "*", "+", "-"} : \A d, n : Speaks(d, Element(t, n))
  <2> TAKE t \in {":", "*", "+", "-"}
  <2> TAKE d, n
  <2>1. Element(t, n).type = t /\ Element("$", -1).type = "$"
    BY <1>1, Zenon
  <2>2. t \notin {"_", "%"} /\ t # "$" /\ t \in {"+", "-", ":", "$", "*"}
    BY <1>2, Zenon
  <2>3. Element(t, n) # Element("$", -1)
    BY <2>1, <2>2, Zenon
  <2> QED  BY <2>1, <2>2, <2>3, Zenon DEF Speaks
<1>5. \A d : Speaks(d, Element("$", 0))
  BY <1>1, <1>2, <1>3, Zenon DEF Speaks
<1>6. \A t \in {"%", "_"} : \A n : Speaks(3, Element(t, n))
  <2> TAKE t \in {"%", "_"}
  <2> TAKE n
  <2>1. Element(t, n).type = t
    BY <1>1, Zenon
  <2>2. t \in {"_", "%"} /\ t # "$" /\ Element("$", -1).type = "$"
    BY <1>1
  <2>3. Element(t, n) # Element("$", -1)
    BY <2>1, <2>2, Zenon
  <2> QED  BY <2>1, <2>2, <2>3, Zenon DEF Speaks
<1>7. Speaks(2, Element("$", -1))
  BY <1>1, <1>2, Zenon DEF Speaks
<1> QED  BY <1>4, <1>5, <1>6, <1>7, Zenon

\* An element without children is a reply.
LEMMA OneElement ==
  ASSUME NEW d, NEW e, children(e) = 0, Speaks(d, e)
  PROVE  Decodes(d, <<e>>)
<1>1. <<e>> \in Seq({e}) /\ Len(<<e>>) = 1 /\ <<e>>[1] = e
  OBVIOUS
<1>2. 1 >= 1 /\ 0 = 1 - 1 /\ \A i \in 2..1 : FALSE
  OBVIOUS
<1>3. OneValue(<<e>>)
  BY <1>1, <1>2, OneReply, Zenon
<1>4. \A i \in 1..1 : <<e>>[i] = e
  OBVIOUS
<1> QED  BY <1>1, <1>3, <1>4, Zenon DEF Decodes

\* What is echoed has no line break, so an error is one line.
LEMMA OneLine ==
  ASSUME NEW S, NEW text \in Seq(S), \A i \in DOMAIN text : text[i] # "control"
  PROVE  \A d : Decodes(d, WriteError(text))
<1> TAKE d
<1>1. {j \in DOMAIN text : text[j] = "control"} = {}
  BY Zenon
<1>2. Cardinality({j \in DOMAIN text : text[j] = "control"}) = 0
  BY <1>1, FS_EmptySet, Zenon
<1>3. [i \in 1..0 |-> Stray] = <<>>
  OBVIOUS
<1> DEFINE e == Element("-", 0)
<1> HIDE DEF e
<1>4. <<e>> \o <<>> = <<e>>
  OBVIOUS
<1>5. WriteError(text) = <<e>>
  BY <1>2, <1>3, <1>4, Zenon DEF WriteError, e
<1>6. children(e) = 0 /\ Speaks(d, e)
  <2>1. "-" \in {"+", "-", "_", "$"} /\ "-" \in {":", "*", "+", "-"}
    OBVIOUS
  <2> QED  BY <2>1, Elements, Dialects, Zenon DEF e
<1> QED  BY <1>5, <1>6, OneElement, Zenon

LEMMA Messages ==
  /\ \A d : Decodes(d, WriteError(Message))
  /\ \A S : \A text \in Seq(S) : \A d :
       Decodes(d, WriteError(Message \o sanitizeText(text)))
<1>1. /\ Message \in Seq({"m"}) /\ Len(Message) = 1
      /\ \A i \in DOMAIN Message : Message[i] # "control"
  BY DEF Message
<1>2. ASSUME NEW S, NEW text \in Seq(S)
      PROVE  /\ Message \o sanitizeText(text) \in Seq(S \cup {"?", "m"})
             /\ \A i \in DOMAIN (Message \o sanitizeText(text)) :
                  (Message \o sanitizeText(text))[i] # "control"
  <2> DEFINE n == IF Len(text) > MaxErrEchoLen THEN MaxErrEchoLen ELSE Len(text)
             s == sanitizeText(text)
  <2>1. n \in Nat /\ n <= Len(text)
    BY CommandsAssumption
  <2>2. s = [i \in 1..n |-> IF text[i] = "control" THEN "?" ELSE text[i]]
    BY Zenon DEF sanitizeText
  <2>3. \A i \in 1..n : text[i] \in S
    BY <2>1
  <2> HIDE DEF n, s
  <2>4. \A i \in 1..n : s[i] = IF text[i] = "control" THEN "?" ELSE text[i]
    BY <2>2, Zenon
  <2>5. "?" # "control"
    OBVIOUS
  <2>6. \A i \in 1..n : s[i] \in S \cup {"?"} /\ s[i] # "control"
    BY <2>3, <2>4, <2>5, Zenon
  <2>7. s \in Seq(S \cup {"?"}) /\ Len(s) = n
    BY <2>1, <2>2, <2>6
  <2>8. Message \o s \in Seq(S \cup {"?", "m"})
    BY <1>1, <2>7
  <2>9. /\ DOMAIN (Message \o s) = 1..(1 + n) /\ (Message \o s)[1] = Message[1]
        /\ \A i \in 2..(1 + n) : (Message \o s)[i] = s[i - 1] /\ i - 1 \in 1..n
    BY <2>1, <2>7 DEF Message
  <2>10. \A i \in 1..(1 + n) : i = 1 \/ i \in 2..(1 + n)
    BY <2>1
  <2>11. Message[1] # "control"
    BY DEF Message
  <2>12. \A i \in DOMAIN (Message \o s) : (Message \o s)[i] # "control"
    BY <2>6, <2>9, <2>10, <2>11, Zenon
  <2> QED  BY <2>8, <2>12, Zenon DEF s
<1> QED  BY <1>1, <1>2, OneLine, Zenon

\* Every reply of one element.
LEMMA OneElements ==
  /\ \A d : \A n : Decodes(d, WriteInt(n))
  /\ \A d : Decodes(d, WriteSimpleString) /\ Decodes(d, WriteBulk)
            /\ Decodes(d, WriteArrayHeader(0))
  /\ \A d \in {2, 3} : Decodes(d, WriteNull(d))
<1>1. /\ ":" \in {":", "*", "+", "-"} /\ "*" \in {":", "*", "+", "-"}
      /\ "+" \in {":", "*", "+", "-"} /\ "+" \in {"+", "-", "_", "$"}
      /\ "$" \in {"+", "-", "_", "$"} /\ "_" \in {"+", "-", "_", "$"}
      /\ "_" \in {"%", "_"} /\ ~(2 >= 3) /\ 3 >= 3
  OBVIOUS
<1>2. \A d : \A n : Decodes(d, WriteInt(n))
  BY <1>1, Elements, Dialects, OneElement, Zenon DEF WriteInt
<1>3. \A d : Decodes(d, WriteSimpleString)
  BY <1>1, Elements, Dialects, OneElement, Zenon DEF WriteSimpleString
<1>4. \A d : Decodes(d, WriteBulk)
  BY <1>1, Elements, Dialects, OneElement, Zenon DEF WriteBulk
<1>5. \A d : Decodes(d, WriteArrayHeader(0))
  BY <1>1, Elements, Dialects, OneElement, Zenon DEF WriteArrayHeader
<1>6. Decodes(2, WriteNull(2))
  BY <1>1, Elements, Dialects, OneElement, Zenon DEF WriteNull
<1>7. Decodes(3, WriteNull(3))
  BY <1>1, Elements, Dialects, OneElement, Zenon DEF WriteNull
<1> QED  BY <1>2, <1>3, <1>4, <1>5, <1>6, <1>7, Zenon

\* The beginning of a reply with header h: n elements, and those after the header
\* announce no others.
Begun(d, s, h, n) ==
  /\ \E S : s \in Seq(S)
  /\ Len(s) = n /\ s[1] = h
  /\ \A i \in 2..n : children(s[i]) = 0 /\ Speaks(d, s[i])

\* The seventh element of a reply, which in HELLO's is the protocol version.
Tells(s, v) == s[7] = v

\* One more name and value.
Extended(s, e) == s \o WriteBulk \o <<e>>

Continues(w, s, n, e) ==
  /\ \E S : w \in Seq(S)
  /\ Len(w) = n + 2
  /\ w[n + 1] = Element("$", 0) /\ w[n + 2] = e
  /\ \A i \in 1..n : w[i] = s[i]

LEMMA ExtendedAt ==
  ASSUME NEW d, NEW s, NEW h, NEW n \in Nat, n >= 1, Begun(d, s, h, n), NEW e
  PROVE  Continues(Extended(s, e), s, n, e)
<1> DEFINE b == Element("$", 0)
           w == s \o <<b>> \o <<e>>
<1>1. Extended(s, e) = w
  BY Zenon DEF Extended, WriteBulk
<1> HIDE DEF b
<1>2. PICK S : s \in Seq(S)
  BY Zenon DEF Begun
<1>3. Len(s) = n
  BY Zenon DEF Begun
<1>4. \E T : w \in Seq(T)
  <2>1. s \in Seq(S \cup {b, e}) /\ <<b>> \in Seq(S \cup {b, e})
        /\ <<e>> \in Seq(S \cup {b, e})
    BY <1>2
  <2>2. w \in Seq(S \cup {b, e})
    BY <2>1
  <2> QED  BY <2>2, Zenon
<1>5. Len(w) = n + 2
  BY <1>2, <1>3
<1>6. w[n + 1] = b /\ w[n + 2] = e /\ \A i \in 1..n : w[i] = s[i]
  <2> DEFINE y == s \o <<b>>
  <2>1. y \in Seq(S \cup {b}) /\ Len(y) = n + 1 /\ y[n + 1] = b
    BY <1>2, <1>3
  <2>2. \A i \in 1..n : y[i] = s[i]
    BY <1>2, <1>3
  <2>3. w = y \o <<e>>
    OBVIOUS
  <2> HIDE DEF y, w
  <2>4. w[n + 2] = e
    BY <2>1, <2>3
  <2>5. \A i \in 1..(n + 1) : w[i] = y[i]
    BY <2>1, <2>3
  <2> QED  BY <2>1, <2>2, <2>4, <2>5
<1> HIDE DEF w
<1> QED  BY <1>1, <1>4, <1>5, <1>6, Zenon DEF b, Continues

LEMMA Field ==
  ASSUME NEW d, NEW s, NEW h, NEW n \in Nat, n >= 1, Begun(d, s, h, n),
         NEW e, children(e) = 0, Speaks(d, e)
  PROVE  Begun(d, Extended(s, e), h, n + 2)
<1> DEFINE b == Element("$", 0)
           w == Extended(s, e)
<1>1. children(b) = 0 /\ Speaks(d, b)
  <2>1. "$" \in {"+", "-", "_", "$"}
    OBVIOUS
  <2> QED  BY <2>1, Elements, Dialects, Zenon
<1>2. /\ \E S : w \in Seq(S)
      /\ Len(w) = n + 2
      /\ w[n + 1] = b /\ w[n + 2] = e
      /\ \A i \in 1..n : w[i] = s[i]
  <2>1. Continues(w, s, n, e)
    BY ExtendedAt, Zenon
  <2> QED  BY <2>1, Zenon DEF Continues
<1>3. /\ s[1] = h
      /\ \A i \in 2..n : children(s[i]) = 0 /\ Speaks(d, s[i])
  BY Zenon DEF Begun
<1> HIDE DEF b, w
<1>4. /\ \A i \in 2..(n + 2) : i \in 2..n \/ i = n + 1 \/ i = n + 2
      /\ \A i \in 2..n : i \in 1..n
      /\ 1 \in 1..n
  OBVIOUS
<1>5. \A i \in 2..(n + 2) : children(w[i]) = 0 /\ Speaks(d, w[i])
  BY <1>1, <1>2, <1>3, <1>4, Zenon
<1>6. Begun(d, w, h, n + 2)
  BY <1>2, <1>3, <1>4, <1>5, Zenon DEF Begun
<1> QED  BY <1>6, Zenon DEF w

LEMMA FieldTells ==
  ASSUME NEW d, NEW s, NEW h, Begun(d, s, h, 5), NEW e
  PROVE  Tells(Extended(s, e), e)
<1>1. 5 \in Nat /\ 5 >= 1 /\ 5 + 2 = 7
  OBVIOUS
<1>2. Continues(Extended(s, e), s, 5, e)
  BY <1>1, ExtendedAt, Zenon
<1> QED  BY <1>1, <1>2, Zenon DEF Tells, Continues

LEMMA FieldKeeps ==
  ASSUME NEW d, NEW s, NEW h, NEW n \in Nat, n >= 7, Begun(d, s, h, n), NEW e,
         NEW v, Tells(s, v)
  PROVE  Tells(Extended(s, e), v)
<1>1. n >= 1 /\ 7 \in 1..n
  OBVIOUS
<1>2. Continues(Extended(s, e), s, n, e)
  BY <1>1, ExtendedAt, Zenon
<1>3. Extended(s, e)[7] = s[7]
  BY <1>1, <1>2, Zenon DEF Continues
<1> QED  BY <1>3, Zenon DEF Tells

\* With all the elements that its header announces it is a reply.
LEMMA Whole ==
  ASSUME NEW d, NEW s, NEW h, NEW n \in Nat, n >= 1, Begun(d, s, h, n),
         children(h) = n - 1, Speaks(d, h)
  PROVE  Decodes(d, s)
<1>1. PICK S : s \in Seq(S)
  BY Zenon DEF Begun
<1>2. /\ Len(s) = n /\ s[1] = h
      /\ \A i \in 2..n : children(s[i]) = 0 /\ Speaks(d, s[i])
  BY Zenon DEF Begun
<1>3. OneValue(s)
  BY <1>1, <1>2, OneReply, Zenon
<1>4. \A i \in 1..n : i = 1 \/ i \in 2..n
  OBVIOUS
<1> QED  BY <1>2, <1>3, <1>4, Zenon DEF Decodes

LEMMA HeaderBegun == \A d, h : Begun(d, <<h>>, h, 1)
<1> TAKE d, h
<1>1. /\ <<h>> \in Seq({h}) /\ Len(<<h>>) = 1 /\ <<h>>[1] = h
      /\ \A i \in 2..1 : FALSE
  OBVIOUS
<1> QED  BY <1>1, Zenon DEF Begun

\* The name and the value of a parameter.
LEMMA ConfigPairs == \A d : Decodes(d, writeConfigPair)
<1> TAKE d
<1> DEFINE h == Element("*", 2)
           b == Element("$", 0)
<1>1. children(h) = 2 /\ children(b) = 0 /\ Speaks(d, h) /\ Speaks(d, b)
  <2>1. "$" \in {"+", "-", "_", "$"} /\ "*" \in {":", "*", "+", "-"}
    OBVIOUS
  <2> QED  BY <2>1, Elements, Dialects, Zenon
<1>2. writeConfigPair = Extended(<<h>>, b)
  BY Zenon DEF Extended, writeConfigPair, WriteArrayHeader, WriteBulk
<1> HIDE DEF h, b
<1>3. 1 \in Nat /\ 1 >= 1 /\ 3 = 1 + 2 /\ 3 \in Nat /\ 3 >= 1 /\ 3 - 1 = 2
  OBVIOUS
<1>4. Begun(d, writeConfigPair, h, 1 + 2)
  BY <1>1, <1>2, <1>3, HeaderBegun, Field, Zenon
<1>5. Begun(d, writeConfigPair, h, 3)
  BY <1>3, <1>4, Zenon
<1> QED  BY <1>1, <1>3, <1>5, Whole, Zenon

\* The seven fields of HELLO are one reply of the writer's dialect, and the
\* seventh element is the dialect it tells the client of.
LEMMA HelloMap ==
  ASSUME NEW d \in {2, 3}, NEW p, NEW id
  PROVE  Decodes(d, writeHelloMap(d, p, id)) /\ writeHelloMap(d, p, id)[7].n = p
<1> DEFINE h == IF d >= 3 THEN Element("%", 7) ELSE Element("*", 2 * 7)
           b == Element("$", 0)
           v == Element(":", p)
           x == Element(":", id)
           a == Element("*", 0)
           f1 == Extended(<<h>>, b)
           f2 == Extended(f1, b)
           f3 == Extended(f2, v)
           f4 == Extended(f3, x)
           f5 == Extended(f4, b)
           f6 == Extended(f5, b)
           f7 == Extended(f6, a)
<1>1. /\ "$" \in {"+", "-", "_", "$"} /\ "*" \in {":", "*", "+", "-"}
      /\ ":" \in {":", "*", "+", "-"} /\ "%" \in {"%", "_"}
      /\ 3 >= 3 /\ ~(2 >= 3) /\ 2 * 7 = 14
  OBVIOUS
<1>2. children(h) = 14 /\ Speaks(d, h)
  BY <1>1, Elements, Dialects, Zenon
<1>3. /\ children(b) = 0 /\ children(v) = 0 /\ children(x) = 0 /\ children(a) = 0
      /\ Speaks(d, b) /\ Speaks(d, v) /\ Speaks(d, x) /\ Speaks(d, a)
  BY <1>1, Elements, Dialects, Zenon
<1>4. WriteBulk = <<b>>
  BY Zenon DEF WriteBulk
<1>5. writeHelloMap(d, p, id) = f7
  BY <1>4, Zenon DEF Extended, writeHelloMap, WriteMapHeader, WriteInt, WriteArrayHeader
<1>6. v.n = p
  BY DEF Element
<1> HIDE DEF h, b, v, x, a
<1>7. Begun(d, f2, h, 5)
  <2>1. /\ 1 \in Nat /\ 1 >= 1 /\ 3 = 1 + 2
        /\ 3 \in Nat /\ 3 >= 1 /\ 5 = 3 + 2
    OBVIOUS
  <2>3. Begun(d, f1, h, 1 + 2)
    BY <1>3, <2>1, HeaderBegun, Field, Zenon
  <2>4. Begun(d, f1, h, 3)
    BY <2>1, <2>3, Zenon
  <2> HIDE DEF f1
  <2>5. Begun(d, f2, h, 3 + 2)
    BY <1>3, <2>1, <2>4, Field, Zenon
  <2> QED  BY <2>1, <2>5, Zenon
<1> HIDE DEF f1, f2
<1>8. Begun(d, f3, h, 7) /\ Tells(f3, v)
  <2>1. 5 \in Nat /\ 5 >= 1 /\ 7 = 5 + 2
    OBVIOUS
  <2>3. Begun(d, f3, h, 5 + 2)
    BY <1>3, <1>7, <2>1, Field, Zenon
  <2>4. Tells(f3, v)
    BY <1>3, <1>7, <2>1, FieldTells, Zenon
  <2> QED  BY <2>1, <2>3, <2>4, Zenon
<1> HIDE DEF f3
<1>9. Begun(d, f4, h, 9) /\ Tells(f4, v)
  <2>1. 7 \in Nat /\ 7 >= 1 /\ 9 = 7 + 2 /\ 7 >= 7
    OBVIOUS
  <2>3. Begun(d, f4, h, 7 + 2)
    BY <1>3, <1>8, <2>1, Field, Zenon
  <2>4. Tells(f4, v)
    BY <1>3, <1>8, <2>1, FieldKeeps, Zenon
  <2> QED  BY <2>1, <2>3, <2>4, Zenon
<1> HIDE DEF f4
<1>10. Begun(d, f5, h, 11) /\ Tells(f5, v)
  <2>1. 9 \in Nat /\ 9 >= 1 /\ 11 = 9 + 2 /\ 9 >= 7
    OBVIOUS
  <2>3. Begun(d, f5, h, 9 + 2)
    BY <1>3, <1>9, <2>1, Field, Zenon
  <2>4. Tells(f5, v)
    BY <1>3, <1>9, <2>1, FieldKeeps, Zenon
  <2> QED  BY <2>1, <2>3, <2>4, Zenon
<1> HIDE DEF f5
<1>11. Begun(d, f6, h, 13) /\ Tells(f6, v)
  <2>1. 11 \in Nat /\ 11 >= 1 /\ 13 = 11 + 2 /\ 11 >= 7
    OBVIOUS
  <2>3. Begun(d, f6, h, 11 + 2)
    BY <1>3, <1>10, <2>1, Field, Zenon
  <2>4. Tells(f6, v)
    BY <1>3, <1>10, <2>1, FieldKeeps, Zenon
  <2> QED  BY <2>1, <2>3, <2>4, Zenon
<1> HIDE DEF f6
<1>12. Begun(d, f7, h, 15) /\ Tells(f7, v)
  <2>1. 13 \in Nat /\ 13 >= 1 /\ 15 = 13 + 2 /\ 13 >= 7
    OBVIOUS
  <2>3. Begun(d, f7, h, 13 + 2)
    BY <1>3, <1>11, <2>1, Field, Zenon
  <2>4. Tells(f7, v)
    BY <1>3, <1>11, <2>1, FieldKeeps, Zenon
  <2> QED  BY <2>1, <2>3, <2>4, Zenon
<1> HIDE DEF f7
<1>13. Decodes(d, f7)
  <2>1. 15 \in Nat /\ 15 >= 1 /\ 14 = 15 - 1
    OBVIOUS
  <2> QED  BY <1>2, <1>12, <2>1, Whole, Zenon
<1> QED  BY <1>5, <1>6, <1>12, <1>13, Zenon DEF Tells

-----------------------------------------------------------------------------
(* The dialect of a connection. *)

\* A connection, its writer and its client agree on the dialect.
DialectInv ==
  /\ wproto \in [Conns -> {2, 3}] /\ proto = wproto /\ told = wproto
  /\ last.to # Absent => last.to \in Conns /\ Decodes(wproto[last.to], last.out)

LEMMA SilentStep ==
  ASSUME DialectInv, last' = Silent, UNCHANGED <<proto, wproto, told>>
  PROVE  DialectInv'
<1>1. last'.to = Absent
  BY DEF Silent
<1>2. proto' = proto /\ wproto' = wproto /\ told' = told
  BY Zenon
<1> QED  BY <1>1, <1>2, Zenon DEF DialectInv

LEMMA ReplyStep ==
  ASSUME DialectInv, NEW c \in Conns, NEW out, NEW label, ReplyThen(c, out, label),
         UNCHANGED <<proto, wproto, told>>, Decodes(wproto[c], out)
  PROVE  DialectInv'
<1>1. last' = [to |-> c, out |-> out]
  BY Zenon DEF ReplyThen
<1>2. last'.to = c /\ last'.out = out
  BY <1>1
<1>3. proto' = proto /\ wproto' = wproto /\ told' = told
  BY Zenon
<1> QED  BY <1>2, <1>3, Zenon DEF DialectInv

\* HELLO: the three change together, and the client is told by the reply.
LEMMA HelloStep ==
  ASSUME DialectInv, NEW c \in Conns, NEW version \in {0, 2, 3, 4}, NEW opts,
         Hello(c, version, opts)
  PROVE  DialectInv'
<1> DEFINE ok == served(version, opts)
<1>1. /\ wproto' = IF ok /\ version # 0 THEN [wproto EXCEPT ![c] = version] ELSE wproto
      /\ proto' = IF ok /\ version # 0 THEN [proto EXCEPT ![c] = version] ELSE proto
      /\ HelloReply(c, ok)
  BY Zenon DEF Hello
<1>2. wproto \in [Conns -> {2, 3}] /\ proto = wproto /\ told = wproto
  BY Zenon DEF DialectInv
<1>3. CASE ~ok
  <2>1. wproto' = wproto /\ proto' = proto
    BY <1>1, <1>3, Zenon
  <2>2. told' = told /\ Reply(c, WriteError(Message))
    BY <1>1, <1>3, Zenon DEF HelloReply
  <2>3. Decodes(wproto[c], WriteError(Message))
    BY Messages, Zenon
  <2> QED  BY <2>1, <2>2, <2>3, ReplyStep, Zenon DEF Reply
<1>4. CASE ok
  <2> DEFINE out == writeHelloMap(wproto'[c], proto'[c], 1)
  <2>1. version \in {0, 2, 3}
    BY <1>4, Zenon DEF served
  <2>2. version # 0 => version \in {2, 3}
    BY <2>1, Zenon
  <2>3. wproto' \in [Conns -> {2, 3}] /\ proto' = wproto'
    BY <1>1, <1>2, <2>2, Zenon
  <2>4. wproto'[c] \in {2, 3} /\ proto'[c] = wproto'[c]
    BY <2>3, Zenon
  <2>5. Decodes(wproto'[c], out) /\ out[7].n = proto'[c]
    BY <2>4, HelloMap, Zenon
  <2>6. Reply(c, out) /\ told' = [told EXCEPT ![c] = out[7].n]
    BY <1>1, <1>4, Zenon DEF HelloReply
  <2> HIDE DEF out
  <2>7. told' = [told EXCEPT ![c] = wproto'[c]]
    BY <2>4, <2>5, <2>6, Zenon
  <2>8. told' = wproto'
    <3>1. CASE version = 0
      <4>1. wproto' = wproto
        BY <1>1, <3>1, Zenon
      <4> QED  BY <1>2, <2>7, <4>1
    <3>2. CASE version # 0
      <4>1. wproto' = [wproto EXCEPT ![c] = version]
        BY <1>1, <1>4, <3>2, Zenon
      <4> QED  BY <1>2, <2>7, <4>1
    <3> QED  BY <3>1, <3>2, Zenon
  <2>9. last' = [to |-> c, out |-> out]
    BY <2>6, Zenon DEF Reply, ReplyThen
  <2>10. last'.to = c /\ last'.out = out
    BY <2>9
  <2> QED  BY <2>3, <2>5, <2>8, <2>10, Zenon DEF DialectInv
<1> QED  BY <1>3, <1>4, Zenon

\* A command that there is not is answered with its name, made one line.
LEMMA UnknownStep ==
  ASSUME DialectInv, NEW c \in Conns, NEW name \in Names, UnknownCommand(c, name)
  PROVE  DialectInv'
<1>1. name \in Seq(STRING)
  BY CommandsAssumption, Zenon
<1>2. Decodes(wproto[c], WriteError(Message \o sanitizeText(name)))
  BY <1>1, Messages, Zenon
<1> QED  BY <1>2, ReplyStep, Zenon DEF UnknownCommand, Reply, conns

LEMMA ArityStep ==
  ASSUME DialectInv, NEW c \in Conns, NEW verb, NEW argc, WrongArity(c, verb, argc)
  PROVE  DialectInv'
BY Messages, ReplyStep, Zenon DEF WrongArity, Reply, conns

LEMMA SetParseReply ==
  ASSUME DialectInv, NEW c \in Conns, NEW k, NEW unit, NEW n, SetParse(c, k, unit, n)
  PROVE  DialectInv'
<1>1. Reply(c, WriteError(Message)) \/ last' = Silent
  BY Zenon DEF SetParse, Continue
<1>2. UNCHANGED <<proto, wproto, told>>
  BY Zenon DEF SetParse, conns
<1> QED  BY <1>1, <1>2, Messages, ReplyStep, SilentStep, Zenon DEF Reply

LEMMA SetStoreReply ==
  ASSUME DialectInv, NEW c \in Conns, SetStore(c)
  PROVE  DialectInv'
<1>1. Reply(c, WriteError(Message)) \/ Reply(c, WriteSimpleString)
  BY Zenon DEF SetStore
<1>2. UNCHANGED <<proto, wproto, told>>
  BY Zenon DEF SetStore, conns
<1> QED  BY <1>1, <1>2, Messages, OneElements, ReplyStep, Zenon DEF Reply

LEMMA CountedReply ==
  ASSUME DialectInv, NEW c \in Conns, NEW hit, Counted(c, hit),
         UNCHANGED <<proto, wproto, told>>
  PROVE  DialectInv'
<1>1. (\E n : Reply(c, WriteInt(n))) \/ last' = Silent
  BY Zenon DEF Counted, Continue
<1> QED  BY <1>1, OneElements, ReplyStep, SilentStep, Zenon DEF Reply

LEMMA TTLLookupReply ==
  ASSUME DialectInv, NEW c \in Conns, NEW verb, NEW k, TTLLookup(c, verb, k)
  PROVE  DialectInv'
<1>1. (\E n : Reply(c, WriteInt(n))) \/ last' = Silent
  BY Zenon DEF TTLLookup, Continue
<1>2. UNCHANGED <<proto, wproto, told>>
  BY Zenon DEF TTLLookup, conns
<1> QED  BY <1>1, <1>2, OneElements, ReplyStep, SilentStep, Zenon DEF Reply

LEMMA HandlerReply ==
  ASSUME DialectInv, NEW c \in Conns, Handler(c)
  PROVE  DialectInv'
<1>1. CASE SetClock(c)
  BY <1>1, SilentStep, Zenon DEF SetClock, Continue, conns
<1>2. CASE SetStore(c)
  BY <1>2, SetStoreReply, Zenon
<1>3. CASE DelKey(c)
  BY <1>3, CountedReply, Zenon DEF DelKey, conns
<1>4. CASE ExistsKey(c)
  BY <1>4, CountedReply, Zenon DEF ExistsKey, conns
<1>5. CASE TTLReply(c)
  <2>1. \E n : Reply(c, WriteInt(n))
    BY <1>5, Zenon DEF TTLReply
  <2>2. UNCHANGED <<proto, wproto, told>>
    BY <1>5, Zenon DEF TTLReply, conns
  <2> QED  BY <2>1, <2>2, OneElements, ReplyStep, Zenon DEF Reply
<1> QED  BY <1>1, <1>2, <1>3, <1>4, <1>5, Zenon DEF Handler

\* CONFIG.
LEMMA ConfigReply ==
  ASSUME DialectInv, NEW c \in Conns,
         \/ \E param, argc : ConfigGet(c, param, argc)
         \/ \E n : ConfigSetMaxMemory(c, n)
         \/ \E name : ConfigSetPolicy(c, name)
         \/ ConfigSetOther(c)
  PROVE  DialectInv'
<1>1. <<"control">> \in Seq({"control"})
  OBVIOUS
<1> DEFINE echo == WriteError(Message \o sanitizeText(<<"control">>))
<1>2. \A d : Decodes(d, echo)
  BY <1>1, Messages, Zenon
<1> HIDE DEF echo
<1>3. CASE \E param, argc : ConfigGet(c, param, argc)
  <2>1. PICK param, argc : ConfigGet(c, param, argc)
    BY <1>3, Zenon
  <2>2. \E out \in {WriteError(Message), writeConfigPair, WriteArrayHeader(0)} :
          Reply(c, out)
    BY <2>1, Zenon DEF ConfigGet
  <2>3. UNCHANGED <<proto, wproto, told>>
    BY <2>1, Zenon DEF ConfigGet, conns
  <2>4. \A out \in {WriteError(Message), writeConfigPair, WriteArrayHeader(0)} :
          Decodes(wproto[c], out)
    BY Messages, ConfigPairs, OneElements, Zenon
  <2> QED  BY <2>2, <2>3, <2>4, ReplyStep, Zenon DEF Reply
<1>4. CASE \E n : ConfigSetMaxMemory(c, n)
  <2>1. PICK n : ConfigSetMaxMemory(c, n)
    BY <1>4, Zenon
  <2>2. Reply(c, echo) \/ Reply(c, WriteSimpleString)
    BY <2>1, Zenon DEF ConfigSetMaxMemory, echo
  <2>3. UNCHANGED <<proto, wproto, told>>
    BY <2>1, Zenon DEF ConfigSetMaxMemory
  <2> QED  BY <1>2, <2>2, <2>3, OneElements, ReplyStep, Zenon DEF Reply
<1>5. CASE \E name : ConfigSetPolicy(c, name)
  <2>1. PICK name : ConfigSetPolicy(c, name)
    BY <1>5, Zenon
  <2>2. Reply(c, echo) \/ Reply(c, WriteSimpleString)
    BY <2>1, Zenon DEF ConfigSetPolicy, echo
  <2>3. UNCHANGED <<proto, wproto, told>>
    BY <2>1, Zenon DEF ConfigSetPolicy
  <2> QED  BY <1>2, <2>2, <2>3, OneElements, ReplyStep, Zenon DEF Reply
<1>6. CASE ConfigSetOther(c)
  BY <1>6, OneElements, ReplyStep, Zenon DEF ConfigSetOther, Reply, conns
<1> QED  BY <1>3, <1>4, <1>5, <1>6, Zenon

\* The commands that are answered at once.
LEMMA PlainReply ==
  ASSUME DialectInv, NEW c \in Conns,
         \/ \E verb \in {"PING", "COMMAND", "SELECT"} : \E arg : Plain(c, verb, arg)
         \/ \E k : Get(c, k)
         \/ Quit(c)
  PROVE  DialectInv'
<1>1. CASE \E verb \in {"PING", "COMMAND", "SELECT"} : \E arg : Plain(c, verb, arg)
  <2>1. PICK verb, arg : Plain(c, verb, arg)
    BY <1>1, Zenon
  <2> DEFINE count == WriteInt(Cardinality(DOMAIN commandTable))
             outs == {WriteSimpleString, WriteBulk, WriteArrayHeader(0), count,
                      WriteError(Message)}
  <2>2. plainReply(verb, arg) \in outs
    BY DEF plainReply
  <2>3. Reply(c, plainReply(verb, arg)) /\ UNCHANGED <<proto, wproto, told>>
    BY <2>1, Zenon DEF Plain, conns
  <2>4. Decodes(wproto[c], count)
    BY OneElements, Zenon
  <2>5. \A out \in outs : Decodes(wproto[c], out)
    BY <2>4, Messages, OneElements, Zenon
  <2> QED  BY <2>2, <2>3, <2>5, ReplyStep, Zenon DEF Reply
<1>2. CASE \E k : Get(c, k)
  <2>1. PICK k : Get(c, k)
    BY <1>2, Zenon
  <2>2. Reply(c, WriteNull(wproto[c])) \/ Reply(c, WriteBulk)
    BY <2>1, Zenon DEF Get
  <2>3. UNCHANGED <<proto, wproto, told>>
    BY <2>1, Zenon DEF Get, conns
  <2>4. wproto[c] \in {2, 3}
    BY Zenon DEF DialectInv
  <2> QED  BY <2>2, <2>3, <2>4, OneElements, ReplyStep, Zenon DEF Reply
<1>3. CASE Quit(c)
  BY <1>3, OneElements, ReplyStep, Zenon DEF Quit, conns
<1> QED  BY <1>1, <1>2, <1>3, Zenon

LEMMA CommandReply ==
  ASSUME DialectInv, NEW c \in Conns, Command(c)
  PROVE  DialectInv'
<1>1. CASE \E k, unit, n : SetParse(c, k, unit, n)
  BY <1>1, SetParseReply, Zenon
<1>2. CASE \E verb, k : TTLLookup(c, verb, k)
  BY <1>2, TTLLookupReply, Zenon
<1>3. CASE \E verb, args : Variadic(c, verb, args)
  BY <1>3, SilentStep, Zenon DEF Variadic, Continue, conns
<1>4. CASE \E version \in {0, 2, 3, 4} : \E opts : Hello(c, version, opts)
  BY <1>4, HelloStep, Zenon
<1>5. CASE \/ \E param, argc : ConfigGet(c, param, argc)
           \/ \E n : ConfigSetMaxMemory(c, n)
           \/ \E name : ConfigSetPolicy(c, name)
           \/ ConfigSetOther(c)
  BY <1>5, ConfigReply, Zenon
<1>6. CASE \/ \E verb \in {"PING", "COMMAND", "SELECT"} : \E arg : Plain(c, verb, arg)
           \/ \E k : Get(c, k)
           \/ Quit(c)
  BY <1>6, PlainReply, Zenon
<1>7. CASE \E name \in Names : UnknownCommand(c, name)
  BY <1>7, UnknownStep, Zenon
<1>8. CASE \E verb, argc : WrongArity(c, verb, argc)
  BY <1>8, ArityStep, Zenon
<1>9. CASE EmptyFrame(c)
  BY <1>9, SilentStep, Zenon DEF EmptyFrame, conns
<1> QED  BY <1>1, <1>2, <1>3, <1>4, <1>5, <1>6, <1>7, <1>8, <1>9, Zenon DEF Command

\* handshake.go:21: for every number of connections, whatever they send and in
\* whatever order, a client reads one whole reply in the dialect it was last
\* told of.
THEOREM RepliesDecodeHolds == Spec => []RepliesDecode
<1>1. Init => DialectInv
  <2>1. Silent.to = Absent
    BY DEF Silent
  <2>2. [c \in Conns |-> 2] \in [Conns -> {2, 3}]
    BY Zenon
  <2> QED  BY <2>1, <2>2, Zenon DEF Init, DialectInv
<1>2. DialectInv /\ [Next]_vars => DialectInv'
  <2> SUFFICES ASSUME DialectInv, [Next]_vars PROVE DialectInv'
    BY Zenon
  <2>1. CASE \E c \in Conns : Command(c)
    BY <2>1, CommandReply, Zenon
  <2>2. CASE \E c \in Conns : Handler(c)
    BY <2>2, HandlerReply, Zenon
  <2>3. CASE \E k \in Keys : Evict(k)
    BY <2>3, SilentStep, Zenon DEF Evict, conns
  <2>4. CASE Tick
    BY <2>4, SilentStep, Zenon DEF Tick, conns
  <2>5. CASE UNCHANGED vars
    BY <2>5, Zenon DEF vars, conns, DialectInv
  <2> QED  BY <2>1, <2>2, <2>3, <2>4, <2>5, Zenon DEF Next, Finished
<1>3. DialectInv => RepliesDecode
  BY Zenon DEF DialectInv, RepliesDecode
<1> QED  BY <1>1, <1>2, <1>3, PTL DEF Spec
=============================================================================
