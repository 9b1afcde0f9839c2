------------------------------ MODULE Commands ------------------------------
(***************************************************************************)
(* dispatch and the command handlers of internal/server, run by several    *)
(* connections at the same time.  A call of the engine is one step, or two *)
(* where a reading of the clock matters that is not the one the step       *)
(* decides on: its own steps are those of Engine.                          *)
(*                                                                         *)
(* A stored entry is its expiry and, for the properties, what the SET that *)
(* stored it asked for.  Time counts ticks, a Duration is a signed integer *)
(* of its own width: the source has 64 bits and nanoseconds, and the       *)
(* bounds on what SET accepts follow from both.                            *)
(***************************************************************************)
EXTENDS Replies

CONSTANTS
  Conns, Keys, Absent,
  MaxInt,       \* math.MaxInt64
  Millisecond,  \* time.Millisecond, in ticks
  MsPerSecond,  \* 1000
  Numbers,      \* integers a client passes
  Options,      \* the option sequences of HELLO
  Names,        \* names of commands that there are not, as text
  StartTime,    \* the clock when the server starts
  MaxTime,      \* bound: last instant of the clock
  MaxCommands,  \* bound: commands in a behaviour
  Verbs         \* the commands the clients send

Second == MsPerSecond * Millisecond
Units == {"EX", "PX", "EXAT", "PXAT"}
Entries == [expiresAt : Nat, unit : Units \cup {"none"}, n : Int]

ASSUME CommandsAssumption ==
  /\ MaxInt \in Nat /\ Millisecond \in Nat \ {0} /\ MsPerSecond \in Nat \ {0}
  /\ Numbers \subseteq -MaxInt..MaxInt
  /\ StartTime \in Nat /\ MaxTime \in Nat /\ StartTime <= MaxTime
  /\ MaxCommands \in Nat /\ Absent \notin Entries /\ IsFiniteSet(Keys)
  /\ MaxErrEchoLen \in Nat /\ Names \subseteq Seq(STRING)

VARIABLES
  store,           \* store[k]: the live or expired entry under k, or Absent
  now,             \* the clock, cfg.Now and the engine's alike
  config,          \* the engine's ceiling and policy
  proto, wproto,   \* the dialect of a connection, and of its writer
  pc, loc,         \* the next step of a handler and its locals
  last,            \* what the last step wrote: to whom, and the elements
  commands,        \* commands sent so far
  told,            \* history: the dialect a client was told of
  writes, removed  \* history: entries stored, and removals that were reported

conns == <<proto, wproto, told, config>>
history == <<writes, removed>>
vars == <<store, now, conns, pc, loc, last, commands, history>>

Persistent == [expiresAt |-> 0, unit |-> "none", n |-> 0]
NoLocals == [verb |-> "none", key |-> Absent, ttl |-> 0, read |-> 0, set |-> 0,
             entry |-> Persistent, args |-> <<>>, count |-> 0]

Silent == [to |-> Absent, out |-> <<>>]

Init ==
  /\ store = [k \in Keys |-> Absent]
  /\ now = StartTime
  /\ proto = [c \in Conns |-> 2] /\ wproto = [c \in Conns |-> 2]
  /\ pc = [c \in Conns |-> "idle"] /\ loc = [c \in Conns |-> NoLocals]
  /\ told = [c \in Conns |-> 2]
  /\ config = [maxmemory |-> 0, policy |-> "allkeys-lfu"]
  /\ last = Silent
  /\ commands = 0 /\ writes = 0 /\ removed = 0

\* The arity window of a command, the verb included; -1 is no upper bound.
commandTable ==
  [PING |-> <<1, 2>>, QUIT |-> <<1, 1>>, GET |-> <<2, 2>>, SET |-> <<3, 5>>,
   DEL |-> <<2, -1>>, EXISTS |-> <<2, -1>>, TTL |-> <<2, 2>>,
   PTTL |-> <<2, 2>>, HELLO |-> <<1, -1>>, COMMAND |-> <<1, -1>>,
   CONFIG |-> <<2, -1>>, SELECT |-> <<2, 2>>]

admits(verb, argc) ==
  LET window == commandTable[verb]
  IN  argc >= window[1] /\ (window[2] >= 0 => argc <= window[2])

\* A frame of argc arguments has been read.
Frame(c) ==
  /\ pc[c] = "idle" /\ commands < MaxCommands
  /\ commands' = commands + 1

\* dispatch finds the handler.
Receive(c, verb, argc) == Frame(c) /\ verb \in Verbs /\ admits(verb, argc)

\* The handler goes on with these locals.
Continue(c, label, locals) ==
  /\ pc' = [pc EXCEPT ![c] = label]
  /\ loc' = [loc EXCEPT ![c] = locals]
  /\ last' = Silent

\* The handler is done; after QUIT the connection is.
ReplyThen(c, out, label) ==
  /\ last' = [to |-> c, out |-> out]
  /\ pc' = [pc EXCEPT ![c] = label]
  /\ loc' = [loc EXCEPT ![c] = NoLocals]

Reply(c, out) == ReplyThen(c, out, "idle")

\* What dispatch answers itself: an unknown name or a wrong arity.
UnknownCommand(c, name) ==
  /\ Frame(c)
  /\ Reply(c, WriteError(Message \o sanitizeText(name)))
  /\ UNCHANGED <<store, now, conns, history>>

WrongArity(c, verb, argc) ==
  /\ Frame(c) /\ verb \in Verbs /\ ~admits(verb, argc)
  /\ Reply(c, WriteError(Message))
  /\ UNCHANGED <<store, now, conns, history>>

\* An empty frame is no command.
EmptyFrame(c) ==
  /\ Frame(c)
  /\ last' = Silent
  /\ UNCHANGED <<store, now, conns, pc, loc, history>>

dead(k) == IF store[k] = Absent THEN TRUE
           ELSE store[k].expiresAt # 0 /\ now >= store[k].expiresAt

-----------------------------------------------------------------------------
(* SET. *)

\* What a product or a difference of Durations is: Go's integers wrap, and
\* Time.Sub saturates.
wrap(x) == ((x + MaxInt + 1) % (2 * (MaxInt + 1))) - (MaxInt + 1)
saturate(x) == IF x > MaxInt THEN MaxInt
               ELSE IF x < -MaxInt - 1 THEN -MaxInt - 1 ELSE x

scale(unit) == IF unit \in {"EX", "EXAT"} THEN Second ELSE Millisecond
relative(unit) == unit \in {"EX", "PX"}

\* Mutant: any number will do.
inRangeAny(unit, n) == TRUE

\* maxExpireSeconds and maxExpireMillis, on both sides of zero.
inRange(unit, n) == LET max == MaxInt \div scale(unit) IN n <= max /\ n >= -max

ttlOf(unit, n) == IF relative(unit) THEN wrap(n * scale(unit))
                  ELSE saturate(n * scale(unit) - now)

\* parseSetExpiry.  Without an option the entry is to persist (ttl 0); an
\* option that is not of the form <unit> <integer> is "bad".
SetParse(c, k, unit, n) ==
  LET ttl == IF unit \in Units THEN ttlOf(unit, n) ELSE 0
      ok == unit = "none" \/ (unit \in Units /\ inRange(unit, n) /\ ttl > 0)
  IN  /\ Receive(c, "SET", IF unit = "none" THEN 3 ELSE 5)
      /\ \/ ~ok /\ Reply(c, WriteError(Message))
         \/ ok /\ Continue(c, "setClock",
                  [NoLocals EXCEPT !.key = k, !.ttl = ttl, !.read = now,
                     !.entry = [Persistent EXCEPT !.unit = unit, !.n = n]])
      /\ UNCHANGED <<store, now, conns, history>>

\* engine.Set reads the clock for itself, if there is a lifetime to add to it,
SetClock(c) ==
  LET l == loc[c]
  IN  /\ pc[c] = "setClock"
      /\ Continue(c, "setStore", IF l.ttl > 0
           THEN [l EXCEPT !.entry.expiresAt = now + l.ttl, !.set = now] ELSE l)
      /\ UNCHANGED <<store, now, conns, commands, history>>

\* and stores the entry, unless it is out of memory.
SetStore(c) ==
  /\ pc[c] = "setStore"
  /\ \/ /\ store' = [store EXCEPT ![loc[c].key] = loc[c].entry]
        /\ writes' = writes + 1
        /\ Reply(c, WriteSimpleString)
     \/ Reply(c, WriteError(Message)) /\ UNCHANGED <<store, writes>>
  /\ UNCHANGED <<now, conns, commands, removed>>

\* The engine may evict an entry at any time.
Evict(k) ==
  /\ store[k] # Absent
  /\ store' = [store EXCEPT ![k] = Absent]
  /\ last' = Silent
  /\ UNCHANGED <<now, conns, pc, loc, commands, history>>

-----------------------------------------------------------------------------
(* DEL and EXISTS: one call of the engine per argument. *)

Variadic(c, verb, args) ==
  /\ Receive(c, verb, 1 + Len(args))
  /\ Continue(c, "loop", [NoLocals EXCEPT !.verb = verb, !.args = args])
  /\ UNCHANGED <<store, now, conns, history>>

\* The loop has counted one argument, and replies after the last one.
Counted(c, hit) ==
  LET count == loc[c].count + (IF hit THEN 1 ELSE 0)
  IN  \/ Len(loc[c].args) = 1 /\ Reply(c, WriteInt(count))
      \/ /\ Len(loc[c].args) > 1
         /\ Continue(c, "loop",
                     [loc[c] EXCEPT !.args = Tail(@), !.count = count])

\* Mutant: an entry that has expired is counted as well as removed.
DelKeyExpired(c) ==
  LET k == Head(loc[c].args)
  IN  /\ pc[c] = "loop" /\ loc[c].verb = "DEL"
      /\ store' = [store EXCEPT ![k] = Absent]
      /\ removed' = removed + 1
      /\ Counted(c, TRUE)
      /\ UNCHANGED <<now, conns, commands, writes>>

DelKey(c) ==
  LET k == Head(loc[c].args)
  IN  /\ pc[c] = "loop" /\ loc[c].verb = "DEL"
      /\ store' = [store EXCEPT ![k] = Absent]
      /\ removed' = removed + (IF dead(k) THEN 0 ELSE 1)
      /\ Counted(c, ~dead(k))
      /\ UNCHANGED <<now, conns, commands, writes>>

ExistsKey(c) ==
  /\ pc[c] = "loop" /\ loc[c].verb = "EXISTS"
  /\ Counted(c, ~dead(Head(loc[c].args)))
  /\ UNCHANGED <<store, now, conns, commands, history>>

-----------------------------------------------------------------------------
(* TTL and PTTL. *)

\* engine.TTL finds the key live; what is left of its life it asks the clock
\* again.
TTLLookup(c, verb, k) ==
  /\ Receive(c, verb, 2)
  /\ \/ dead(k) /\ Reply(c, WriteInt(-2))
     \/ /\ ~dead(k) /\ store[k].expiresAt = 0
        /\ Reply(c, WriteInt(-1))
     \/ /\ ~dead(k) /\ store[k].expiresAt # 0
        /\ Continue(c, "ttlReply", [NoLocals EXCEPT !.verb = verb,
                                                   !.entry = store[k]])
  /\ UNCHANGED <<store, now, conns, history>>

\* Mutant: seconds are rounded up, and then once more.
inUnitUp(verb, ms) ==
  IF verb = "TTL" THEN (ms + MsPerSecond) \div MsPerSecond ELSE ms

\* Seconds are rounded to the nearest.
inUnit(verb, ms) ==
  IF verb = "TTL" THEN (ms + MsPerSecond \div 2) \div MsPerSecond ELSE ms

\* replyTTL takes what is less than zero for the engine's "no expiry".
TTLReply(c) ==
  LET remaining == loc[c].entry.expiresAt - now
  IN  /\ pc[c] = "ttlReply"
      /\ Reply(c, WriteInt(IF remaining < 0 THEN -1
                           ELSE inUnit(loc[c].verb, remaining \div Millisecond)))
      /\ UNCHANGED <<store, now, conns, commands, history>>

-----------------------------------------------------------------------------
(* HELLO and CONFIG. *)

\* The loop over what follows the version: only SETNAME <name>.
accepted(opts) ==
  /\ Len(opts) % 2 = 0
  /\ \A i \in 1..Len(opts) : i % 2 = 1 => opts[i] = "SETNAME"

\* version 0 stands for a HELLO without arguments, 4 for what is not a
\* version that is served.
helloArgs(version, opts) == IF version = 0 THEN 1 ELSE 2 + Len(opts)
served(version, opts) == version \in {0, 2, 3} /\ accepted(opts)

HelloReply(c, ok) ==
  LET out == IF ok THEN writeHelloMap(wproto'[c], proto'[c], 1)
             ELSE WriteError(Message)
  IN  /\ Reply(c, out)
      /\ told' = IF ok THEN [told EXCEPT ![c] = out[7].n] ELSE told

\* Mutant: the dialect is set as soon as the version is known.
HelloEager(c, version, opts) ==
  LET ok == served(version, opts)
      flip == version \in {2, 3}
  IN  /\ Receive(c, "HELLO", helloArgs(version, opts))
      /\ version = 0 => opts = <<>>
      /\ wproto' = IF flip THEN [wproto EXCEPT ![c] = version] ELSE wproto
      /\ proto' = IF ok /\ flip THEN [proto EXCEPT ![c] = version] ELSE proto
      /\ HelloReply(c, ok)
      /\ UNCHANGED <<store, now, config, history>>

Hello(c, version, opts) ==
  LET ok == served(version, opts)
      flip == ok /\ version # 0
  IN  /\ Receive(c, "HELLO", helloArgs(version, opts))
      /\ version = 0 => opts = <<>>
      /\ wproto' = IF flip THEN [wproto EXCEPT ![c] = version] ELSE wproto
      /\ proto' = IF flip THEN [proto EXCEPT ![c] = version] ELSE proto
      /\ HelloReply(c, ok)
      /\ UNCHANGED <<store, now, config, history>>

\* One of the two parameters of the engine, or any other.  A subcommand that
\* there is not is answered as a wrong number of arguments is.
ConfigGet(c, param, argc) ==
  /\ Receive(c, "CONFIG", argc)
  /\ Reply(c, IF argc # 3 THEN WriteError(Message)
              ELSE IF param \in DOMAIN config THEN writeConfigPair
              ELSE WriteArrayHeader(0))
  /\ UNCHANGED <<store, now, conns, history>>

\* The setters of the engine; n is -1 for what is no number as well.
ConfigSetMaxMemory(c, n) ==
  /\ Receive(c, "CONFIG", 4)
  /\ config' = IF n < 0 THEN config ELSE [config EXCEPT !.maxmemory = n]
  /\ Reply(c, IF n < 0 THEN WriteError(Message \o sanitizeText(<<"control">>))
              ELSE WriteSimpleString)
  /\ UNCHANGED <<store, now, proto, wproto, told, history>>

ParsePolicy(name) == name \in {"allkeys-lfu", "allkeys-random", "noeviction"}

ConfigSetPolicy(c, name) ==
  /\ Receive(c, "CONFIG", 4)
  /\ config' = IF ParsePolicy(name) THEN [config EXCEPT !.policy = name] ELSE config
  /\ Reply(c, IF ParsePolicy(name) THEN WriteSimpleString
              ELSE WriteError(Message \o sanitizeText(<<"control">>)))
  /\ UNCHANGED <<store, now, proto, wproto, told, history>>

\* Any other parameter is accepted and ignored.
ConfigSetOther(c) ==
  /\ Receive(c, "CONFIG", 4)
  /\ Reply(c, WriteSimpleString)
  /\ UNCHANGED <<store, now, conns, history>>

-----------------------------------------------------------------------------
(* The other commands. *)

Get(c, k) ==
  /\ Receive(c, "GET", 2)
  /\ Reply(c, IF dead(k) THEN WriteNull(wproto[c]) ELSE WriteBulk)
  /\ UNCHANGED <<store, now, conns, history>>

Quit(c) ==
  /\ Receive(c, "QUIT", 1)
  /\ ReplyThen(c, WriteSimpleString, "closed")
  /\ UNCHANGED <<store, now, conns, history>>

\* PING echoes its argument; COMMAND has the subcommands DOCS and COUNT;
\* SELECT knows database 0 only.
plainReply(verb, arg) ==
  CASE verb = "PING" -> IF arg = "none" THEN WriteSimpleString ELSE WriteBulk
    [] verb = "COMMAND" /\ arg \in {"none", "DOCS"} -> WriteArrayHeader(0)
    [] verb = "COMMAND" /\ arg = "COUNT" ->
         WriteInt(Cardinality(DOMAIN commandTable))
    [] verb = "SELECT" /\ arg = "0" -> WriteSimpleString
    [] OTHER -> WriteError(Message)

Plain(c, verb, arg) ==
  /\ Receive(c, verb, IF arg = "none" THEN 1 ELSE 2)
  /\ Reply(c, plainReply(verb, arg))
  /\ UNCHANGED <<store, now, conns, history>>

-----------------------------------------------------------------------------

Tick ==
  /\ now < MaxTime
  /\ now' = now + 1
  /\ last' = Silent
  /\ UNCHANGED <<store, conns, pc, loc, commands, history>>

Handler(c) == SetClock(c) \/ SetStore(c) \/ DelKey(c) \/ ExistsKey(c)
              \/ TTLReply(c)

Command(c) ==
  \/ \E k \in Keys :
       \/ SetParse(c, k, "none", 0) \/ SetParse(c, k, "bad", 0)
       \/ \E unit \in Units, n \in Numbers : SetParse(c, k, unit, n)
       \/ \E verb \in {"TTL", "PTTL"} : TTLLookup(c, verb, k)
  \/ \E verb \in {"DEL", "EXISTS"}, k \in Keys, l \in Keys :
       Variadic(c, verb, <<k>>) \/ Variadic(c, verb, <<k, l>>)
  \/ \E version \in {0, 2, 3, 4}, opts \in Options : Hello(c, version, opts)
  \/ \E param \in {"maxmemory", "policy", "other"}, argc \in 2..5 :
       ConfigGet(c, param, argc)
  \/ \E n \in {-1, 0, 1} : ConfigSetMaxMemory(c, n)
  \/ \E name \in {"noeviction", "volatile-lru"} : ConfigSetPolicy(c, name)
  \/ \E verb \in {"PING", "COMMAND", "SELECT"},
        arg \in {"none", "0", "DOCS", "COUNT"} :
       Plain(c, verb, arg)
  \/ \E k \in Keys : Get(c, k)
  \/ ConfigSetOther(c) \/ Quit(c)
  \/ \E name \in Names : UnknownCommand(c, name)
  \/ \E verb \in DOMAIN commandTable, argc \in 1..6 : WrongArity(c, verb, argc)
  \/ EmptyFrame(c)

\* Every command has been answered and no more are sent.
Finished ==
  /\ now >= MaxTime
  /\ commands = MaxCommands \/ \A c \in Conns : pc[c] = "closed"
  /\ \A c \in Conns : pc[c] \in {"idle", "closed"}
  /\ UNCHANGED vars

Next ==
  \/ \E c \in Conns : Command(c) \/ Handler(c)
  \/ \E k \in Keys : Evict(k)
  \/ Tick \/ Finished

Spec == Init /\ [][Next]_vars

-----------------------------------------------------------------------------
(* Properties. *)

\* Types.
TypeOK ==
  /\ store \in [Keys -> Entries \cup {Absent}]
  /\ now \in StartTime..MaxTime
  /\ proto \in [Conns -> {2, 3}] /\ wproto \in [Conns -> {2, 3}]
  /\ pc \in [Conns -> {"idle", "setClock", "setStore", "loop", "ttlReply",
                    "closed"}]
  /\ commands \in 0..MaxCommands /\ writes \in Nat /\ removed \in Nat

\* commands.go:75: no argument of SET makes the arithmetic "wrap to a small
\* positive TTL", and none makes an entry persist that was to expire: the
\* expiry of the entry is the one asked for, later at most by the time that
\* passed between the server's look at the clock and the engine's, and not yet
\* reached at the latter.  Everything is within its type.
ExpiryExact ==
  /\ TypeOK
  /\ \A c \in Conns :
       pc[c] = "setStore" /\ loc[c].entry.unit # "none" =>
         LET l == loc[c]
             unit == l.entry.unit
             due == l.entry.n * scale(unit) + (IF relative(unit) THEN l.read ELSE 0)
             got == l.entry.expiresAt
         IN  got > l.set /\ due <= got /\ got <= due + (l.set - l.read)

\* An entry that was stored once is reported removed at most once, by whatever
\* DELs of whatever connections, with the same key twice in one DEL or not.
RemovedOnce == removed <= writes

\* An entry stored with EX n never has a TTL of more than n seconds.
TTLWithinEX ==
  [][\A c \in Conns :
       pc[c] = "ttlReply" /\ pc'[c] = "idle" =>
         LET l == loc[c]
         IN  l.verb = "TTL" /\ l.entry.unit = "EX" => last'.out[1].n <= l.entry.n]_vars

\* handshake.go:21: whatever a connection sends, and after a HELLO that failed
\* half way too, its client gets one reply for a command, whole and in the
\* dialect it was last told of.
RepliesDecode ==
  last.to # Absent => Decodes(told[last.to], last.out)
=============================================================================
