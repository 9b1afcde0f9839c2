------------------------------- MODULE Engine -------------------------------
(***************************************************************************)
(* The cache engine of internal/cache: Get, Set, Del and TTL, the eviction *)
(* pass, and the live setters SetMaxMemory and SetEvictionPolicy, run by   *)
(* any number of goroutines.  The engine has no lock of its own: it is a   *)
(* sharded map whose single-key operations are atomic, and a handful of    *)
(* atomics.  Every access to one of them is a step here, so that the       *)
(* accesses of different goroutines interleave as they do in the code.     *)
(*                                                                         *)
(* A value is its length, the only thing the byte accounting looks at.     *)
(* The clock is an integer; expiresAt 0 is Go's zero time (no expiry).     *)
(* Frequency estimates are asynchronous and lossy, so to the engine any    *)
(* candidate of a sample may be the coldest.                               *)
(***************************************************************************)
EXTENDS Integers, FiniteSets, ByteSums

CONSTANTS
  Clients,         \* goroutines that call the engine
  Tuners,          \* those of them that call the live setters
  Keys,
  KeyLen,          \* KeyLen[k]: length of key k
  Sizes,           \* value lengths
  Absent,          \* a key that is not in the map
  EntryOverhead,   \* cost.go's fixed per-entry cost (64)
  Shards,          \* shards of the map
  ShardOf,         \* ShardOf[k]: the shard key k hashes to
  SampleN,         \* candidates per sample (5)
  MaxEvictMisses,  \* fruitless samples a pass survives (100)
  AvgEntryCost,    \* assumedAvgEntryCost (256)
  CountersMin,     \* policyCountersMin (1024)
  CountersMax,     \* policyCountersMax (1 << 22)
  InitMaxMemory,   \* WithMaxMemory
  InitPolicies,    \* the policies of WithEvictionPolicy
  TTLs,            \* ttl arguments of Set
  Ceilings,        \* arguments of SetMaxMemory
  Ops,             \* the operations the clients call
  MaxOps,          \* bound: calls in a behaviour
  MaxTime          \* bound: last instant of the clock

Policies == {"allkeys-lfu", "allkeys-random", "noeviction"}
TuningOps == {"SetMaxMemory", "SetEvictionPolicy"}
AllOps == {"Get", "Set", "Del", "TTL"} \cup TuningOps

ASSUME EngineAssumption ==
  /\ IsFiniteSet(Clients) /\ Tuners \subseteq Clients
  /\ IsFiniteSet(Keys) /\ Keys # {}
  /\ KeyLen \in [Keys -> Nat]
  /\ Sizes \subseteq Nat /\ Sizes # {}
  /\ EntryOverhead \in Nat
  /\ ShardOf \in [Keys -> Shards]
  /\ SampleN \in Nat \ {0}
  /\ MaxEvictMisses \in Nat
  /\ AvgEntryCost \in Nat \ {0}
  /\ CountersMin \in Nat /\ CountersMax \in Nat /\ CountersMin <= CountersMax
  /\ InitMaxMemory \in Nat /\ InitPolicies \subseteq Policies
  /\ TTLs \subseteq Nat /\ Ceilings \subseteq Nat
  /\ Ops \subseteq AllOps
  /\ MaxOps \in Nat /\ MaxTime \in Nat

Entry == [size: Sizes, expiresAt: Nat]

ASSUME AbsentAssumption == Absent \notin Entry

VARIABLES
  store,           \* the sharded map
  usage,           \* atomic byte counter
  maxmemory,       \* atomic ceiling, 0 = unbounded
  evictPol,        \* atomic eviction policy
  policyCounters,  \* atomic: the sizing last requested of the policy
  sketch,          \* the policy's sketch and doorkeeper sizings
  active,          \* the policy records accesses
  stats,           \* hits, misses and evictions, and samples handed to the
                   \* policy's access buffers
  now,             \* the clock
  pc,              \* pc[c]: the next step of goroutine c
  loc,             \* loc[c]: the locals of the call c is in
  calls            \* calls made so far

tuning == <<maxmemory, evictPol, policyCounters, sketch, active>>
vars == <<store, usage, tuning, stats, now, pc, loc, calls>>

costOf(k, size) == KeyLen[k] + size + EntryOverhead

entryCost(k, e) == IF e = Absent THEN 0 ELSE costOf(k, e.size)

expired(e) == e.expiresAt # 0 /\ now >= e.expiresAt

policyConfig(mm) ==
  LET counters == mm \div AvgEntryCost
  IN  CASE mm = 0 \/ counters < CountersMin -> CountersMin
        [] mm # 0 /\ counters > CountersMax -> CountersMax
        [] OTHER -> counters

\* What Sample may return: at most SampleN distinct stored keys.  A draw
\* that lands on an empty shard is wasted, so with an empty shard about the
\* whole budget can be; a draw on any other shard yields an entry.
Sample ==
  LET present == {k \in Keys : store[k] # Absent}
  IN  {S \in SUBSET present :
         /\ Cardinality(S) <= SampleN
         /\ S = {} => \E s \in Shards : \A k \in present : ShardOf[k] # s}

-----------------------------------------------------------------------------

Labels == {"idle", "setPolicy", "setGuard", "setAdmit", "setSwap",
           "setAccount", "passCheck", "evictLoad", "evictSample",
           "evictDelete", "evictAccount", "delAccount", "delExpired",
           "getExpired", "getRecord", "ttlExpired", "ttlRemaining",
           "smmConfig", "smmSwap", "smmSketch", "smmDoorkeeper", "actPolicy",
           "actCeiling", "actStore", "smmPolicy"}

Replies == {"none", "ok", "oom", "hit", "miss", "deleted", "notFound", "ttl"}

Locals == [key: Keys, entry: Entry, ceiling: Nat, pol: Policies, old: Nat,
           victim: Keys, hasExclude: BOOLEAN, misses: Nat, gaveUp: BOOLEAN,
           counters: Nat, want: BOOLEAN, reply: Replies, remaining: Int]

NoLocals ==
  [key |-> CHOOSE k \in Keys : TRUE,
   entry |-> [size |-> CHOOSE s \in Sizes : TRUE, expiresAt |-> 0],
   ceiling |-> 0, pol |-> "noeviction", old |-> 0,
   victim |-> CHOOSE k \in Keys : TRUE, hasExclude |-> FALSE, misses |-> 0,
   gaveUp |-> FALSE, counters |-> 0, want |-> FALSE, reply |-> "none",
   remaining |-> 0]

Init ==
  /\ store = [k \in Keys |-> Absent]
  /\ usage = 0
  /\ maxmemory = InitMaxMemory
  /\ evictPol \in InitPolicies
  /\ policyCounters = policyConfig(InitMaxMemory)
  /\ sketch = [sk |-> policyConfig(InitMaxMemory),
               dk |-> policyConfig(InitMaxMemory)]
  /\ active = (evictPol = "allkeys-lfu" /\ maxmemory > 0)
  /\ stats = [hits |-> 0, misses |-> 0, evictions |-> 0, recorded |-> 0]
  /\ now = 1
  /\ pc = [c \in Clients |-> "idle"]
  /\ loc = [c \in Clients |-> NoLocals]
  /\ calls = 0

\* A goroutine enters an operation; gaveUp outlives the call that set it.
Call(c, op) ==
  /\ pc[c] = "idle" /\ op \in Ops /\ calls < MaxOps
  /\ op \in TuningOps => c \in Tuners
  /\ calls' = calls + 1

Goto(c, label) == pc' = [pc EXCEPT ![c] = label]

Fresh(c) == [NoLocals EXCEPT !.gaveUp = loc[c].gaveUp]

Return(c, reply, remaining, gaveUp) ==
  /\ Goto(c, "idle")
  /\ loc' = [loc EXCEPT ![c] = [NoLocals EXCEPT !.reply = reply,
                                                !.remaining = remaining,
                                                !.gaveUp = gaveUp]]

-----------------------------------------------------------------------------
(* Set.  The context check at entry and cloning the value touch no state. *)

\* Reads the clock and the ceiling.
SetBegin(c, k, size, ttl) ==
  /\ Call(c, "Set")
  /\ loc' = [loc EXCEPT ![c] =
       [Fresh(c) EXCEPT
          !.key = k,
          !.entry = [size |-> size,
                     expiresAt |-> IF ttl > 0 THEN now + ttl ELSE 0],
          !.ceiling = maxmemory,
          !.hasExclude = TRUE]]
  /\ Goto(c, "setPolicy")
  /\ UNCHANGED <<store, usage, tuning, stats, now>>

SetPolicy(c) ==
  /\ pc[c] = "setPolicy"
  /\ loc' = [loc EXCEPT ![c].pol = evictPol]
  /\ Goto(c, IF loc[c].ceiling > 0 /\ evictPol = "noeviction"
             THEN "setGuard" ELSE "setSwap")
  /\ UNCHANGED <<store, usage, tuning, stats, now, calls>>

\* The noeviction guard reads the incumbent's cost...
SetGuard(c) ==
  /\ pc[c] = "setGuard"
  /\ loc' = [loc EXCEPT ![c].old = entryCost(loc[c].key, store[loc[c].key])]
  /\ Goto(c, "setAdmit")
  /\ UNCHANGED <<store, usage, tuning, stats, now, calls>>

newCost(c) == costOf(loc[c].key, loc[c].entry.size)

\* Mutant of SetAdmit: the guard looks at the usage before the write only.
SetAdmitLate(c) ==
  /\ pc[c] = "setAdmit"
  /\ \/ usage > loc[c].ceiling /\ Return(c, "oom", 0, loc[c].gaveUp)
     \/ usage <= loc[c].ceiling /\ Goto(c, "setSwap") /\ UNCHANGED loc
  /\ UNCHANGED <<store, usage, tuning, stats, now, calls>>

\* ...and then the usage, to reject a write that would grow it too far.
SetAdmit(c) ==
  LET delta == newCost(c) - loc[c].old
  IN  /\ pc[c] = "setAdmit"
      /\ \/ /\ delta > 0 /\ usage + delta > loc[c].ceiling
            /\ Return(c, "oom", 0, loc[c].gaveUp)
         \/ /\ ~(delta > 0 /\ usage + delta > loc[c].ceiling)
            /\ Goto(c, "setSwap")
            /\ UNCHANGED loc
      /\ UNCHANGED <<store, usage, tuning, stats, now, calls>>

SetSwap(c) ==
  LET k == loc[c].key
  IN  /\ pc[c] = "setSwap"
      /\ loc' = [loc EXCEPT ![c].old = entryCost(k, store[k])]
      /\ store' = [store EXCEPT ![k] = loc[c].entry]
      /\ Goto(c, "setAccount")
      /\ UNCHANGED <<usage, tuning, stats, now, calls>>

\* Mutant of SetAccount: an overwrite is charged in full.
SetAccountNoDelta(c) ==
  /\ pc[c] = "setAccount"
  /\ usage' = usage + newCost(c)
  /\ Goto(c, "passCheck")
  /\ UNCHANGED <<store, tuning, stats, now, loc, calls>>

SetAccount(c) ==
  /\ pc[c] = "setAccount"
  /\ usage' = usage + (newCost(c) - loc[c].old)
  /\ Goto(c, "passCheck")
  /\ UNCHANGED <<store, tuning, stats, now, loc, calls>>

-----------------------------------------------------------------------------
(* The eviction pass, run by Set and by SetMaxMemory. *)

\* Is a pass needed?
PassCheck(c) ==
  LET over == /\ loc[c].ceiling > 0
              /\ loc[c].pol # "noeviction"
              /\ usage > loc[c].ceiling
  IN  /\ pc[c] = "passCheck"
      /\ \/ /\ over
            /\ loc' = [loc EXCEPT ![c].misses = 0, ![c].gaveUp = FALSE]
            /\ Goto(c, "evictLoad")
         \/ ~over /\ Return(c, "ok", 0, FALSE)
      /\ UNCHANGED <<store, usage, tuning, stats, now, calls>>

\* The loop condition of evictUntilUnder.
EvictLoad(c) ==
  /\ pc[c] = "evictLoad"
  /\ \/ usage > loc[c].ceiling /\ Goto(c, "evictSample") /\ UNCHANGED loc
     \/ usage <= loc[c].ceiling /\ Return(c, "ok", 0, FALSE)
  /\ UNCHANGED <<store, usage, tuning, stats, now, calls>>

\* Mutant of Candidates: the newcomer may be its own victim.
CandidatesAll(c, S) == S

\* pickVictim: the sampled keys, without the newcomer of the pass.
Candidates(c, S) == IF loc[c].hasExclude THEN S \ {loc[c].key} ELSE S

\* Mutant of EvictSample: fruitless samples are not counted.
EvictSampleUncounted(c) ==
  /\ pc[c] = "evictSample"
  /\ \E S \in Sample :
       \/ \E v \in Candidates(c, S) :
            /\ loc' = [loc EXCEPT ![c].victim = v]
            /\ Goto(c, "evictDelete")
       \/ Candidates(c, S) = {} /\ Goto(c, "evictLoad") /\ UNCHANGED loc
  /\ UNCHANGED <<store, usage, tuning, stats, now, calls>>

EvictSample(c) ==
  /\ pc[c] = "evictSample"
  /\ \E S \in Sample :
       \/ \E v \in Candidates(c, S) :
            /\ loc' = [loc EXCEPT ![c].victim = v]
            /\ Goto(c, "evictDelete")
       \/ /\ Candidates(c, S) = {}
          /\ loc[c].misses + 1 > MaxEvictMisses
          /\ Return(c, "ok", 0, TRUE)
       \/ /\ Candidates(c, S) = {}
          /\ loc[c].misses + 1 <= MaxEvictMisses
          /\ loc' = [loc EXCEPT ![c].misses = @ + 1]
          /\ Goto(c, "evictLoad")
  /\ UNCHANGED <<store, usage, tuning, stats, now, calls>>

\* The victim may be gone, or be another entry, by the time it is deleted.
EvictDelete(c) ==
  LET v == loc[c].victim
  IN  /\ pc[c] = "evictDelete"
      /\ \/ /\ store[v] = Absent
            /\ Goto(c, "evictLoad")
            /\ UNCHANGED <<store, loc>>
         \/ /\ store[v] # Absent
            /\ loc' = [loc EXCEPT ![c].old = entryCost(v, store[v])]
            /\ store' = [store EXCEPT ![v] = Absent]
            /\ Goto(c, "evictAccount")
      /\ UNCHANGED <<usage, tuning, stats, now, calls>>

\* Mutant of EvictAccount: one victim per pass.
EvictAccountOnce(c) ==
  /\ pc[c] = "evictAccount"
  /\ usage' = usage - loc[c].old
  /\ stats' = [stats EXCEPT !.evictions = @ + 1]
  /\ Return(c, "ok", 0, FALSE)
  /\ UNCHANGED <<store, tuning, now, calls>>

\* Mutant of EvictAccount: usage is not looked at between victims.
EvictAccountNoLoad(c) ==
  /\ pc[c] = "evictAccount"
  /\ usage' = usage - loc[c].old
  /\ stats' = [stats EXCEPT !.evictions = @ + 1]
  /\ Goto(c, "evictSample")
  /\ UNCHANGED <<store, tuning, now, loc, calls>>

EvictAccount(c) ==
  /\ pc[c] = "evictAccount"
  /\ usage' = usage - loc[c].old
  /\ stats' = [stats EXCEPT !.evictions = @ + 1]
  /\ Goto(c, "evictLoad")
  /\ UNCHANGED <<store, tuning, now, loc, calls>>

-----------------------------------------------------------------------------
(* Del, Get and TTL: one access to the map, then the clock. *)

DelDelete(c, k) ==
  /\ Call(c, "Del")
  /\ \/ /\ store[k] = Absent
        /\ Return(c, "notFound", 0, loc[c].gaveUp)
        /\ UNCHANGED store
     \/ /\ store[k] # Absent
        /\ loc' = [loc EXCEPT ![c] =
             [Fresh(c) EXCEPT !.key = k, !.entry = store[k],
                              !.old = entryCost(k, store[k])]]
        /\ store' = [store EXCEPT ![k] = Absent]
        /\ Goto(c, "delAccount")
  /\ UNCHANGED <<usage, tuning, stats, now>>

DelAccount(c) ==
  /\ pc[c] = "delAccount"
  /\ usage' = usage - loc[c].old
  /\ Goto(c, "delExpired")
  /\ UNCHANGED <<store, tuning, stats, now, loc, calls>>

DelExpired(c) ==
  /\ pc[c] = "delExpired"
  /\ Return(c, IF expired(loc[c].entry) THEN "notFound" ELSE "deleted", 0,
            loc[c].gaveUp)
  /\ UNCHANGED <<store, usage, tuning, stats, now, calls>>

\* m.Get, of an operation that goes on to look at the entry's expiry.
Lookup(c, k, label) ==
  /\ loc' = [loc EXCEPT ![c] = [Fresh(c) EXCEPT !.key = k, !.entry = store[k]]]
  /\ Goto(c, label)

Hit == stats' = [stats EXCEPT !.hits = @ + 1]
Miss == stats' = [stats EXCEPT !.misses = @ + 1]

GetLookup(c, k) ==
  /\ Call(c, "Get")
  /\ \/ /\ store[k] = Absent
        /\ Miss
        /\ Return(c, "miss", 0, loc[c].gaveUp)
     \/ /\ store[k] # Absent
        /\ Lookup(c, k, "getExpired")
        /\ UNCHANGED stats
  /\ UNCHANGED <<store, usage, tuning, now>>

GetExpired(c) ==
  /\ pc[c] = "getExpired"
  /\ \/ expired(loc[c].entry) /\ Miss /\ Return(c, "miss", 0, loc[c].gaveUp)
     \/ /\ ~expired(loc[c].entry)
        /\ Hit
        /\ Goto(c, "getRecord")
        /\ UNCHANGED loc
  /\ UNCHANGED <<store, usage, tuning, now, calls>>

\* Policy.Record takes the sample if it is active; Policy has what follows.
GetRecord(c) ==
  /\ pc[c] = "getRecord"
  /\ \/ active /\ stats' = [stats EXCEPT !.recorded = @ + 1]
     \/ ~active /\ UNCHANGED stats
  /\ Return(c, "hit", 0, loc[c].gaveUp)
  /\ UNCHANGED <<store, usage, tuning, now, calls>>

TTLLookup(c, k) ==
  /\ Call(c, "TTL")
  /\ \/ store[k] = Absent /\ Return(c, "notFound", 0, loc[c].gaveUp)
     \/ store[k] # Absent /\ Lookup(c, k, "ttlExpired")
  /\ UNCHANGED <<store, usage, tuning, stats, now>>

TTLExpired(c) ==
  /\ pc[c] = "ttlExpired"
  /\ \/ expired(loc[c].entry) /\ Return(c, "notFound", 0, loc[c].gaveUp)
     \/ loc[c].entry.expiresAt = 0 /\ Return(c, "ttl", -1, loc[c].gaveUp)
     \/ /\ ~expired(loc[c].entry) /\ loc[c].entry.expiresAt # 0
        /\ Goto(c, "ttlRemaining")
        /\ UNCHANGED loc
  /\ UNCHANGED <<store, usage, tuning, stats, now, calls>>

\* The clock is read a second time.
TTLRemaining(c) ==
  /\ pc[c] = "ttlRemaining"
  /\ Return(c, "ttl", loc[c].entry.expiresAt - now, loc[c].gaveUp)
  /\ UNCHANGED <<store, usage, tuning, stats, now, calls>>

-----------------------------------------------------------------------------
(* The live setters. *)

SetMaxMemory(c, bytes) ==
  /\ Call(c, "SetMaxMemory")
  /\ maxmemory' = bytes
  /\ loc' = [loc EXCEPT ![c] = [Fresh(c) EXCEPT !.ceiling = bytes]]
  /\ Goto(c, "smmConfig")
  /\ UNCHANGED <<store, usage, evictPol, policyCounters, sketch, active,
                 stats, now>>

\* policyConfig reads the ceiling again.
SMMConfig(c) ==
  /\ pc[c] = "smmConfig"
  /\ loc' = [loc EXCEPT ![c].counters = policyConfig(maxmemory)]
  /\ Goto(c, "smmSwap")
  /\ UNCHANGED <<store, usage, tuning, stats, now, calls>>

SMMSwap(c) ==
  /\ pc[c] = "smmSwap"
  /\ policyCounters' = loc[c].counters
  /\ Goto(c, IF loc[c].counters # policyCounters
             THEN "smmSketch" ELSE "actPolicy")
  /\ UNCHANGED <<store, usage, maxmemory, evictPol, sketch, active, stats,
                 now, loc, calls>>

\* Policy.Resize publishes a fresh sketch and then a fresh doorkeeper.
SMMSketch(c) ==
  /\ pc[c] = "smmSketch"
  /\ sketch' = [sketch EXCEPT !.sk = loc[c].counters]
  /\ Goto(c, "smmDoorkeeper")
  /\ UNCHANGED <<store, usage, maxmemory, evictPol, policyCounters, active,
                 stats, now, loc, calls>>

\* Mutant of SMMDoorkeeper: Resize rebuilds the sketch only.
SMMDoorkeeperKept(c) ==
  /\ pc[c] = "smmDoorkeeper"
  /\ Goto(c, "actPolicy")
  /\ UNCHANGED <<store, usage, tuning, stats, now, loc, calls>>

SMMDoorkeeper(c) ==
  /\ pc[c] = "smmDoorkeeper"
  /\ sketch' = [sketch EXCEPT !.dk = loc[c].counters]
  /\ Goto(c, "actPolicy")
  /\ UNCHANGED <<store, usage, maxmemory, evictPol, policyCounters, active,
                 stats, now, loc, calls>>

\* SetEvictionPolicy has no ceiling of its own, hence no pass after it.
SetEvictionPolicy(c, p) ==
  /\ Call(c, "SetEvictionPolicy")
  /\ evictPol' = p
  /\ loc' = [loc EXCEPT ![c] = Fresh(c)]
  /\ Goto(c, "actPolicy")
  /\ UNCHANGED <<store, usage, maxmemory, policyCounters, sketch, active,
                 stats, now>>

\* refreshActive: read the policy, read the ceiling, store the verdict.
ActPolicy(c) ==
  /\ pc[c] = "actPolicy"
  /\ loc' = [loc EXCEPT ![c].want = FALSE]
  /\ Goto(c, IF evictPol = "allkeys-lfu" THEN "actCeiling" ELSE "actStore")
  /\ UNCHANGED <<store, usage, tuning, stats, now, calls>>

ActCeiling(c) ==
  /\ pc[c] = "actCeiling"
  /\ loc' = [loc EXCEPT ![c].want = (maxmemory > 0)]
  /\ Goto(c, "actStore")
  /\ UNCHANGED <<store, usage, tuning, stats, now, calls>>

ActStore(c) ==
  /\ pc[c] = "actStore"
  /\ active' = loc[c].want
  /\ \/ loc[c].ceiling > 0 /\ Goto(c, "smmPolicy") /\ UNCHANGED loc
     \/ loc[c].ceiling = 0 /\ Return(c, "ok", 0, loc[c].gaveUp)
  /\ UNCHANGED <<store, usage, maxmemory, evictPol, policyCounters, sketch,
                 stats, now, calls>>

SMMPolicy(c) ==
  /\ pc[c] = "smmPolicy"
  /\ loc' = [loc EXCEPT ![c].pol = evictPol]
  /\ Goto(c, "passCheck")
  /\ UNCHANGED <<store, usage, tuning, stats, now, calls>>

-----------------------------------------------------------------------------

Tick ==
  /\ now < MaxTime
  /\ now' = now + 1
  /\ UNCHANGED <<store, usage, tuning, stats, pc, loc, calls>>

\* A call entered by c.
Start(c) ==
  \/ \E k \in Keys, size \in Sizes, ttl \in TTLs : SetBegin(c, k, size, ttl)
  \/ \E k \in Keys : DelDelete(c, k) \/ GetLookup(c, k) \/ TTLLookup(c, k)
  \/ \E bytes \in Ceilings : SetMaxMemory(c, bytes)
  \/ \E p \in Policies : SetEvictionPolicy(c, p)

\* A step of the call c is in.
Step(c) ==
  \/ SetPolicy(c) \/ SetGuard(c) \/ SetAdmit(c) \/ SetSwap(c)
  \/ SetAccount(c) \/ PassCheck(c) \/ EvictLoad(c) \/ EvictSample(c)
  \/ EvictDelete(c) \/ EvictAccount(c)
  \/ DelAccount(c) \/ DelExpired(c) \/ GetExpired(c) \/ GetRecord(c)
  \/ TTLExpired(c) \/ TTLRemaining(c)
  \/ SMMConfig(c) \/ SMMSwap(c) \/ SMMSketch(c) \/ SMMDoorkeeper(c)
  \/ ActPolicy(c) \/ ActCeiling(c) \/ ActStore(c) \/ SMMPolicy(c)

\* Every call has returned and no more are made.
Finished ==
  /\ calls = MaxOps /\ \A c \in Clients : pc[c] = "idle"
  /\ now >= MaxTime
  /\ UNCHANGED vars

Next == (\E c \in Clients : Start(c) \/ Step(c)) \/ Tick \/ Finished

Spec == Init /\ [][Next]_vars

\* The Go scheduler runs every goroutine that can run.
FairSpec == Spec /\ \A c \in Clients : WF_vars(Step(c))

-----------------------------------------------------------------------------
(* Properties. *)

\* Types; usage may be negative, for a Del may be accounted for before the Set
\* of the same entry.
TypeOK ==
  /\ store \in [Keys -> Entry \cup {Absent}]
  /\ usage \in Int
  /\ maxmemory \in Nat /\ evictPol \in Policies
  /\ policyCounters \in Nat /\ sketch \in [sk: Nat, dk: Nat]
  /\ active \in BOOLEAN
  /\ stats \in [hits: Nat, misses: Nat, evictions: Nat, recorded: Nat]
  /\ now \in Nat /\ calls \in Nat
  /\ pc \in [Clients -> Labels] /\ loc \in [Clients -> Locals]

Idle == \A c \in Clients : pc[c] = "idle"

storedCost == [k \in Keys |-> entryCost(k, store[k])]

\* Costs added to the map by a Swap and not yet added to usage, and costs
\* taken out of the map and not yet subtracted from usage.
credit == [c \in Clients |-> IF pc[c] = "setAccount" THEN newCost(c) ELSE 0]
debit == [c \in Clients |->
            IF pc[c] \in {"setAccount", "delAccount", "evictAccount"}
            THEN loc[c].old ELSE 0]

\* The byte counter never drifts: whatever the goroutines are in the middle
\* of, usage is the cost of the stored entries but for the additions and
\* subtractions that Set, Del and the pass still owe it.
Accounting == usage + Total(credit) = Total(storedCost) + Total(debit)

\* With every call returned, the counter is exactly the stored bytes: what
\* recomputeUsage finds in the concurrency tests.
QuiescentExact ==
  Idle => usage = Total(storedCost)

InPass(c) == pc[c] \in {"passCheck", "evictLoad", "evictSample",
                        "evictDelete", "evictAccount"}

\* Memory is bounded: while the ceiling and an evicting policy stay as they
\* are, usage above the ceiling is always some goroutine's business: one is
\* about to check or is evicting, unless its last pass gave up for want of a
\* victim.
EvictionOwed ==
  /\ Ops \cap TuningOps = {}
  /\ maxmemory > 0 /\ evictPol # "noeviction" /\ usage > maxmemory
  => \E c \in Clients : InPass(c) \/ loc[c].gaveUp

\* C-INV-1: an entry leaves the map by a Del of its key, or as the victim of
\* a pass for which it is not the newcomer.
NewcomerKept ==
  [][\A k \in Keys : store[k] # Absent /\ store'[k] = Absent =>
       \E c \in Clients :
         \/ pc[c] = "idle" /\ pc'[c] = "delAccount" /\ loc'[c].key = k
         \/ /\ pc[c] = "evictDelete" /\ pc'[c] = "evictAccount"
            /\ loc[c].victim = k
            /\ ~(loc[c].hasExclude /\ loc[c].key = k)]_vars

\* Every call returns: the pass of an oversized newcomer included.
CallsReturn == \A c \in Clients : pc[c] # "idle" ~> pc[c] = "idle"

\* A setter that has not stored its verdict on recording yet.
Setting(c) == pc[c] \in {"smmConfig", "smmSwap", "smmSketch", "smmDoorkeeper",
                         "actPolicy", "actCeiling", "actStore"}

\* What a setter changes reaches the policy, as long as one goroutine tunes (two
\* at once can store in either order): with no setter under way, recording is on
\* "only when it can matter, under allkeys-lfu with a positive ceiling"
\* (cache.go:179), and the sketch is sized "from the current maxmemory"
\* (cache.go:155), sketch and doorkeeper alike, as policyCounters records.
PolicyFollows ==
  (\A t, u \in Tuners : t = u) /\ (\A c \in Clients : ~Setting(c)) =>
    /\ active = (evictPol = "allkeys-lfu" /\ maxmemory > 0)
    /\ policyCounters = policyConfig(maxmemory)
    /\ sketch.sk = policyCounters /\ sketch.dk = policyCounters
=============================================================================
