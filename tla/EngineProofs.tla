---------------------------- MODULE EngineProofs ----------------------------
(***************************************************************************)
(* Proofs about Engine, for any number of goroutines, keys, shards and     *)
(* calls, any key and value lengths and any configuration.                 *)
(***************************************************************************)
EXTENDS EngineHistory, Functions, FiniteSetTheorems, TLAPS

-----------------------------------------------------------------------------
(* How Total changes when one value of a function changes: the arithmetic  *)
(* behind every proof about the byte counter.                              *)

\* The units of one element are as many as the function says.
LEMMA UnitsCard ==
  ASSUME NEW S, NEW f \in [S -> Nat], NEW x \in S
  PROVE  IsFiniteSet(Units(f, x)) /\ Cardinality(Units(f, x)) = f[x]
<1>1. IsFiniteSet(1..f[x]) /\ Cardinality(1..f[x]) = f[x]
  BY FS_Interval
<1>2. IsFiniteSet({x}) /\ Cardinality({x}) = 1
  BY FS_Singleton, Zenon
<1>3. /\ IsFiniteSet({x} \X (1..f[x]))
      /\ Cardinality({x} \X (1..f[x])) = 1 * f[x]
  BY <1>1, <1>2, FS_Product
<1> QED  BY <1>3 DEF Units

\* The units of finitely many elements are finitely many.
LEMMA UnitsFinite ==
  ASSUME NEW S, NEW f \in [S -> Nat], NEW T \in SUBSET S, IsFiniteSet(T)
  PROVE  IsFiniteSet(UNION {Units(f, x) : x \in T})
<1> DEFINE g == [x \in T |-> Units(f, x)]
           R == {Units(f, x) : x \in T}
<1>1. g \in Surjection(T, R)
  BY Zenon DEF Surjection
<1>2. IsFiniteSet(R)
  BY <1>1, FS_Surjection, Zenon
<1>3. \A U \in R : IsFiniteSet(U)
  BY UnitsCard, Zenon
<1> HIDE DEF R
<1>4. IsFiniteSet(UNION R)
  BY <1>2, <1>3, FS_UNION, Zenon
<1> QED  BY <1>4, Zenon DEF R

\* A sum is the sum over the other elements plus what x contributes.
LEMMA TotalSplit ==
  ASSUME NEW S, IsFiniteSet(S), NEW f \in [S -> Nat], NEW x \in S
  PROVE  LET rest == UNION {Units(f, y) : y \in S \ {x}}
         IN  /\ IsFiniteSet(rest)
             /\ Total(f) = Cardinality(rest) + f[x]
<1> DEFINE rest == UNION {Units(f, y) : y \in S \ {x}}
<1>1. IsFiniteSet(S \ {x})
  BY FS_RemoveElement, Zenon
<1>2. IsFiniteSet(rest)
  BY <1>1, UnitsFinite, Zenon
<1>3. IsFiniteSet(Units(f, x)) /\ Cardinality(Units(f, x)) = f[x]
  BY UnitsCard, Zenon
<1>4. UNION {Units(f, y) : y \in DOMAIN f} = rest \cup Units(f, x)
  BY Zenon
<1>5. rest \cap Units(f, x) = {}
  BY DEF Units
<1>6. Cardinality({}) = 0
  BY FS_EmptySet, Zenon
<1>7. Cardinality(rest) \in Nat
  BY <1>2, FS_CardinalityType, Zenon
<1> HIDE DEF rest
<1>8. Cardinality(rest \cup Units(f, x)) = Cardinality(rest) + f[x]
  <2>1. Cardinality(rest \cup Units(f, x)) =
          Cardinality(rest) + Cardinality(Units(f, x))
            - Cardinality(rest \cap Units(f, x))
    BY <1>2, <1>3, FS_Union, Zenon
  <2>2. f[x] \in Nat
    BY Zenon
  <2>3. Cardinality(rest \cup Units(f, x)) = Cardinality(rest) + f[x] - 0
    BY <1>3, <1>5, <1>6, <2>1, Zenon
  <2> QED  BY <1>7, <2>2, <2>3
<1> QED  BY <1>2, <1>4, <1>8, Zenon DEF rest, Total

\* A sum of naturals over a finite set is a natural.
LEMMA TotalType ==
  ASSUME NEW S, IsFiniteSet(S), NEW f \in [S -> Nat]
  PROVE  Total(f) \in Nat
<1>1. IsFiniteSet(UNION {Units(f, x) : x \in S})
  BY UnitsFinite, Zenon
<1> QED  BY <1>1, FS_CardinalityType, Zenon DEF Total

\* The sum of the zero function.
LEMMA TotalZero ==
  ASSUME NEW S, NEW f \in [S -> Nat], \A x \in S : f[x] = 0
  PROVE  Total(f) = 0
<1>1. UNION {Units(f, x) : x \in DOMAIN f} = {}
  BY DEF Units
<1> QED  BY <1>1, FS_EmptySet, Zenon DEF Total

\* Changing one value changes the sum by as much.
LEMMA TotalUpdate ==
  ASSUME NEW S, IsFiniteSet(S), NEW f \in [S -> Nat], NEW x \in S,
         NEW v \in Nat
  PROVE  Total([f EXCEPT ![x] = v]) = Total(f) - f[x] + v
<1> DEFINE g == [f EXCEPT ![x] = v]
           restF == UNION {Units(f, y) : y \in S \ {x}}
           restG == UNION {Units(g, y) : y \in S \ {x}}
<1>1. g \in [S -> Nat] /\ g[x] = v
  BY Zenon
<1>2. restF = restG
  BY Zenon DEF Units
<1>3. IsFiniteSet(restF) /\ Total(f) = Cardinality(restF) + f[x]
  BY TotalSplit, Zenon
<1>4. Total(g) = Cardinality(restG) + g[x]
  <2> HIDE DEF g
  <2> QED  BY <1>1, TotalSplit, Zenon
<1>5. Cardinality(restF) \in Nat
  BY <1>3, FS_CardinalityType, Zenon
<1>6. f[x] \in Nat
  BY Zenon
<1> HIDE DEF g, restF, restG
<1> QED  BY <1>1, <1>2, <1>3, <1>4, <1>5, <1>6 DEF g

-----------------------------------------------------------------------------
(* Types. *)

\* The initial locals of a goroutine, and those of a call it enters, have
\* their type.
LEMMA NoLocalsType == NoLocals \in Locals
<1>1. (CHOOSE k \in Keys : TRUE) \in Keys
  BY EngineAssumption, Zenon
<1>2. (CHOOSE s \in Sizes : TRUE) \in Sizes
  BY EngineAssumption, Zenon
<1> QED  BY <1>1, <1>2, EngineAssumption
            DEF NoLocals, Locals, Entry, Policies, Replies

\* A sketch sizing is a number of counters.
LEMMA PolicyConfigType == ASSUME NEW mm \in Nat PROVE policyConfig(mm) \in Nat
<1>1. mm \div AvgEntryCost \in Nat
  BY EngineAssumption
<1> QED  BY <1>1, EngineAssumption, Zenon DEF policyConfig

\* The cost of an entry, stored or absent, is a number of bytes.
LEMMA CostType ==
  ASSUME NEW k \in Keys
  PROVE  /\ \A s \in Sizes : costOf(k, s) \in Nat
         /\ \A e \in Entry \cup {Absent} : entryCost(k, e) \in Nat
<1>1. ASSUME NEW s \in Sizes PROVE costOf(k, s) \in Nat
  BY EngineAssumption DEF costOf
<1>2. ASSUME NEW e \in Entry \cup {Absent} PROVE entryCost(k, e) \in Nat
  <2>1. CASE e = Absent
    BY <2>1, Zenon DEF entryCost
  <2>2. CASE e # Absent
    <3>1. e.size \in Sizes
      BY <2>2, Zenon DEF Entry
    <3>2. costOf(k, e.size) \in Nat
      BY <1>1, <3>1, Zenon
    <3> QED  BY <2>2, <3>2, Zenon DEF entryCost
  <2> QED  BY <2>1, <2>2, Zenon
<1> QED  BY <1>1, <1>2, Zenon

\* The part of the type invariant that is about the calls under way.
FramesOK == pc \in [Clients -> Labels] /\ loc \in [Clients -> Locals]

\* Entering and leaving a call keep the program counters and locals typed.
LEMMA ReturnType ==
  ASSUME TypeOK, NEW c \in Clients,
         \/ \E r \in Replies, n \in Int : Return(c, r, n, loc[c].gaveUp)
         \/ Return(c, "ok", 0, FALSE)
         \/ Return(c, "ok", 0, TRUE)
  PROVE  FramesOK'
<1>1. pc' = [pc EXCEPT ![c] = "idle"]
  BY Zenon DEF Return, Goto
<1>2. loc[c].gaveUp \in BOOLEAN /\ NoLocals \in Locals /\ "ok" \in Replies
  BY NoLocalsType, Zenon DEF TypeOK, Locals, Replies
<1>3. ASSUME NEW r \in Replies, NEW n \in Int, NEW b \in BOOLEAN,
             Return(c, r, n, b)
      PROVE  loc' \in [Clients -> Locals]
  BY <1>2, <1>3, Zenon DEF TypeOK, Return, Locals
<1>4. loc' \in [Clients -> Locals]
  <2>1. \E r \in Replies, n \in Int, b \in BOOLEAN : Return(c, r, n, b)
    <3>1. 0 \in Int /\ TRUE \in BOOLEAN /\ FALSE \in BOOLEAN
      BY SMT
    <3> QED  BY <1>2, <3>1, Zenon
  <2> QED  BY <1>3, <2>1, Zenon
<1> QED  BY <1>1, <1>4, Zenon DEF TypeOK, FramesOK, Labels

\* Zero is an integer: a fact that Zenon does not know by itself.
LEMMA ZeroInt == 0 \in Int
OBVIOUS

\* The locals of a call that begins are well typed.
LEMMA FreshType ==
  ASSUME TypeOK, NEW c \in Clients
  PROVE  Fresh(c) \in Locals
BY NoLocalsType, Zenon DEF TypeOK, Fresh, Locals

\* Entering a call keeps the program counters and the locals typed.
LEMMA EnterType ==
  ASSUME TypeOK, NEW c \in Clients, NEW f \in Locals, NEW label \in Labels,
         loc' = [loc EXCEPT ![c] = f], Goto(c, label)
  PROVE  FramesOK'
BY Zenon DEF TypeOK, FramesOK, Goto

\* Every variable keeps its type.
THEOREM TypeCorrect == Spec => []TypeOK
<1>1. Init => TypeOK
  BY NoLocalsType, PolicyConfigType, EngineAssumption
     DEF Init, TypeOK, Policies, Labels
<1>2. TypeOK /\ [Next]_vars => TypeOK'
  <2> SUFFICES ASSUME TypeOK, [Next]_vars PROVE TypeOK'
    BY Zenon
  <2>1. ASSUME NEW c \in Clients, Start(c) PROVE TypeOK'
    <3> USE DEF tuning
    <3>1. ASSUME NEW k \in Keys, NEW size \in Sizes, NEW ttl \in TTLs,
                 SetBegin(c, k, size, ttl)
          PROVE  TypeOK'
      <4> DEFINE e == [size |-> size,
                       expiresAt |-> IF ttl > 0 THEN now + ttl ELSE 0]
                 f == [Fresh(c) EXCEPT !.key = k, !.entry = e,
                                       !.ceiling = maxmemory,
                                       !.hasExclude = TRUE]
      <4>1. e \in Entry
        BY EngineAssumption DEF TypeOK, Entry
      <4>2. f \in Locals
        <5> HIDE DEF e
        <5> QED  BY <4>1, FreshType, ZenonT(30) DEF TypeOK, Locals
      <4>3. FramesOK'
        BY <3>1, <4>2, EnterType, Zenon DEF SetBegin, Labels
      <4> QED  BY <3>1, <4>3 DEF SetBegin, Call, TypeOK, FramesOK
    <3>2. ASSUME NEW k \in Keys, DelDelete(c, k) PROVE TypeOK'
      <4>1. CASE store[k] = Absent
        <5>1. Return(c, "notFound", 0, loc[c].gaveUp)
          BY <3>2, <4>1, Zenon DEF DelDelete
        <5>2. FramesOK'
          BY <5>1, ReturnType, ZeroInt, Zenon DEF Replies
        <5> QED  BY <3>2, <4>1, <5>2 DEF DelDelete, Call, TypeOK, FramesOK
      <4>2. CASE store[k] # Absent
        <5> DEFINE f == [Fresh(c) EXCEPT !.key = k, !.entry = store[k],
                                         !.old = entryCost(k, store[k])]
        <5>1. entryCost(k, store[k]) \in Nat /\ store[k] \in Entry
          BY <4>2, CostType, Zenon DEF TypeOK
        <5>2. f \in Locals
          BY <5>1, FreshType, ZenonT(30) DEF Locals
        <5>3. FramesOK'
          BY <3>2, <4>2, <5>2, EnterType, Zenon DEF DelDelete, Labels
        <5> QED  BY <3>2, <4>2, <5>3 DEF DelDelete, Call, TypeOK, FramesOK
      <4> QED  BY <4>1, <4>2, Zenon
    <3>3. ASSUME NEW k \in Keys, GetLookup(c, k) \/ TTLLookup(c, k)
          PROVE  TypeOK'
      <4>1. CASE store[k] = Absent
        <5>1. \/ Return(c, "miss", 0, loc[c].gaveUp)
              \/ Return(c, "notFound", 0, loc[c].gaveUp)
          BY <3>3, <4>1, Zenon DEF GetLookup, TTLLookup
        <5>2. FramesOK'
          BY <5>1, ReturnType, ZeroInt, Zenon DEF Replies
        <5> QED  BY <3>3, <4>1, <5>2
                    DEF GetLookup, TTLLookup, Miss, Call, TypeOK, FramesOK
      <4>2. CASE store[k] # Absent
        <5> DEFINE f == [Fresh(c) EXCEPT !.key = k, !.entry = store[k]]
        <5>1. f \in Locals
          BY <4>2, FreshType, ZenonT(30) DEF TypeOK, Locals
        <5>2. Lookup(c, k, "getExpired") \/ Lookup(c, k, "ttlExpired")
          BY <3>3, <4>2, Zenon DEF GetLookup, TTLLookup
        <5>3. FramesOK'
          BY <5>1, <5>2, EnterType, Zenon DEF Lookup, Labels
        <5> QED  BY <3>3, <4>2, <5>3
                    DEF GetLookup, TTLLookup, Call, TypeOK, FramesOK
      <4> QED  BY <4>1, <4>2, Zenon
    <3>4. ASSUME NEW bytes \in Ceilings, SetMaxMemory(c, bytes) PROVE TypeOK'
      <4>1. bytes \in Nat
        BY EngineAssumption, Zenon
      <4>2. [Fresh(c) EXCEPT !.ceiling = bytes] \in Locals
        BY <4>1, FreshType, ZenonT(30) DEF Locals
      <4>3. FramesOK'
        BY <3>4, <4>2, EnterType, Zenon DEF SetMaxMemory, Labels
      <4> QED  BY <3>4, <4>1, <4>3 DEF SetMaxMemory, Call, TypeOK, FramesOK
    <3>5. ASSUME NEW p \in Policies, SetEvictionPolicy(c, p) PROVE TypeOK'
      <4>1. FramesOK'
        BY <3>5, FreshType, EnterType, Zenon DEF SetEvictionPolicy, Labels
      <4> QED  BY <3>5, <4>1 DEF SetEvictionPolicy, Call, TypeOK, FramesOK
    <3> QED  BY <2>1, <3>1, <3>2, <3>3, <3>4, <3>5, Zenon DEF Start
  <2>2. ASSUME NEW c \in Clients, Step(c) PROVE TypeOK'
    <3> USE DEF TypeOK, Goto, tuning
    <3>0. loc[c] \in Locals /\ pc[c] \in Labels
      BY Zenon
    <3>1. CASE SetPolicy(c)
      BY <3>0, <3>1, Zenon DEF SetPolicy, Locals, Labels
    <3>2. CASE SetGuard(c)
      <4>1. entryCost(loc[c].key, store[loc[c].key]) \in Nat
        BY <3>0, CostType, Zenon DEF Locals
      <4> QED  BY <3>0, <3>2, <4>1, Zenon DEF SetGuard, Locals, Labels
    <3>3. CASE SetAdmit(c)
      <4>1. CASE Return(c, "oom", 0, loc[c].gaveUp)
        <5>1. FramesOK'
          BY <4>1, ReturnType, ZeroInt, Zenon DEF Replies
        <5> QED  BY <3>0, <3>3, <5>1, Zenon DEF SetAdmit, FramesOK
      <4>2. CASE Goto(c, "setSwap") /\ UNCHANGED loc
        BY <3>3, <4>2, Zenon DEF SetAdmit, Labels
      <4> QED  BY <3>3, <4>1, <4>2, Zenon DEF SetAdmit
    <3>4. CASE SetSwap(c)
      <4>1. entryCost(loc[c].key, store[loc[c].key]) \in Nat
        BY <3>0, CostType, Zenon DEF Locals
      <4> QED  BY <3>0, <3>4, <4>1, Zenon DEF SetSwap, Locals, Labels
    <3>5. CASE SetAccount(c)
      <4>1. newCost(c) \in Nat
        BY <3>0, CostType, Zenon DEF newCost, Locals, Entry
      <4> QED  BY <3>0, <3>5, <4>1 DEF SetAccount, Locals, Labels
    <3>6. CASE PassCheck(c)
      <4>1. CASE Return(c, "ok", 0, FALSE)
        <5>1. FramesOK'
          BY <4>1, ReturnType, Zenon
        <5> QED  BY <3>6, <5>1, Zenon DEF PassCheck, FramesOK
      <4>2. CASE /\ loc' = [loc EXCEPT ![c].misses = 0, ![c].gaveUp = FALSE]
                 /\ Goto(c, "evictLoad")
        <5>1. [loc[c] EXCEPT !.misses = 0, !.gaveUp = FALSE] \in Locals
          BY <3>0, Zenon DEF Locals
        <5>2. loc' \in [Clients -> Locals]
          BY <4>2, <5>1, Zenon
        <5> QED  BY <3>6, <4>2, <5>2, Zenon DEF PassCheck, Labels
      <4> QED  BY <3>6, <4>1, <4>2, Zenon DEF PassCheck
    <3>7. CASE EvictLoad(c)
      <4>1. CASE Return(c, "ok", 0, FALSE)
        <5>1. FramesOK'
          BY <4>1, ReturnType, Zenon
        <5> QED  BY <3>7, <5>1, Zenon DEF EvictLoad, FramesOK
      <4>2. CASE Goto(c, "evictSample") /\ UNCHANGED loc
        BY <3>7, <4>2, Zenon DEF EvictLoad, Labels
      <4> QED  BY <3>7, <4>1, <4>2, Zenon DEF EvictLoad
    <3>8. CASE EvictSample(c)
      <4>1. CASE Return(c, "ok", 0, TRUE)
        <5>1. FramesOK'
          BY <4>1, ReturnType, Zenon
        <5> QED  BY <3>8, <5>1, Zenon DEF EvictSample, FramesOK
      <4>2. ASSUME NEW v \in Keys,
                   loc' = [loc EXCEPT ![c].victim = v], Goto(c, "evictDelete")
            PROVE  TypeOK'
        <5>1. [loc[c] EXCEPT !.victim = v] \in Locals
          BY <3>0, Zenon DEF Locals
        <5>2. loc' \in [Clients -> Locals]
          BY <4>2, <5>1, Zenon
        <5> QED  BY <3>8, <4>2, <5>2, Zenon DEF EvictSample, Labels
      <4>3. CASE loc' = [loc EXCEPT ![c].misses = @ + 1] /\ Goto(c, "evictLoad")
        <5>1. [loc[c] EXCEPT !.misses = @ + 1] \in Locals
          BY <3>0 DEF Locals
        <5>2. loc' \in [Clients -> Locals]
          BY <4>3, <5>1, Zenon
        <5> QED  BY <3>8, <4>3, <5>2, Zenon DEF EvictSample, Labels
      <4> QED  BY <3>8, <4>1, <4>2, <4>3, Zenon
                  DEF EvictSample, Candidates, Sample
    <3>9. CASE EvictDelete(c)
      <4>1. entryCost(loc[c].victim, store[loc[c].victim]) \in Nat
        BY <3>0, CostType, Zenon DEF Locals
      <4>2. [loc[c] EXCEPT !.old = entryCost(loc[c].victim,
                                             store[loc[c].victim])] \in Locals
        BY <3>0, <4>1, Zenon DEF Locals
      <4>3. loc' \in [Clients -> Locals]
        BY <3>9, <4>2, Zenon DEF EvictDelete
      <4>4. store' \in [Keys -> Entry \cup {Absent}]
        BY <3>0, <3>9, Zenon DEF EvictDelete, Locals
      <4> QED  BY <3>9, <4>3, <4>4, ZenonT(30) DEF EvictDelete, Labels
    <3>10. CASE EvictAccount(c)
      BY <3>0, <3>10 DEF EvictAccount, Locals, Labels
    <3>11. CASE DelAccount(c)
      BY <3>0, <3>11 DEF DelAccount, Locals, Labels
    <3>12. CASE DelExpired(c)
      <4>1. FramesOK'
        BY <3>12, ReturnType, ZeroInt, Zenon DEF DelExpired, Replies
      <4> QED  BY <3>12, <4>1, Zenon DEF DelExpired, FramesOK
    <3>13. CASE GetExpired(c)
      <4>1. CASE Return(c, "miss", 0, loc[c].gaveUp)
        <5>1. FramesOK'
          BY <4>1, ReturnType, ZeroInt, Zenon DEF Replies
        <5> QED  BY <3>13, <5>1 DEF GetExpired, Hit, Miss, FramesOK
      <4>2. CASE Goto(c, "getRecord") /\ UNCHANGED loc
        BY <3>13, <4>2 DEF GetExpired, Hit, Miss, Labels
      <4> QED  BY <3>13, <4>1, <4>2, Zenon DEF GetExpired
    <3>21. CASE GetRecord(c)
      <4>1. FramesOK'
        BY <3>21, ReturnType, ZeroInt, Zenon DEF GetRecord, Replies
      <4> QED  BY <3>21, <4>1 DEF GetRecord, FramesOK
    <3>14. CASE TTLExpired(c)
      <4>1. CASE Goto(c, "ttlRemaining") /\ UNCHANGED loc
        BY <3>14, <4>1, Zenon DEF TTLExpired, Labels
      <4>2. CASE \E r \in Replies, n \in Int : Return(c, r, n, loc[c].gaveUp)
        <5>1. FramesOK'
          BY <4>2, ReturnType, Zenon
        <5> QED  BY <3>14, <5>1, Zenon DEF TTLExpired, FramesOK
      <4>3. "notFound" \in Replies /\ "ttl" \in Replies /\ -1 \in Int /\ 0 \in Int
        BY DEF Replies
      <4> QED  BY <3>14, <4>1, <4>2, <4>3, Zenon DEF TTLExpired
    <3>15. CASE TTLRemaining(c)
      <4>1. loc[c].entry.expiresAt - now \in Int
        BY <3>0 DEF Locals, Entry
      <4>2. FramesOK'
        BY <3>15, <4>1, ReturnType, Zenon DEF TTLRemaining, Replies
      <4> QED  BY <3>15, <4>2, Zenon DEF TTLRemaining, FramesOK
    <3>16. CASE SMMConfig(c)
      BY <3>0, <3>16, PolicyConfigType, Zenon DEF SMMConfig, Locals, Labels
    <3>17. CASE SMMSwap(c)
      BY <3>0, <3>17, Zenon DEF SMMSwap, Locals, Labels
    <3>18. CASE SMMSketch(c) \/ SMMDoorkeeper(c)
      BY <3>0, <3>18 DEF SMMSketch, SMMDoorkeeper, Locals, Labels
    <3>19. CASE ActPolicy(c) \/ ActCeiling(c) \/ SMMPolicy(c)
      <4>1. \A w \in BOOLEAN :
              [loc EXCEPT ![c].want = w] \in [Clients -> Locals]
        BY <3>0, Zenon DEF Locals
      <4>2. (maxmemory > 0) \in BOOLEAN /\ FALSE \in BOOLEAN
        OBVIOUS
      <4>3. /\ [loc EXCEPT ![c].want = (maxmemory > 0)] \in [Clients -> Locals]
            /\ [loc EXCEPT ![c].want = FALSE] \in [Clients -> Locals]
        BY <4>1, <4>2, Zenon
      <4>4. [loc EXCEPT ![c].pol = evictPol] \in [Clients -> Locals]
        BY <3>0, Zenon DEF Locals
      <4>5. loc' \in [Clients -> Locals]
        BY <3>19, <4>3, <4>4, Zenon DEF ActPolicy, ActCeiling, SMMPolicy
      <4> QED  BY <3>19, <4>5, ZenonT(30)
                  DEF ActPolicy, ActCeiling, SMMPolicy, Labels
    <3>20. CASE ActStore(c)
      <4>1. CASE Return(c, "ok", 0, loc[c].gaveUp)
        <5>1. FramesOK'
          BY <4>1, ReturnType, ZeroInt, Zenon DEF Replies
        <5> QED  BY <3>0, <3>20, <5>1, Zenon DEF ActStore, Locals, FramesOK
      <4>2. CASE Goto(c, "smmPolicy") /\ UNCHANGED loc
        BY <3>0, <3>20, <4>2, Zenon DEF ActStore, Locals, Labels
      <4> QED  BY <3>20, <4>1, <4>2, Zenon DEF ActStore
    <3> QED
      BY <2>2, <3>1, <3>2, <3>3, <3>4, <3>5, <3>6, <3>7, <3>8, <3>9, <3>10,
         <3>11, <3>12, <3>13, <3>14, <3>15, <3>16, <3>17, <3>18, <3>19, <3>20,
         <3>21, Zenon DEF Step
  <2>3. CASE Tick
    BY <2>3 DEF Tick, TypeOK, tuning
  <2>4. CASE UNCHANGED vars
    BY <2>4, Zenon DEF vars, TypeOK, tuning
  <2> QED  BY <2>1, <2>2, <2>3, <2>4, Zenon DEF Next, Finished
<1> QED  BY <1>1, <1>2, PTL DEF Spec

-----------------------------------------------------------------------------
(* The byte accounting. *)

\* The three sums are sums of natural numbers.
LEMMA SumTypes ==
  ASSUME TypeOK
  PROVE  /\ storedCost \in [Keys -> Nat] /\ Total(storedCost) \in Nat
         /\ credit \in [Clients -> Nat] /\ Total(credit) \in Nat
         /\ debit \in [Clients -> Nat] /\ Total(debit) \in Nat
<1>1. storedCost \in [Keys -> Nat]
  BY CostType, Zenon DEF storedCost, TypeOK
<1>2. ASSUME NEW c \in Clients PROVE newCost(c) \in Nat /\ loc[c].old \in Nat
  BY CostType, Zenon DEF newCost, TypeOK, Locals, Entry
<1>3. credit \in [Clients -> Nat]
  BY <1>2, Zenon DEF credit
<1>4. debit \in [Clients -> Nat]
  BY <1>2, Zenon DEF debit
<1> QED  BY <1>1, <1>3, <1>4, TotalType, EngineAssumption, Zenon

\* A step of c leaves the program counters and locals of the others alone.
LEMMA OthersKept ==
  ASSUME TypeOK, NEW c \in Clients, Start(c) \/ Step(c)
  PROVE  \A d \in Clients \ {c} : pc'[d] = pc[d] /\ loc'[d] = loc[d]
<1> USE DEF TypeOK, Goto, Return
<1>1. CASE Start(c)
  BY <1>1, ZenonT(30)
     DEF Start, SetBegin, DelDelete, GetLookup, TTLLookup, Lookup,
         SetMaxMemory, SetEvictionPolicy
<1>2. CASE Step(c)
  <2>1. CASE \/ SetPolicy(c) \/ SetGuard(c) \/ SetAdmit(c) \/ SetSwap(c)
             \/ SetAccount(c) \/ DelAccount(c) \/ DelExpired(c)
    BY <2>1, Zenon
       DEF SetPolicy, SetGuard, SetAdmit, SetSwap, SetAccount, DelAccount,
           DelExpired
  <2>2. CASE \/ PassCheck(c) \/ EvictLoad(c) \/ EvictSample(c)
             \/ EvictDelete(c) \/ EvictAccount(c)
    BY <2>2, ZenonT(30)
       DEF PassCheck, EvictLoad, EvictSample, EvictDelete, EvictAccount
  <2>3. CASE GetExpired(c) \/ GetRecord(c) \/ TTLExpired(c) \/ TTLRemaining(c)
    BY <2>3, Zenon DEF GetExpired, GetRecord, TTLExpired, TTLRemaining
  <2>4. CASE \/ SMMConfig(c) \/ SMMSwap(c) \/ SMMSketch(c)
             \/ SMMDoorkeeper(c) \/ ActPolicy(c) \/ ActCeiling(c)
             \/ ActStore(c) \/ SMMPolicy(c)
    BY <2>4, ZenonT(30)
       DEF SMMConfig, SMMSwap, SMMSketch, SMMDoorkeeper, ActPolicy, ActCeiling,
           ActStore, SMMPolicy
  <2> QED  BY <1>2, <2>1, <2>2, <2>3, <2>4, Zenon DEF Step
<1> QED  BY <1>1, <1>2, Zenon

\* What c owes is the only thing a step of c changes in what is owed.
LEMMA OwedStep ==
  ASSUME TypeOK, TypeOK', NEW c \in Clients, Start(c) \/ Step(c)
  PROVE  /\ Total(credit') = Total(credit) - credit[c] + credit'[c]
         /\ Total(debit') = Total(debit) - debit[c] + debit'[c]
<1>1. \A d \in Clients \ {c} : pc'[d] = pc[d] /\ loc'[d] = loc[d]
  BY OthersKept, Zenon
<1>2. credit \in [Clients -> Nat] /\ debit \in [Clients -> Nat]
  BY SumTypes, Zenon
<1>3. credit' \in [Clients -> Nat] /\ debit' \in [Clients -> Nat]
  <2>1. ASSUME NEW d \in Clients PROVE newCost(d)' \in Nat /\ loc'[d].old \in Nat
    BY CostType, Zenon DEF newCost, TypeOK, Locals, Entry
  <2> QED  BY <2>1, Zenon DEF credit, debit
<1>4. \A d \in Clients \ {c} : credit'[d] = credit[d] /\ debit'[d] = debit[d]
  BY <1>1, Zenon DEF credit, debit, newCost
<1>5. /\ credit' = [credit EXCEPT ![c] = credit'[c]]
      /\ debit' = [debit EXCEPT ![c] = debit'[c]]
  BY <1>2, <1>3, <1>4, Zenon
<1>6. credit'[c] \in Nat /\ debit'[c] \in Nat
  BY <1>3, Zenon
<1>7. /\ Total([credit EXCEPT ![c] = credit'[c]])
           = Total(credit) - credit[c] + credit'[c]
      /\ Total([debit EXCEPT ![c] = debit'[c]])
           = Total(debit) - debit[c] + debit'[c]
  <2>1. IsFiniteSet(Clients)
    BY EngineAssumption, Zenon
  <2> QED  BY <1>2, <1>6, <2>1, TotalUpdate, ZenonT(30)
<1> QED  BY <1>5, <1>7, Zenon

\* Writing one key changes the stored bytes by the difference in its cost.
LEMMA StoreStep ==
  ASSUME TypeOK, NEW k \in Keys, NEW e \in Entry \cup {Absent},
         store' = [store EXCEPT ![k] = e]
  PROVE  Total(storedCost')
           = Total(storedCost) - entryCost(k, store[k]) + entryCost(k, e)
<1>1. storedCost \in [Keys -> Nat] /\ entryCost(k, e) \in Nat
  BY SumTypes, CostType, Zenon
<1>2. storedCost' = [storedCost EXCEPT ![k] = entryCost(k, e)]
  BY Zenon DEF storedCost, TypeOK, entryCost
<1>3. storedCost[k] = entryCost(k, store[k])
  BY Zenon DEF storedCost
<1>4. IsFiniteSet(Keys)
  BY EngineAssumption, Zenon
<1>5. Total([storedCost EXCEPT ![k] = entryCost(k, e)])
        = Total(storedCost) - storedCost[k] + entryCost(k, e)
  BY <1>1, <1>4, TotalUpdate, Zenon
<1> QED  BY <1>2, <1>3, <1>5, Zenon

Owing == {"setAccount", "delAccount", "evictAccount"}

\* A step that touches neither the map nor the counter, of a goroutine that
\* owes nothing before or after it, keeps the books.
LEMMA QuietStep ==
  ASSUME TypeOK, TypeOK', Accounting, NEW c \in Clients, Start(c) \/ Step(c),
         UNCHANGED <<store, usage>>, pc[c] \notin Owing, pc'[c] \notin Owing
  PROVE  Accounting'
<1>1. /\ Total(credit') = Total(credit) - credit[c] + credit'[c]
      /\ Total(debit') = Total(debit) - debit[c] + debit'[c]
  BY OwedStep, Zenon
<1>2. credit[c] = 0 /\ credit'[c] = 0 /\ debit[c] = 0 /\ debit'[c] = 0
  BY Zenon DEF Owing, credit, debit
<1>3. storedCost' = storedCost
  BY Zenon DEF storedCost, entryCost
<1>4. Total(credit) \in Nat /\ Total(debit) \in Nat
  BY SumTypes, Zenon
<1>5. Total(credit') = Total(credit) /\ Total(debit') = Total(debit)
  BY <1>1, <1>2, <1>4
<1>6. Total(storedCost') = Total(storedCost)
  BY <1>3, Zenon
<1> QED  BY <1>5, <1>6, Zenon DEF Accounting

\* Every step keeps the books.
LEMMA AccountingStep ==
  ASSUME TypeOK, TypeOK', Accounting, [Next]_vars
  PROVE  Accounting'
<1>1. ASSUME NEW c \in Clients, Start(c) \/ Step(c) PROVE Accounting'
  <2>0. /\ Total(credit') = Total(credit) - credit[c] + credit'[c]
        /\ Total(debit') = Total(debit) - debit[c] + debit'[c]
    BY <1>1, OwedStep, Zenon
  <2>1. /\ usage + Total(credit) = Total(storedCost) + Total(debit)
        /\ usage \in Int /\ Total(credit) \in Nat /\ Total(debit) \in Nat
        /\ Total(storedCost) \in Nat
    BY SumTypes, Zenon DEF Accounting, TypeOK
  <2>2. /\ loc[c] \in Locals /\ loc[c].key \in Keys /\ loc[c].victim \in Keys
        /\ loc[c].entry \in Entry /\ loc[c].old \in Nat
        /\ pc \in [Clients -> Labels] /\ loc \in [Clients -> Locals]
    BY Zenon DEF TypeOK, Locals
  <2>3. newCost(c) \in Nat
    BY <2>2, CostType, Zenon DEF newCost, Entry
  <2>4. Accounting' <=> usage' + Total(credit') = Total(storedCost') + Total(debit')
    BY Zenon DEF Accounting
  <2>5. CASE SetSwap(c)
    <3> DEFINE old == entryCost(loc[c].key, store[loc[c].key])
    <3>1. /\ credit[c] = 0 /\ debit[c] = 0
          /\ credit'[c] = newCost(c) /\ debit'[c] = old
      BY <2>2, <2>5, Zenon DEF SetSwap, Goto, credit, debit, newCost, Locals
    <3>2. old \in Nat
      BY <2>2, CostType, Zenon DEF TypeOK
    <3>3. entryCost(loc[c].key, loc[c].entry) = newCost(c)
      BY <2>2, AbsentAssumption, Zenon DEF entryCost, newCost
    <3>4. Total(storedCost') = Total(storedCost) - old + newCost(c)
      BY <2>2, <2>5, <3>3, StoreStep, Zenon DEF SetSwap
    <3>5. usage' = usage
      BY <2>5, Zenon DEF SetSwap
    <3> HIDE DEF old
    <3> QED  BY <2>0, <2>1, <2>3, <2>4, <3>1, <3>2, <3>4, <3>5, SMTT(30)
  <2>6. CASE SetAccount(c)
    <3>1. /\ credit[c] = newCost(c) /\ debit[c] = loc[c].old
          /\ credit'[c] = 0 /\ debit'[c] = 0
          /\ usage' = usage + (newCost(c) - loc[c].old)
      BY <2>2, <2>6, Zenon DEF SetAccount, Goto, credit, debit
    <3>2. storedCost' = storedCost
      BY <2>6, Zenon DEF SetAccount, storedCost, entryCost
    <3> QED  BY <2>0, <2>1, <2>2, <2>3, <2>4, <3>1, <3>2
  <2>7. ASSUME NEW k \in Keys, DelDelete(c, k), store[k] # Absent
        PROVE  Accounting'
    <3>1. /\ credit[c] = 0 /\ debit[c] = 0
          /\ credit'[c] = 0 /\ debit'[c] = entryCost(k, store[k])
      <4>1. /\ pc[c] = "idle" /\ pc'[c] = "delAccount"
            /\ loc'[c].old = entryCost(k, store[k])
        <5> DEFINE f == [Fresh(c) EXCEPT !.key = k, !.entry = store[k],
                                         !.old = entryCost(k, store[k])]
        <5>1. f.old = entryCost(k, store[k])
          BY FreshType, Zenon DEF Locals
        <5>2. /\ loc' = [loc EXCEPT ![c] = f] /\ pc[c] = "idle"
              /\ pc' = [pc EXCEPT ![c] = "delAccount"]
          BY <2>7, Zenon DEF DelDelete, Call, Goto
        <5> HIDE DEF f
        <5> QED  BY <2>2, <5>1, <5>2, Zenon
      <4> QED  BY <4>1, Zenon DEF credit, debit
    <3>2. /\ usage' = usage
          /\ store' = [store EXCEPT ![k] = Absent]
      BY <2>7, Zenon DEF DelDelete
    <3>3. entryCost(k, Absent) = 0 /\ entryCost(k, store[k]) \in Nat
      BY CostType, Zenon DEF entryCost, TypeOK
    <3>4. Total(storedCost') = Total(storedCost) - entryCost(k, store[k]) + 0
      BY <3>2, <3>3, StoreStep, Zenon
    <3> QED  BY <2>0, <2>1, <2>4, <3>1, <3>2, <3>3, <3>4, SMTT(30)
  <2>8. CASE EvictDelete(c) /\ store[loc[c].victim] # Absent
    <3> DEFINE v == loc[c].victim
    <3>1. /\ credit[c] = 0 /\ debit[c] = 0
          /\ credit'[c] = 0 /\ debit'[c] = entryCost(v, store[v])
      <4>1. /\ pc[c] = "evictDelete" /\ pc'[c] = "evictAccount"
            /\ loc'[c].old = entryCost(v, store[v])
        BY <2>2, <2>8 DEF EvictDelete, Goto, Locals
      <4> QED  BY <4>1, Zenon DEF credit, debit
    <3>2. /\ usage' = usage
          /\ store' = [store EXCEPT ![v] = Absent]
      BY <2>8, Zenon DEF EvictDelete
    <3>3. entryCost(v, Absent) = 0 /\ entryCost(v, store[v]) \in Nat
      BY <2>2, CostType, Zenon DEF entryCost, TypeOK
    <3>4. Total(storedCost') = Total(storedCost) - entryCost(v, store[v]) + 0
      BY <2>2, <3>2, <3>3, StoreStep, Zenon
    <3> QED  BY <2>0, <2>1, <2>4, <3>1, <3>2, <3>3, <3>4
  <2>9. CASE DelAccount(c) \/ EvictAccount(c)
    <3>1. /\ credit[c] = 0 /\ debit[c] = loc[c].old
          /\ credit'[c] = 0 /\ debit'[c] = 0
          /\ usage' = usage - loc[c].old
      BY <2>2, <2>9, Zenon DEF DelAccount, EvictAccount, Goto, credit, debit
    <3>2. storedCost' = storedCost
      BY <2>9, Zenon DEF DelAccount, EvictAccount, storedCost, entryCost
    <3> QED  BY <2>0, <2>1, <2>2, <2>4, <3>1, <3>2
  <2>10. ASSUME UNCHANGED <<store, usage>>, pc[c] \notin Owing,
                pc'[c] \notin Owing
         PROVE  Accounting'
    BY <1>1, <2>10, QuietStep, Zenon
  <2>11. CASE Start(c)
    <3>1. ASSUME NEW k \in Keys, DelDelete(c, k), store[k] = Absent
          PROVE  Accounting'
      BY <2>2, <2>10, <3>1, Zenon DEF DelDelete, Call, Return, Goto, Owing
    <3>2. ASSUME NEW k \in Keys, GetLookup(c, k) \/ TTLLookup(c, k)
          PROVE  Accounting'
      BY <2>2, <2>10, <3>2, Zenon
         DEF GetLookup, TTLLookup, Lookup, Call, Return, Goto, Owing
    <3>3. ASSUME \/ \E k \in Keys, size \in Sizes, ttl \in TTLs :
                      SetBegin(c, k, size, ttl)
                 \/ \E bytes \in Ceilings : SetMaxMemory(c, bytes)
                 \/ \E p \in Policies : SetEvictionPolicy(c, p)
          PROVE  Accounting'
      BY <2>2, <2>10, <3>3, ZenonT(30)
         DEF SetBegin, SetMaxMemory, SetEvictionPolicy, Call, Goto, Owing
    <3> QED  BY <2>7, <2>11, <3>1, <3>2, <3>3, Zenon DEF Start
  <2>12. CASE \/ SetPolicy(c) \/ SetGuard(c) \/ SetAdmit(c) \/ PassCheck(c)
              \/ EvictLoad(c) \/ EvictSample(c)
    BY <2>2, <2>10, <2>12, Zenon
       DEF SetPolicy, SetGuard, SetAdmit, PassCheck, EvictLoad, EvictSample,
           Return, Goto, Owing
  <2>13. CASE EvictDelete(c) /\ store[loc[c].victim] = Absent
    BY <2>2, <2>10, <2>13, Zenon DEF EvictDelete, Goto, Owing
  <2>14. CASE \/ DelExpired(c) \/ GetExpired(c) \/ GetRecord(c)
              \/ TTLExpired(c) \/ TTLRemaining(c)
    BY <2>2, <2>10, <2>14, Zenon
       DEF DelExpired, GetExpired, GetRecord, TTLExpired, TTLRemaining, Return,
           Goto, Owing
  <2>15. CASE \/ SMMConfig(c) \/ SMMSwap(c) \/ SMMSketch(c)
              \/ SMMDoorkeeper(c) \/ ActPolicy(c) \/ ActCeiling(c)
              \/ ActStore(c) \/ SMMPolicy(c)
    BY <2>2, <2>10, <2>15, Zenon
       DEF SMMConfig, SMMSwap, SMMSketch, SMMDoorkeeper, ActPolicy, ActCeiling,
           ActStore, SMMPolicy, Return, Goto, Owing
  <2> QED  BY <1>1, <2>5, <2>6, <2>8, <2>9, <2>11, <2>12, <2>13, <2>14, <2>15,
              Zenon DEF Step
<1>2. CASE Tick \/ UNCHANGED vars
  <2>1. UNCHANGED <<store, usage, pc, loc>>
    BY <1>2, Zenon DEF Tick, vars
  <2> QED  BY <2>1, Zenon
              DEF Accounting, credit, debit, newCost, storedCost, entryCost
<1> QED  BY <1>1, <1>2, Zenon DEF Next, Finished

\* The byte counter never drifts: in every state, whatever the goroutines are
\* in the middle of, usage and what Set, Del and the pass still owe it add up
\* to the cost of the stored entries.
THEOREM AccountingHolds == Spec => []Accounting
<1>1. Init => Accounting
  <2> SUFFICES ASSUME Init PROVE Accounting
    BY Zenon
  <2>1. TypeOK
    BY NoLocalsType, PolicyConfigType, EngineAssumption
       DEF Init, TypeOK, Policies, Labels
  <2>2. /\ storedCost \in [Keys -> Nat] /\ credit \in [Clients -> Nat]
        /\ debit \in [Clients -> Nat]
    BY <2>1, SumTypes, Zenon
  <2>3. /\ \A k \in Keys : storedCost[k] = 0
        /\ \A c \in Clients : credit[c] = 0 /\ debit[c] = 0
    BY Zenon DEF Init, storedCost, entryCost, credit, debit
  <2>4. Total(storedCost) = 0 /\ Total(credit) = 0 /\ Total(debit) = 0
    BY <2>2, <2>3, TotalZero, Zenon
  <2>5. usage = 0
    BY Zenon DEF Init
  <2> QED  BY <2>4, <2>5, Zenon DEF Accounting
<1>2. TypeOK /\ TypeOK' /\ Accounting /\ [Next]_vars => Accounting'
  BY AccountingStep, Zenon
<1> QED  BY <1>1, <1>2, TypeCorrect, PTL DEF Spec

\* Once every call has returned, usage is exactly the cost of what is stored:
\* the concurrency tests' comparison with recomputeUsage, for any number of
\* goroutines.
THEOREM QuiescentExactHolds == Spec => []QuiescentExact
<1>1. TypeOK /\ Accounting => QuiescentExact
  <2> SUFFICES ASSUME TypeOK, Accounting, Idle PROVE usage = Total(storedCost)
    BY Zenon DEF QuiescentExact
  <2>1. credit \in [Clients -> Nat] /\ debit \in [Clients -> Nat]
    BY SumTypes, Zenon
  <2>2. \A c \in Clients : credit[c] = 0 /\ debit[c] = 0
    BY Zenon DEF Idle, credit, debit
  <2>3. Total(credit) = 0 /\ Total(debit) = 0
    BY <2>1, <2>2, TotalZero, Zenon
  <2>4. Total(storedCost) \in Nat /\ usage \in Int
    BY SumTypes, Zenon DEF TypeOK
  <2> QED  BY <2>3, <2>4 DEF Accounting
<1> QED  BY <1>1, TypeCorrect, AccountingHolds, PTL

-----------------------------------------------------------------------------
(* The eviction pass. *)

\* The victim a pass is about to delete is not the newcomer it excludes.
VictimNotNewcomer ==
  \A c \in Clients :
    pc[c] = "evictDelete" /\ loc[c].hasExclude => loc[c].victim # loc[c].key

\* Every step keeps VictimNotNewcomer: a pass excludes its newcomer from the
\* candidates when it samples, and keeps both until it deletes.
LEMMA VictimStep ==
  ASSUME TypeOK, TypeOK', VictimNotNewcomer, [Next]_vars
  PROVE  VictimNotNewcomer'
<1>1. ASSUME NEW c \in Clients, Start(c) \/ Step(c) PROVE VictimNotNewcomer'
  <2>1. \A d \in Clients \ {c} : pc'[d] = pc[d] /\ loc'[d] = loc[d]
    BY <1>1, OthersKept, Zenon
  <2>2. CASE EvictSample(c)
    <3>1. ASSUME NEW S \in Sample, NEW v \in Candidates(c, S),
                 loc' = [loc EXCEPT ![c].victim = v]
          PROVE  loc'[c].hasExclude => loc'[c].victim # loc'[c].key
      BY <3>1 DEF TypeOK, Locals, Candidates
    <3>2. \/ pc'[c] # "evictDelete"
          \/ \E S \in Sample : \E v \in Candidates(c, S) :
               loc' = [loc EXCEPT ![c].victim = v]
      BY <2>2, ZenonT(30) DEF EvictSample, Return, Goto, TypeOK
    <3> QED  BY <2>1, <3>1, <3>2, ZenonT(30) DEF VictimNotNewcomer
  <2>3. CASE ~EvictSample(c)
    <3>1. pc'[c] # "evictDelete"
      BY <1>1, <2>3, ZenonT(30)
         DEF Start, Step, SetBegin, DelDelete, GetLookup, TTLLookup, Lookup,
             SetMaxMemory, SetEvictionPolicy, SetPolicy, SetGuard, SetAdmit,
             SetSwap, SetAccount, PassCheck, EvictLoad, EvictDelete,
             EvictAccount, DelAccount, DelExpired, GetExpired, GetRecord,
             TTLExpired, TTLRemaining, SMMConfig, SMMSwap, SMMSketch,
             SMMDoorkeeper, ActPolicy, ActCeiling, ActStore, SMMPolicy, Return,
             Goto, TypeOK
    <3> QED  BY <2>1, <3>1, Zenon DEF VictimNotNewcomer
  <2> QED  BY <2>2, <2>3, Zenon
<1>2. CASE Tick \/ UNCHANGED vars
  BY <1>2, Zenon DEF Tick, vars, VictimNotNewcomer
<1> QED  BY <1>1, <1>2, Zenon DEF Next, Finished

\* How an entry leaves the map.
Leaves(k) ==
  store[k] # Absent /\ store'[k] = Absent =>
    \E c \in Clients :
      \/ pc[c] = "idle" /\ pc'[c] = "delAccount" /\ loc'[c].key = k
      \/ /\ pc[c] = "evictDelete" /\ pc'[c] = "evictAccount"
         /\ loc[c].victim = k
         /\ ~(loc[c].hasExclude /\ loc[c].key = k)

\* An entry leaves the map only by Del or as the victim of a pass, which spares
\* its newcomer.
LEMMA LeavesStep ==
  ASSUME TypeOK, VictimNotNewcomer, [Next]_vars, NEW k \in Keys
  PROVE  Leaves(k)
<1> SUFFICES ASSUME store[k] # Absent, store'[k] = Absent
             PROVE  \E c \in Clients :
                      \/ pc[c] = "idle" /\ pc'[c] = "delAccount" /\ loc'[c].key = k
                      \/ /\ pc[c] = "evictDelete" /\ pc'[c] = "evictAccount"
                         /\ loc[c].victim = k
                         /\ ~(loc[c].hasExclude /\ loc[c].key = k)
  BY Zenon DEF Leaves
<1>1. store' # store
  BY Zenon
<1>2. PICK c \in Clients : Start(c) \/ Step(c)
  BY <1>1, Zenon DEF Next, Tick, Finished, vars
<1>3. \/ \E j \in Keys : DelDelete(c, j) /\ store[j] # Absent
      \/ SetSwap(c)
      \/ EvictDelete(c)
  BY <1>1, <1>2, Zenon
     DEF Start, Step, SetBegin, DelDelete, GetLookup, TTLLookup, SetMaxMemory,
         SetEvictionPolicy, SetPolicy, SetGuard, SetAdmit, SetAccount,
         PassCheck, EvictLoad, EvictSample, EvictAccount, DelAccount,
         DelExpired, GetExpired, GetRecord, TTLExpired, TTLRemaining,
         SMMConfig, SMMSwap, SMMSketch, SMMDoorkeeper, ActPolicy, ActCeiling,
         ActStore, SMMPolicy
<1>4. ASSUME NEW j \in Keys, DelDelete(c, j), store[j] # Absent
      PROVE  pc[c] = "idle" /\ pc'[c] = "delAccount" /\ loc'[c].key = k
  <2> DEFINE f == [Fresh(c) EXCEPT !.key = j, !.entry = store[j],
                                   !.old = entryCost(j, store[j])]
  <2>1. f.key = j
    BY FreshType, Zenon DEF Locals
  <2>2. /\ loc' = [loc EXCEPT ![c] = f] /\ pc[c] = "idle"
        /\ pc' = [pc EXCEPT ![c] = "delAccount"]
        /\ store' = [store EXCEPT ![j] = Absent]
    BY <1>4, Zenon DEF DelDelete, Call, Goto
  <2>3. j = k
    BY <2>2, Zenon DEF TypeOK
  <2> HIDE DEF f
  <2> QED  BY <2>1, <2>2, <2>3, Zenon DEF TypeOK
<1>5. ~SetSwap(c)
  <2> SUFFICES ASSUME SetSwap(c) PROVE FALSE
    BY Zenon
  <2>1. loc[c].entry \in Entry /\ loc[c].key \in Keys
    BY Zenon DEF TypeOK, Locals
  <2>2. store' = [store EXCEPT ![loc[c].key] = loc[c].entry]
    BY Zenon DEF SetSwap
  <2> QED  BY <2>1, <2>2, AbsentAssumption, Zenon DEF TypeOK
<1>6. ASSUME EvictDelete(c)
      PROVE  /\ pc[c] = "evictDelete" /\ pc'[c] = "evictAccount"
             /\ loc[c].victim = k
             /\ ~(loc[c].hasExclude /\ loc[c].key = k)
  <2>1. /\ pc[c] = "evictDelete"
        /\ pc' = [pc EXCEPT ![c] = "evictAccount"]
        /\ store' = [store EXCEPT ![loc[c].victim] = Absent]
    BY <1>1, <1>6, Zenon DEF EvictDelete, Goto
  <2>2. loc[c].victim = k
    BY <2>1, Zenon DEF TypeOK
  <2> QED  BY <2>1, <2>2, Zenon DEF VictimNotNewcomer, TypeOK
<1> QED  BY <1>3, <1>4, <1>5, <1>6, Zenon

\* C-INV-1: an entry leaves the map only by a Del of its own key, or as the
\* victim of a pass for which it is not the newcomer.
THEOREM NewcomerKeptHolds == Spec => NewcomerKept
<1>1. Init => VictimNotNewcomer
  BY Zenon DEF Init, VictimNotNewcomer
<1>2. TypeOK /\ TypeOK' /\ VictimNotNewcomer /\ [Next]_vars => VictimNotNewcomer'
  BY VictimStep, Zenon
<1>3. TypeOK /\ VictimNotNewcomer /\ [Next]_vars
        => [\A k \in Keys : Leaves(k)]_vars
  BY LeavesStep, Zenon
<1>4. Spec => [][\A k \in Keys : Leaves(k)]_vars
  BY <1>1, <1>2, <1>3, TypeCorrect, PTL DEF Spec
<1> QED  BY <1>4, Zenon DEF NewcomerKept, Leaves

\* While nobody tunes the engine, what a Set or its pass believes of the
\* ceiling and the policy is true.
TuningLabels == {"smmConfig", "smmSwap", "smmSketch", "smmDoorkeeper",
                 "actPolicy", "actCeiling", "actStore", "smmPolicy"}

SetLabels == {"setGuard", "setAdmit", "setSwap", "setAccount", "passCheck",
              "evictLoad", "evictSample", "evictDelete", "evictAccount"}

Untuned == Ops \cap TuningOps = {}

BeliefsTrue ==
  \A c \in Clients :
    /\ pc[c] \notin TuningLabels
    /\ pc[c] = "setPolicy" => loc[c].ceiling = maxmemory
    /\ pc[c] \in SetLabels =>
         loc[c].ceiling = maxmemory /\ loc[c].pol = evictPol

\* What a step of c does to the ceiling, the policy and c's locals, when
\* nobody tunes the engine.
LEMMA UntunedStep ==
  ASSUME TypeOK, Untuned, BeliefsTrue, NEW c \in Clients, Start(c) \/ Step(c)
  PROVE  /\ UNCHANGED <<maxmemory, evictPol>>
         /\ pc'[c] \notin TuningLabels
         /\ pc'[c] = "setPolicy" => loc'[c].ceiling = maxmemory
         /\ pc'[c] \in SetLabels =>
              loc'[c].ceiling = maxmemory /\ loc'[c].pol = evictPol
<1>0. /\ loc[c] \in Locals /\ loc \in [Clients -> Locals]
      /\ pc \in [Clients -> Labels] /\ Fresh(c) \in Locals
      /\ pc[c] \notin TuningLabels
      /\ pc[c] = "setPolicy" => loc[c].ceiling = maxmemory
      /\ pc[c] \in SetLabels =>
           loc[c].ceiling = maxmemory /\ loc[c].pol = evictPol
  BY FreshType, Zenon DEF TypeOK, BeliefsTrue
<1>1. CASE Start(c)
  <2>1. ASSUME NEW k \in Keys, NEW size \in Sizes, NEW ttl \in TTLs,
               SetBegin(c, k, size, ttl)
        PROVE  /\ pc'[c] = "setPolicy" /\ loc'[c].ceiling = maxmemory
               /\ UNCHANGED <<maxmemory, evictPol>>
    <3>1. \A e : [Fresh(c) EXCEPT !.key = k, !.entry = e,
                                  !.ceiling = maxmemory,
                                  !.hasExclude = TRUE].ceiling = maxmemory
      BY <1>0, Zenon DEF Locals
    <3>2. loc'[c].ceiling = maxmemory
      BY <1>0, <2>1, <3>1, Zenon DEF SetBegin
    <3> QED  BY <1>0, <2>1, <3>2, Zenon DEF SetBegin, Goto, tuning
  <2>2. ASSUME NEW k \in Keys,
               DelDelete(c, k) \/ GetLookup(c, k) \/ TTLLookup(c, k)
        PROVE  /\ pc'[c] \in {"idle", "delAccount", "getExpired", "ttlExpired"}
               /\ UNCHANGED <<maxmemory, evictPol>>
    BY <1>0, <2>2, Zenon
       DEF DelDelete, GetLookup, TTLLookup, Lookup, Return, Goto, tuning
  <2>3. ~(\E bytes \in Ceilings : SetMaxMemory(c, bytes))
    BY Zenon DEF SetMaxMemory, Call, Untuned, TuningOps
  <2>4. ~(\E p \in Policies : SetEvictionPolicy(c, p))
    BY Zenon DEF SetEvictionPolicy, Call, Untuned, TuningOps
  <2> QED  BY <1>1, <2>1, <2>2, <2>3, <2>4, Zenon
              DEF Start, SetLabels, TuningLabels
<1>2. CASE Step(c)
  <2>1. CASE SetPolicy(c)
    BY <1>0, <2>1, Zenon
       DEF SetPolicy, Goto, tuning, Locals, SetLabels, TuningLabels
  <2>2. CASE SetGuard(c) \/ SetAdmit(c) \/ SetSwap(c) \/ SetAccount(c)
    BY <1>0, <2>2, SMTT(30)
       DEF SetGuard, SetAdmit, SetSwap, SetAccount, Return, Goto, tuning,
           Locals, SetLabels, TuningLabels
  <2>3. CASE \/ PassCheck(c) \/ EvictLoad(c) \/ EvictSample(c)
             \/ EvictDelete(c) \/ EvictAccount(c)
    BY <1>0, <2>3, SMTT(30)
       DEF PassCheck, EvictLoad, EvictSample, EvictDelete, EvictAccount,
           Return, Goto, tuning, Locals, SetLabels, TuningLabels
  <2>4. CASE \/ DelAccount(c) \/ DelExpired(c) \/ GetExpired(c)
             \/ GetRecord(c) \/ TTLExpired(c) \/ TTLRemaining(c)
    BY <1>0, <2>4, ZenonT(30)
       DEF DelAccount, DelExpired, GetExpired, GetRecord, TTLExpired,
           TTLRemaining, Return, Goto, tuning, SetLabels, TuningLabels
  <2>5. ~(\/ SMMConfig(c) \/ SMMSwap(c) \/ SMMSketch(c) \/ SMMDoorkeeper(c)
          \/ ActPolicy(c) \/ ActCeiling(c) \/ ActStore(c) \/ SMMPolicy(c))
    BY <1>0, Zenon
       DEF SMMConfig, SMMSwap, SMMSketch, SMMDoorkeeper, ActPolicy, ActCeiling,
           ActStore, SMMPolicy, TuningLabels
  <2> QED  BY <1>2, <2>1, <2>2, <2>3, <2>4, <2>5, Zenon DEF Step
<1> QED  BY <1>1, <1>2, Zenon

\* A call that returns its gaveUp as it found it.
LEMMA ReturnKeepsGaveUp ==
  ASSUME TypeOK, NEW c \in Clients, NEW r, NEW n, Return(c, r, n, loc[c].gaveUp)
  PROVE  loc'[c].gaveUp = loc[c].gaveUp
<1> DEFINE f == [NoLocals EXCEPT !.reply = r, !.remaining = n,
                                 !.gaveUp = loc[c].gaveUp]
<1>1. f.gaveUp = loc[c].gaveUp
  BY NoLocalsType, Zenon DEF Locals
<1>2. loc'[c] = f
  BY Zenon DEF TypeOK, Return
<1> QED  BY <1>1, <1>2, Zenon

\* A step of c keeps what is said of c, unless it shows usage to be within
\* the ceiling.
LEMMA PassKept ==
  ASSUME TypeOK, TypeOK', Untuned, BeliefsTrue, NEW c \in Clients,
         Start(c) \/ Step(c), maxmemory > 0, evictPol # "noeviction",
         usage' > maxmemory
  PROVE  \/ InPass(c)' \/ loc'[c].gaveUp
         \/ usage' <= usage /\ ~InPass(c) /\ ~loc[c].gaveUp
<1>0. /\ loc[c] \in Locals /\ loc \in [Clients -> Locals]
      /\ pc \in [Clients -> Labels] /\ Fresh(c) \in Locals
      /\ loc[c].old \in Nat /\ usage \in Int /\ maxmemory \in Nat
      /\ pc[c] \notin TuningLabels
      /\ pc[c] \in SetLabels =>
           loc[c].ceiling = maxmemory /\ loc[c].pol = evictPol
  BY FreshType, Zenon DEF TypeOK, BeliefsTrue, Locals
<1> USE DEF InPass, Goto
<1>1. CASE Start(c)
  <2>1. usage' = usage /\ pc[c] = "idle"
    BY <1>1, Zenon
       DEF Start, SetBegin, DelDelete, GetLookup, TTLLookup, SetMaxMemory,
           SetEvictionPolicy, Call
  <2>2. loc'[c].gaveUp = loc[c].gaveUp
    <3>1. Fresh(c).gaveUp = loc[c].gaveUp
      BY NoLocalsType, Zenon DEF Fresh, Locals
    <3>2. CASE \E k \in Keys, size \in Sizes, ttl \in TTLs :
                 SetBegin(c, k, size, ttl)
      BY <1>0, <3>1, <3>2, SMTT(30) DEF SetBegin, Locals
    <3>3. CASE \E k \in Keys :
                 DelDelete(c, k) \/ GetLookup(c, k) \/ TTLLookup(c, k)
      <4>1. PICK k \in Keys :
              DelDelete(c, k) \/ GetLookup(c, k) \/ TTLLookup(c, k)
        BY <3>3, Zenon
      <4>2. \/ \E r : Return(c, r, 0, loc[c].gaveUp)
            \/ loc' = [loc EXCEPT ![c] =
                 [Fresh(c) EXCEPT !.key = k, !.entry = store[k],
                                  !.old = entryCost(k, store[k])]]
            \/ loc' = [loc EXCEPT ![c] =
                 [Fresh(c) EXCEPT !.key = k, !.entry = store[k]]]
        BY <4>1, Zenon DEF DelDelete, GetLookup, TTLLookup, Lookup
      <4>3. CASE \E r : Return(c, r, 0, loc[c].gaveUp)
        BY <4>3, ReturnKeepsGaveUp, Zenon
      <4>4. CASE ~(\E r : Return(c, r, 0, loc[c].gaveUp))
        BY <1>0, <3>1, <4>2, <4>4, ZenonT(30) DEF Locals
      <4> QED  BY <4>3, <4>4, Zenon
    <3>4. CASE \/ \E bytes \in Ceilings : SetMaxMemory(c, bytes)
               \/ \E p \in Policies : SetEvictionPolicy(c, p)
      BY <1>0, <3>1, <3>4 DEF SetMaxMemory, SetEvictionPolicy, Locals
    <3> QED  BY <1>1, <3>2, <3>3, <3>4, Zenon DEF Start
  <2>3. usage' <= usage
    BY <1>0, <2>1
  <2>4. ~InPass(c)
    BY <2>1, Zenon
  <2> QED  BY <2>2, <2>3, <2>4, Zenon
<1>2. CASE SetAccount(c)
  BY <1>0, <1>2, Zenon DEF SetAccount
<1>3. CASE PassCheck(c) \/ EvictLoad(c)
  <2>1. usage' = usage /\ loc[c].ceiling = maxmemory /\ loc[c].pol = evictPol
    BY <1>0, <1>3, Zenon DEF PassCheck, EvictLoad, SetLabels
  <2>2. usage > loc[c].ceiling
    BY <2>1, Zenon
  <2>3. pc' = [pc EXCEPT ![c] = "evictLoad"] \/ pc' = [pc EXCEPT ![c] = "evictSample"]
    <3>1. CASE PassCheck(c)
      <4>1. /\ loc[c].ceiling > 0 /\ loc[c].pol # "noeviction"
            /\ usage > loc[c].ceiling
        BY <2>1, <2>2, Zenon
      <4> QED  BY <3>1, <4>1, Zenon DEF PassCheck
    <3>2. CASE EvictLoad(c)
      <4>1. ~(usage <= loc[c].ceiling)
        BY <1>0, <2>1, <2>2
      <4> QED  BY <3>2, <4>1, Zenon DEF EvictLoad
    <3> QED  BY <1>3, <3>1, <3>2, Zenon
  <2> QED  BY <1>0, <2>3, Zenon
<1>4. CASE EvictSample(c)
  <2>1. CASE Return(c, "ok", 0, TRUE)
    <3>1. loc'[c].gaveUp
      BY <1>0, <2>1, NoLocalsType, Zenon DEF Return, Locals
    <3> QED  BY <3>1, Zenon
  <2>2. CASE pc'[c] \in {"evictDelete", "evictLoad"}
    BY <2>2, Zenon
  <2> QED  BY <1>0, <1>4, <2>1, <2>2, Zenon DEF EvictSample
<1>5. CASE EvictDelete(c) \/ EvictAccount(c)
  BY <1>0, <1>5, Zenon DEF EvictDelete, EvictAccount
<1>6. CASE SetPolicy(c) \/ SetGuard(c) \/ SetSwap(c) \/ DelAccount(c)
  <2>1. /\ loc'[c].gaveUp = loc[c].gaveUp /\ usage' <= usage
        /\ pc[c] \in {"setPolicy", "setGuard", "setSwap", "delAccount"}
    BY <1>0, <1>6, SMTT(30) DEF SetPolicy, SetGuard, SetSwap, DelAccount, Locals
  <2> QED  BY <2>1, Zenon
<1>7. CASE \/ SetAdmit(c) \/ DelExpired(c) \/ GetExpired(c) \/ GetRecord(c)
           \/ TTLExpired(c) \/ TTLRemaining(c)
  <2>1. /\ loc'[c].gaveUp = loc[c].gaveUp /\ usage' <= usage
        /\ pc[c] \in {"setAdmit", "delExpired", "getExpired", "getRecord",
                      "ttlExpired", "ttlRemaining"}
    <3>1. \/ \E r, n : Return(c, r, n, loc[c].gaveUp)
          \/ loc' = loc
      BY <1>7, Zenon
         DEF SetAdmit, DelExpired, GetExpired, GetRecord, TTLExpired,
             TTLRemaining
    <3>2. loc'[c].gaveUp = loc[c].gaveUp
      BY <3>1, ReturnKeepsGaveUp, Zenon
    <3> QED  BY <1>0, <1>7, <3>2
                DEF SetAdmit, DelExpired, GetExpired, GetRecord, TTLExpired,
                    TTLRemaining
  <2> QED  BY <2>1, Zenon
<1>8. ~(\/ SMMConfig(c) \/ SMMSwap(c) \/ SMMSketch(c) \/ SMMDoorkeeper(c)
        \/ ActPolicy(c) \/ ActCeiling(c) \/ ActStore(c) \/ SMMPolicy(c))
  BY <1>0, Zenon
     DEF SMMConfig, SMMSwap, SMMSketch, SMMDoorkeeper, ActPolicy, ActCeiling,
         ActStore, SMMPolicy, TuningLabels
<1> QED  BY <1>1, <1>2, <1>3, <1>4, <1>5, <1>6, <1>7, <1>8, Zenon DEF Step

\* Those beliefs stay true.
LEMMA BeliefsHold == Spec => [](Untuned => BeliefsTrue)
<1>1. Init => BeliefsTrue
  BY Zenon DEF Init, BeliefsTrue, TuningLabels, SetLabels
<1>2. ASSUME TypeOK, Untuned, BeliefsTrue, [Next]_vars
      PROVE  BeliefsTrue'
  <2>1. ASSUME NEW c \in Clients, Start(c) \/ Step(c)
        PROVE  BeliefsTrue'
    <3>1. \A d \in Clients \ {c} : pc'[d] = pc[d] /\ loc'[d] = loc[d]
      BY <1>2, <2>1, OthersKept, Zenon
    <3>2. /\ UNCHANGED <<maxmemory, evictPol>>
          /\ pc'[c] \notin TuningLabels
          /\ pc'[c] = "setPolicy" => loc'[c].ceiling = maxmemory
          /\ pc'[c] \in SetLabels =>
               loc'[c].ceiling = maxmemory /\ loc'[c].pol = evictPol
      BY <1>2, <2>1, UntunedStep, Zenon
    <3> QED  BY <1>2, <3>1, <3>2, Zenon DEF BeliefsTrue
  <2>2. CASE Tick \/ UNCHANGED vars
    BY <1>2, <2>2, Zenon DEF Tick, vars, tuning, BeliefsTrue
  <2> QED  BY <1>2, <2>1, <2>2, Zenon DEF Next, Finished
<1>3. TypeOK /\ (Untuned => BeliefsTrue) /\ [Next]_vars => (Untuned => BeliefsTrue)'
  BY <1>2, Zenon DEF Untuned
<1> QED  BY <1>1, <1>3, TypeCorrect, PTL DEF Spec

\* Memory stays bounded: while the ceiling and an evicting policy stay as they
\* are, usage above the ceiling always means that some goroutine is in its
\* pass, or that its last pass found no victim.
THEOREM EvictionOwedHolds == Spec => []EvictionOwed
<1>1. Init => EvictionOwed
  BY EngineAssumption, SMTT(30) DEF Init, EvictionOwed
<1>2. ASSUME TypeOK, TypeOK', Untuned => BeliefsTrue, EvictionOwed, [Next]_vars
      PROVE  EvictionOwed'
  <2> SUFFICES ASSUME Untuned, maxmemory' > 0, evictPol' # "noeviction",
                      usage' > maxmemory'
               PROVE  \E d \in Clients : InPass(d)' \/ loc'[d].gaveUp
    BY Zenon DEF EvictionOwed, Untuned
  <2>0. BeliefsTrue
    BY <1>2, Zenon
  <2>1. ASSUME NEW c \in Clients, Start(c) \/ Step(c)
        PROVE  \E d \in Clients : InPass(d)' \/ loc'[d].gaveUp
    <3>1. \A d \in Clients \ {c} : pc'[d] = pc[d] /\ loc'[d] = loc[d]
      BY <1>2, <2>1, OthersKept, Zenon
    <3>2. UNCHANGED <<maxmemory, evictPol>>
      BY <1>2, <2>0, <2>1, UntunedStep, Zenon
    <3>3. CASE InPass(c)' \/ loc'[c].gaveUp
      BY <3>3, Zenon
    <3>4. CASE usage' <= usage /\ ~InPass(c) /\ ~loc[c].gaveUp
      <4>1. usage > maxmemory
        BY <1>2, <3>2, <3>4, SMTT(30) DEF TypeOK
      <4>2. PICK d \in Clients : InPass(d) \/ loc[d].gaveUp
        BY <1>2, <3>2, <4>1, Zenon DEF EvictionOwed, Untuned
      <4>3. d # c
        BY <3>4, <4>2, Zenon
      <4> QED  BY <3>1, <4>2, <4>3, Zenon DEF InPass
    <3> QED  BY <1>2, <2>0, <2>1, <3>2, <3>3, <3>4, PassKept, Zenon
  <2>2. CASE Tick \/ UNCHANGED vars
    BY <1>2, <2>2, Zenon DEF Tick, vars, tuning, EvictionOwed, InPass, Untuned
  <2> QED  BY <1>2, <2>1, <2>2, Zenon DEF Next, Finished
<1> QED  BY <1>1, <1>2, TypeCorrect, BeliefsHold, PTL DEF Spec
-----------------------------------------------------------------------------
(* The policy follows the setters. *)

Wanted == evictPol = "allkeys-lfu" /\ maxmemory > 0
InSize == policyCounters = policyConfig(maxmemory)
Built == sketch.sk = policyCounters /\ sketch.dk = policyCounters

\* How far the setter at label `at`, with the locals l, has come: what is not in
\* line with the ceiling and the policy is what it has still to do.
SetterAt(at, l) ==
  /\ at # "smmConfig" /\ at # "smmSwap" => InSize
  /\ at # "smmSketch" /\ at # "smmDoorkeeper" => Built
  /\ at = "smmSwap" => l.counters = policyConfig(maxmemory)
  /\ at = "smmSketch" => l.counters = policyCounters
  /\ at = "smmDoorkeeper" =>
       l.counters = policyCounters /\ sketch.sk = policyCounters
  /\ at = "actCeiling" => evictPol = "allkeys-lfu"
  /\ at = "actStore" => l.want = Wanted

InLine == active = Wanted /\ InSize /\ Built

Alone == \A t, u \in Tuners : t = u

TuneInv ==
  /\ \A c \in Clients : Setting(c) => c \in Tuners /\ SetterAt(pc[c], loc[c])
  /\ (\A c \in Clients : ~Setting(c)) => InLine

\* A step of c is one of a setter, or leaves everything that is tuned alone and
\* c out of a setter.
LEMMA TuneSteps ==
  ASSUME TypeOK, NEW c \in Clients, Start(c) \/ Step(c)
  PROVE  \/ UNCHANGED tuning /\ ~Setting(c) /\ ~Setting(c)'
         \/ \E bytes \in Ceilings : SetMaxMemory(c, bytes)
         \/ \E p \in Policies : SetEvictionPolicy(c, p)
         \/ SMMConfig(c) \/ SMMSwap(c) \/ SMMSketch(c) \/ SMMDoorkeeper(c)
         \/ ActPolicy(c) \/ ActCeiling(c) \/ ActStore(c)
<1>0. pc \in [Clients -> Labels]
  BY Zenon DEF TypeOK
<1>1. ASSUME NEW k \in Keys, NEW size \in Sizes, NEW ttl \in TTLs,
             SetBegin(c, k, size, ttl)
      PROVE  UNCHANGED tuning /\ ~Setting(c) /\ ~Setting(c)'
  BY <1>0, <1>1, Zenon DEF SetBegin, Call, Goto, Setting
<1>2. ASSUME NEW k \in Keys,
             DelDelete(c, k) \/ GetLookup(c, k) \/ TTLLookup(c, k)
      PROVE  UNCHANGED tuning /\ ~Setting(c) /\ ~Setting(c)'
  BY <1>0, <1>2, Zenon
     DEF DelDelete, GetLookup, TTLLookup, Lookup, Call, Return, Goto, Setting
<1>3. CASE \/ SetPolicy(c) \/ SetGuard(c) \/ SetAdmit(c) \/ SetSwap(c)
           \/ SetAccount(c) \/ SMMPolicy(c)
  BY <1>0, <1>3, Zenon
     DEF SetPolicy, SetGuard, SetAdmit, SetSwap, SetAccount, SMMPolicy, Return,
         Goto, Setting
<1>4. CASE \/ PassCheck(c) \/ EvictLoad(c) \/ EvictSample(c)
           \/ EvictDelete(c) \/ EvictAccount(c)
  BY <1>0, <1>4, Zenon
     DEF PassCheck, EvictLoad, EvictSample, EvictDelete, EvictAccount, Return,
         Goto, Setting
<1>5. CASE \/ DelAccount(c) \/ DelExpired(c) \/ GetExpired(c)
           \/ GetRecord(c) \/ TTLExpired(c) \/ TTLRemaining(c)
  BY <1>0, <1>5, Zenon
     DEF DelAccount, DelExpired, GetExpired, GetRecord, TTLExpired,
         TTLRemaining, Return, Goto, Setting
<1> QED  BY <1>1, <1>2, <1>3, <1>4, <1>5, Zenon DEF Start, Step

\* A setter that begins finds everything in line, and one under way puts one
\* more thing in line with each step.
LEMMA SetterStep ==
  ASSUME TypeOK, TuneInv, NEW c \in Tuners, \A t \in Tuners : t = c,
         \/ \E bytes \in Ceilings : SetMaxMemory(c, bytes)
         \/ \E p \in Policies : SetEvictionPolicy(c, p)
         \/ SMMConfig(c) \/ SMMSwap(c) \/ SMMSketch(c) \/ SMMDoorkeeper(c)
         \/ ActPolicy(c) \/ ActCeiling(c) \/ ActStore(c)
  PROVE  IF Setting(c)' THEN SetterAt(pc[c], loc[c])' ELSE InLine'
<1>0. /\ c \in Clients /\ pc \in [Clients -> Labels] /\ loc \in [Clients -> Locals]
      /\ loc[c] \in Locals /\ sketch \in [sk: Nat, dk: Nat]
      /\ evictPol \in Policies /\ Fresh(c) \in Locals
  BY EngineAssumption, FreshType, Zenon DEF TypeOK
<1>1. pc[c] = "idle" => InLine
  BY Zenon DEF TuneInv, Setting
<1>2. Setting(c) => SetterAt(pc[c], loc[c])
  BY <1>0, Zenon DEF TuneInv
<1>3. CASE \E bytes \in Ceilings : SetMaxMemory(c, bytes)
  <2>1. /\ pc[c] = "idle" /\ pc'[c] = "smmConfig"
        /\ UNCHANGED <<policyCounters, sketch>>
    BY <1>0, <1>3, Zenon DEF SetMaxMemory, Call, Goto
  <2> QED  BY <1>1, <2>1, Zenon DEF SetterAt, InLine, Built, Setting
<1>4. CASE \E p \in Policies : SetEvictionPolicy(c, p)
  <2>1. /\ pc[c] = "idle" /\ pc'[c] = "actPolicy"
        /\ UNCHANGED <<maxmemory, policyCounters, sketch>>
    BY <1>0, <1>4, Zenon DEF SetEvictionPolicy, Call, Goto
  <2> QED  BY <1>1, <2>1, Zenon
              DEF SetterAt, InLine, Built, InSize, Setting, policyConfig
<1>5. CASE SMMConfig(c)
  <2>1. /\ pc[c] = "smmConfig" /\ pc'[c] = "smmSwap"
        /\ loc'[c].counters = policyConfig(maxmemory)
        /\ UNCHANGED <<maxmemory, policyCounters, sketch>>
    BY <1>0, <1>5, Zenon DEF SMMConfig, Goto, Locals, tuning
  <2> QED  BY <1>2, <2>1, Zenon DEF SetterAt, Built, Setting, policyConfig
<1>6. CASE SMMSwap(c)
  <2>1. /\ pc[c] = "smmSwap" /\ policyCounters' = loc[c].counters
        /\ IF loc[c].counters # policyCounters
           THEN pc'[c] = "smmSketch" ELSE pc'[c] = "actPolicy"
        /\ UNCHANGED <<maxmemory, sketch, loc>>
    BY <1>0, <1>6, Zenon DEF SMMSwap, Goto
  <2> QED  BY <1>2, <2>1, Zenon
              DEF SetterAt, Built, InSize, Setting, policyConfig
<1>7. CASE SMMSketch(c)
  <2>1. /\ pc[c] = "smmSketch" /\ pc'[c] = "smmDoorkeeper"
        /\ sketch'.sk = loc[c].counters
        /\ UNCHANGED <<maxmemory, policyCounters, loc>>
    BY <1>0, <1>7, Zenon DEF SMMSketch, Goto
  <2> QED  BY <1>2, <2>1, Zenon DEF SetterAt, InSize, Setting, policyConfig
<1>8. CASE SMMDoorkeeper(c)
  <2>1. /\ pc[c] = "smmDoorkeeper" /\ pc'[c] = "actPolicy"
        /\ sketch'.dk = loc[c].counters /\ sketch'.sk = sketch.sk
        /\ UNCHANGED <<maxmemory, policyCounters, loc>>
    BY <1>0, <1>8, Zenon DEF SMMDoorkeeper, Goto
  <2> QED  BY <1>2, <2>1, Zenon
              DEF SetterAt, Built, InSize, Setting, policyConfig
<1>9. CASE ActPolicy(c)
  <2>1. /\ pc[c] = "actPolicy" /\ loc'[c].want = FALSE
        /\ IF evictPol = "allkeys-lfu" THEN pc'[c] = "actCeiling"
                                       ELSE pc'[c] = "actStore"
        /\ UNCHANGED <<maxmemory, evictPol, policyCounters, sketch>>
    BY <1>0, <1>9, Zenon DEF ActPolicy, Goto, Locals, tuning
  <2> QED  BY <1>2, <2>1, Zenon
              DEF SetterAt, Built, InSize, Wanted, Setting, policyConfig
<1>10. CASE ActCeiling(c)
  <2>1. /\ pc[c] = "actCeiling" /\ pc'[c] = "actStore"
        /\ loc'[c].want = (maxmemory > 0)
        /\ UNCHANGED <<maxmemory, evictPol, policyCounters, sketch>>
    BY <1>0, <1>10, Zenon DEF ActCeiling, Goto, Locals, tuning
  <2> QED  BY <1>2, <2>1
              DEF SetterAt, Built, InSize, Wanted, Setting, policyConfig
<1>11. CASE ActStore(c)
  <2>1. /\ pc[c] = "actStore" /\ pc'[c] \in {"smmPolicy", "idle"}
        /\ active' = loc[c].want
        /\ UNCHANGED <<maxmemory, evictPol, policyCounters, sketch>>
    BY <1>0, <1>11, Zenon DEF ActStore, Return, Goto
  <2> QED  BY <1>2, <2>1, Zenon
              DEF SetterAt, InLine, Built, InSize, Wanted, Setting,
                  policyConfig
<1> QED  BY <1>3, <1>4, <1>5, <1>6, <1>7, <1>8, <1>9, <1>10, <1>11, Zenon

\* With one goroutine that tunes, PolicyFollows holds for ever: whatever the
\* others do meanwhile, the setters of cache.go leave recording and the sizings
\* of sketch and doorkeeper in line with the ceiling and the policy.
THEOREM PolicyFollowsHolds == Spec => []PolicyFollows
<1>1. Init => TuneInv
  BY DEF Init, TuneInv, Setting, InLine, Wanted, InSize, Built
<1>2. ASSUME TypeOK, Alone, TuneInv, [Next]_vars
      PROVE  TuneInv'
  <2>1. ASSUME NEW c \in Clients, Start(c) \/ Step(c)
        PROVE  TuneInv'
    <3>1. \A d \in Clients \ {c} : pc'[d] = pc[d] /\ loc'[d] = loc[d]
      BY <1>2, <2>1, OthersKept, Zenon
    <3>2. CASE UNCHANGED tuning /\ ~Setting(c) /\ ~Setting(c)'
      <4>1. InLine' <=> InLine
        BY <3>2, Zenon DEF tuning, InLine, Wanted, InSize, Built, policyConfig
      <4>2. \A d \in Clients : Setting(d)' <=> Setting(d)
        BY <3>1, <3>2, Zenon DEF Setting
      <4>3. \A d \in Clients : Setting(d) => d # c
        BY <3>2, Zenon
      <4>4. ASSUME NEW d \in Clients, Setting(d)
            PROVE  d \in Tuners /\ SetterAt(pc[d], loc[d])'
        <5>1. pc'[d] = pc[d] /\ loc'[d] = loc[d]
          BY <3>1, <4>3, <4>4, Zenon
        <5>2. d \in Tuners /\ SetterAt(pc[d], loc[d])
          BY <1>2, <4>4, Zenon DEF TuneInv
        <5> QED  BY <3>2, <5>1, <5>2, Zenon
                    DEF tuning, SetterAt, Wanted, InSize, Built, policyConfig
      <4> QED  BY <1>2, <4>1, <4>2, <4>4, Zenon DEF TuneInv
    <3>3. CASE \/ \E bytes \in Ceilings : SetMaxMemory(c, bytes)
               \/ \E p \in Policies : SetEvictionPolicy(c, p)
               \/ SMMConfig(c) \/ SMMSwap(c) \/ SMMSketch(c) \/ SMMDoorkeeper(c)
               \/ ActPolicy(c) \/ ActCeiling(c) \/ ActStore(c)
      <4>1. c \in Tuners
        <5>1. CASE Setting(c)
          BY <1>2, <5>1, Zenon DEF TuneInv
        <5>2. CASE ~Setting(c)
          BY <3>3, <5>2, Zenon
             DEF SetMaxMemory, SetEvictionPolicy, Call, TuningOps, Setting,
                 SMMConfig, SMMSwap, SMMSketch, SMMDoorkeeper, ActPolicy,
                 ActCeiling, ActStore
        <5> QED  BY <5>1, <5>2, Zenon
      <4>2. \A t \in Tuners : t = c
        BY <1>2, <4>1, Zenon DEF Alone
      <4>3. IF Setting(c)' THEN SetterAt(pc[c], loc[c])' ELSE InLine'
        BY <1>2, <3>3, <4>1, <4>2, SetterStep, Zenon
      <4>4. \A d \in Clients \ {c} : ~Setting(d)'
        BY <1>2, <3>1, <4>2, Zenon DEF TuneInv, Setting
      <4> QED  BY <4>1, <4>3, <4>4, Zenon DEF TuneInv
    <3> QED  BY <1>2, <2>1, <3>2, <3>3, TuneSteps, Zenon
  <2>2. CASE Tick \/ UNCHANGED vars
    BY <1>2, <2>2
       DEF Tick, vars, tuning, TuneInv, Setting, SetterAt, InLine, Wanted,
           InSize, Built, policyConfig
  <2> QED  BY <1>2, <2>1, <2>2, Zenon DEF Next, Finished
<1>3. TypeOK /\ (Alone => TuneInv) /\ [Next]_vars => (Alone => TuneInv)'
  BY <1>2, Zenon DEF Alone
<1>4. (Alone => TuneInv) => PolicyFollows
  BY Zenon DEF Alone, TuneInv, PolicyFollows, InLine, Wanted, InSize, Built
<1> QED  BY <1>1, <1>3, <1>4, TypeCorrect, PTL DEF Spec
-----------------------------------------------------------------------------
(* Concurrent passes over-evict by one victim each at most. *)

\* A goroutine that has seen an excess and not yet spent it on a victim.
Spending == {"evictSample", "evictDelete", "evictAccount"}

\* A goroutine comes to spend by looking at usage, and by that only: until it
\* has accounted for a victim it goes on from what it saw.
LEMMA SpendingStep ==
  ASSUME TypeOK, TypeOK', Untuned, BeliefsTrue, NEW c \in Clients,
         Start(c) \/ Step(c), pc'[c] \in Spending
  PROVE  \/ pc[c] \in {"evictSample", "evictDelete"}
         \/ usage' > maxmemory'
<1>1. CASE EvictLoad(c)
  <2>1. pc[c] = "evictLoad" /\ usage' = usage /\ maxmemory' = maxmemory
    BY <1>1, Zenon DEF EvictLoad, tuning
  <2>2. loc[c].ceiling = maxmemory
    BY <2>1, Zenon DEF BeliefsTrue, SetLabels
  <2>3. usage > loc[c].ceiling
    BY <1>1, Zenon DEF EvictLoad, Return, Goto, TypeOK, Spending
  <2> QED  BY <2>1, <2>2, <2>3, Zenon
<1>2. CASE EvictSample(c) \/ EvictDelete(c)
  BY <1>2, Zenon DEF EvictSample, EvictDelete
<1>3. CASE EvictAccount(c) \/ PassCheck(c)
  BY <1>3, Zenon DEF EvictAccount, PassCheck, Return, Goto, TypeOK, Spending
<1>4. CASE \/ SetPolicy(c) \/ SetGuard(c) \/ SetAdmit(c) \/ SetSwap(c)
           \/ SetAccount(c)
  BY <1>4
     DEF SetPolicy, SetGuard, SetAdmit, SetSwap, SetAccount, Return, Goto,
         TypeOK, Spending
<1>5. CASE \/ DelAccount(c) \/ DelExpired(c) \/ GetExpired(c) \/ GetRecord(c)
           \/ TTLExpired(c) \/ TTLRemaining(c)
  BY <1>5, ZenonT(30)
     DEF DelAccount, DelExpired, GetExpired, GetRecord, TTLExpired,
         TTLRemaining, Return, Goto, TypeOK, Spending
<1>6. CASE \/ SMMConfig(c) \/ SMMSwap(c) \/ SMMSketch(c) \/ SMMDoorkeeper(c)
           \/ ActPolicy(c) \/ ActCeiling(c) \/ ActStore(c) \/ SMMPolicy(c)
  BY <1>6, Zenon
     DEF SMMConfig, SMMSwap, SMMSketch, SMMDoorkeeper, ActPolicy, ActCeiling,
         ActStore, SMMPolicy, BeliefsTrue, TuningLabels
<1>7. CASE Start(c)
  <2>1. CASE \E k \in Keys, size \in Sizes, ttl \in TTLs : SetBegin(c, k, size, ttl)
    BY <2>1, ZenonT(30) DEF SetBegin, Goto, TypeOK, Spending
  <2>2. CASE \E k \in Keys : DelDelete(c, k) \/ GetLookup(c, k) \/ TTLLookup(c, k)
    BY <2>2, ZenonT(30)
       DEF DelDelete, GetLookup, TTLLookup, Lookup, Return, Goto, TypeOK,
           Spending
  <2>3. CASE \/ \E bytes \in Ceilings : SetMaxMemory(c, bytes)
             \/ \E p \in Policies : SetEvictionPolicy(c, p)
    BY <2>3, ZenonT(30)
       DEF SetMaxMemory, SetEvictionPolicy, Goto, TypeOK, Spending
  <2> QED  BY <1>7, <2>1, <2>2, <2>3, Zenon DEF Start
<1> QED  BY <1>1, <1>2, <1>3, <1>4, <1>5, <1>6, <1>7, ZenonT(30) DEF Step

\* The inductive invariant: a goroutine that has taken a victim late is not
\* about to take another.
LateInv ==
  /\ late \in [Clients -> 0..1]
  /\ \A c \in Clients : pc[c] \in Spending => late[c] = 0

\* Every step keeps it.
LEMMA LateStep ==
  ASSUME TypeOK, TypeOK', Untuned, BeliefsTrue, LateInv, [HNext]_hvars
  PROVE  LateInv'
<1>1. ASSUME NEW c \in Clients, Start(c) \/ Step(c), HNext
      PROVE  LateInv'
  <2>1. \A d \in Clients \ {c} : pc'[d] = pc[d]
    BY <1>1, OthersKept, Zenon
  <2>2. late' = [d \in Clients |->
          IF usage' > maxmemory' THEN 0
          ELSE late[d] + (IF pc[d] = "evictAccount" /\ pc'[d] # pc[d]
                          THEN 1 ELSE 0)]
    BY <1>1, Zenon DEF HNext
  <2>3. ASSUME NEW d \in Clients
        PROVE  late'[d] \in 0..1 /\ (pc'[d] \in Spending => late'[d] = 0)
    <3>1. CASE usage' > maxmemory'
      BY <2>2, <3>1
    <3>2. CASE ~(usage' > maxmemory') /\ d # c
      <4>1. pc'[d] = pc[d] /\ late'[d] = late[d] + 0
        BY <2>1, <2>2, <3>2, Zenon
      <4> QED  BY <4>1 DEF LateInv
    <3>3. CASE ~(usage' > maxmemory') /\ d = c /\ pc'[c] \in Spending
      <4>1. pc[c] \in {"evictSample", "evictDelete"}
        BY <1>1, <3>3, SpendingStep, Zenon
      <4>2. late[c] = 0 /\ late'[c] = late[c] + 0
        BY <2>2, <3>3, <4>1, Zenon DEF LateInv, Spending
      <4> QED  BY <3>3, <4>2
    <3>4. CASE ~(usage' > maxmemory') /\ d = c /\ pc'[c] \notin Spending
      <4>1. CASE pc[c] = "evictAccount"
        <5>1. late[c] = 0
          BY <4>1, Zenon DEF LateInv, Spending
        <5>2. late'[c] \in {late[c] + 0, late[c] + 1}
          BY <2>2, <3>4, Zenon
        <5> QED  BY <3>4, <5>1, <5>2
      <4>2. CASE pc[c] # "evictAccount"
        <5>1. late'[c] = late[c] + 0
          BY <2>2, <3>4, <4>2, Zenon
        <5> QED  BY <3>4, <5>1 DEF LateInv
      <4> QED  BY <4>1, <4>2, Zenon
    <3> QED  BY <3>1, <3>2, <3>3, <3>4, Zenon
  <2> QED  BY <2>2, <2>3, Zenon DEF LateInv
<1>2. ASSUME HNext, pc' = pc
      PROVE  LateInv'
  <2>1. late' = [d \in Clients |-> IF usage' > maxmemory' THEN 0 ELSE late[d] + 0]
    BY <1>2, Zenon DEF HNext
  <2> QED  BY <1>2, <2>1 DEF LateInv
<1>3. CASE UNCHANGED hvars
  BY <1>3, Zenon DEF hvars, vars, LateInv
<1> QED  BY <1>1, <1>2, <1>3, Zenon DEF HNext, Next, Tick, Finished, vars

\* The engine with its history is the engine.
LEMMA HistoryRefines == HSpec => Spec
<1>1. HInit => Init
  BY Zenon DEF HInit
<1>2. [HNext]_hvars => [Next]_vars
  BY Zenon DEF HNext, hvars
<1> QED  BY <1>1, <1>2, PTL DEF HSpec, Spec

\* evict.go:26: however many goroutines run a pass at the same time, once usage
\* is down to the ceiling each of them takes one more victim at most.
THEOREM OverEvictionHolds == HSpec => []OverEvictionBounded
<1> DEFINE IInv == Untuned => LateInv
<1>1. HInit => IInv
  BY DEF HInit, Init, LateInv, Spending
<1>2. TypeOK /\ TypeOK' /\ (Untuned => BeliefsTrue) /\ IInv /\ [HNext]_hvars
      => IInv'
  BY LateStep, Zenon DEF Untuned
<1>3. IInv => OverEvictionBounded
  BY DEF LateInv, OverEvictionBounded, Untuned
<1>4. Spec => [](Untuned => BeliefsTrue)
  BY BeliefsHold, Zenon
<1> QED  BY <1>1, <1>2, <1>3, <1>4, HistoryRefines, TypeCorrect, PTL DEF HSpec
=============================================================================
