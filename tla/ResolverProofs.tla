--------------------------- MODULE ResolverProofs ---------------------------
(***************************************************************************)
(* Proofs about Resolver, for every number of goroutines, names and        *)
(* addresses, every mode and every cache size.                             *)
(***************************************************************************)
EXTENDS Resolver, FiniteSetTheorems, TLAPS

USE DnsTypesAssumption, DnsCacheAssumption, PreferenceCacheAssumption,
    ResolverAssumption

-----------------------------------------------------------------------------
(* The operators on a cache *)

LEMMA LimitType == Limit \in Nat \ {0}
BY DEF Limit

LEMMA TermsType ==
    /\ \A ttl \in Nat : Clamp(ttl) \in Nat
    /\ \A d \in Nat : PrefTTL(d) \in Nat
BY DEF Clamp, PrefTTL

\* The keys of a cache are finitely many, because names are.
LEMMA KeysFinite ==
    ASSUME NEW c
    PROVE  IsFiniteSet(Keys(c)) /\ Cardinality(Keys(c)) \in Nat
<1>1. Keys(c) \subseteq Name  BY DEF Keys
<1>2. IsFiniteSet(Keys(c))  BY <1>1, FS_Subset
<1> QED BY <1>2, FS_CardinalityType

\* Forgetting names cannot make a cache larger.
LEMMA ForgetShrinks ==
    ASSUME NEW c, NEW names
    PROVE  /\ Keys(Forget(c, names)) \subseteq Keys(c)
           /\ Cardinality(Keys(Forget(c, names))) <= Cardinality(Keys(c))
<1>1. Keys(Forget(c, names)) \subseteq Keys(c)  BY DEF Keys, Forget
<1> QED BY <1>1, KeysFinite, FS_Subset

LEMMA StoreAddsOne ==
    ASSUME NEW S, NEW c \in [Name -> S], NEW n \in Name, NEW e
    PROVE  Cardinality(Keys([c EXCEPT ![n] = e])) <= Cardinality(Keys(c)) + 1
<1> DEFINE d == [c EXCEPT ![n] = e]
<1>1. Keys(d) \subseteq Keys(c) \cup {n}  BY DEF Keys
<1>2. /\ IsFiniteSet(Keys(c) \cup {n})
      /\ Cardinality(Keys(c) \cup {n}) <= Cardinality(Keys(c)) + 1
  <2>1. IsFiniteSet(Keys(c)) /\ Cardinality(Keys(c)) \in Nat  BY KeysFinite
  <2>2. /\ IsFiniteSet(Keys(c) \cup {n})
        /\ Cardinality(Keys(c) \cup {n}) =
             IF n \in Keys(c) THEN Cardinality(Keys(c))
                              ELSE Cardinality(Keys(c)) + 1
    BY <2>1, FS_AddElement, Zenon
  <2> QED BY <2>1, <2>2
<1>3. Cardinality(Keys(d)) <= Cardinality(Keys(c) \cup {n})
  BY <1>1, <1>2, FS_Subset
<1>4. Cardinality(Keys(c) \cup {n}) \in Nat  BY <1>2, FS_CardinalityType
<1> QED BY <1>2, <1>3, <1>4, KeysFinite

\* An eviction makes room for one entry.
LEMMA EvictMakesRoom ==
    ASSUME NEW c, NEW k \in Keys(c)
    PROVE  Cardinality(Keys(Forget(c, {k}))) = Cardinality(Keys(c)) - 1
<1>1. Keys(Forget(c, {k})) = Keys(c) \ {k}  BY DEF Keys, Forget
<1> QED BY <1>1, KeysFinite, FS_RemoveElement

\* The pattern of setCache and of the preference cache's set: evict at the
\* limit, then store.
LEMMA StoreWithinLimit ==
    ASSUME NEW S, NEW c \in [Name -> S], NEW d \in [Name -> S],
           NEW n \in Name, NEW e, NEW limit \in Nat \ {0},
           Cardinality(Keys(c)) <= limit,
           IF Cardinality(Keys(c)) >= limit
             THEN \E k \in Keys(c) : d = Forget(c, {k})
             ELSE d = c
    PROVE  Cardinality(Keys([d EXCEPT ![n] = e])) <= limit
<1>1. Cardinality(Keys(d)) + 1 <= limit
  <2>1. CASE Cardinality(Keys(c)) >= limit
    <3>1. PICK k \in Keys(c) : d = Forget(c, {k})  BY <2>1
    <3>2. Cardinality(Keys(d)) = Cardinality(Keys(c)) - 1
      BY <3>1, EvictMakesRoom
    <3>3. Cardinality(Keys(c)) \in Nat  BY KeysFinite
    <3> QED BY <3>2, <3>3
  <2>2. CASE ~(Cardinality(Keys(c)) >= limit)
    <3>1. d = c /\ Cardinality(Keys(c)) \in Nat  BY <2>2, KeysFinite
    <3> QED BY <2>2, <3>1
  <2> QED BY <2>1, <2>2
<1>2. /\ Cardinality(Keys([d EXCEPT ![n] = e])) \in Nat
      /\ Cardinality(Keys(d)) \in Nat
  BY KeysFinite
<1>3. Cardinality(Keys([d EXCEPT ![n] = e])) <= Cardinality(Keys(d)) + 1
  BY StoreAddsOne
<1> QED BY <1>1, <1>2, <1>3

LEMMA ForgetType ==
    ASSUME NEW S, NEW c \in [Name -> S \cup {None}], NEW names
    PROVE  Forget(c, names) \in [Name -> S \cup {None}]
BY DEF Forget

-----------------------------------------------------------------------------
(* Types, program points, the mutex, and whose answer is whose *)

CoreInv == TypeOK /\ HeldInv /\ LockInv /\ AnswersOwnTarget

LEMMA CoreInit == Init => CoreInv
<1> SUFFICES ASSUME Init PROVE CoreInv
  OBVIOUS
<1> USE DEF Init, CacheInit, PrefInit
<1>1. TypeOK  BY DEF TypeOK, CacheTypeOK, PrefTypeOK, Loc, Via
<1>2. HeldInv  BY DEF HeldInv
<1>3. LockInv  BY DEF LockInv
<1>4. AnswersOwnTarget  BY DEF AnswersOwnTarget, Keys
<1> QED BY <1>1, <1>2, <1>3, <1>4 DEF CoreInv

LEMMA CoreStep == CoreInv /\ [Next]_vars => CoreInv'
<1> SUFFICES ASSUME CoreInv, [Next]_vars PROVE CoreInv'
  OBVIOUS
<1> USE DEF CoreInv, TypeOK, CacheTypeOK, PrefTypeOK, HeldInv, LockInv,
            AnswersOwnTarget, Loc, Via, CacheEntry, PrefEntry, Answer, IP,
            Keys, Target, GoTo, bgVars, dnsCacheVars, goVars
<1>1. ASSUME NEW p \in Proc, NEW h \in Name, ResolveToAddress(p, h) PROVE CoreInv'
  BY <1>1 DEF ResolveToAddress, Hold
<1>2. ASSUME NEW p \in Proc, NEW h \in Name, ResolveName(p, h) PROVE CoreInv'
  BY <1>2 DEF ResolveName
<1>3. ASSUME NEW p \in Proc, PreferenceHit(p) PROVE CoreInv'
  BY <1>3 DEF PreferenceHit, Hold, PrefLive
<1>4. ASSUME NEW p \in Proc, PreferenceMiss(p) PROVE CoreInv'
  BY <1>4 DEF PreferenceMiss, FirstQuery, StandardQuery
<1>5. ASSUME NEW p \in Proc, QueryAAAA(p) PROVE CoreInv'
  <2>1. CASE Answered(p, IP6)
    BY <1>5, <2>1 DEF QueryAAAA, Answered, Hold
  <2>2. CASE NotAnswered(p, "q4")
    BY <1>5, <2>2 DEF QueryAAAA, NotAnswered
  <2> QED BY <1>5, <2>1, <2>2 DEF QueryAAAA
<1>6. ASSUME NEW p \in Proc, QueryA(p) PROVE CoreInv'
  BY <1>6 DEF QueryA, Answered, NotAnswered, Hold
<1>7. ASSUME NEW p \in Proc, FastestFound(p) PROVE CoreInv'
  BY <1>7 DEF FastestFound, Answered, Hold
<1>8. ASSUME NEW p \in Proc, FastestGaveUp(p) PROVE CoreInv'
  BY <1>8 DEF FastestGaveUp, StandardQuery
<1>9. ASSUME NEW p \in Proc, FastestCancelled(p) PROVE CoreInv'
  BY <1>9 DEF FastestCancelled, NotAnswered
<1>10. ASSUME NEW p \in Proc, StorePreference(p) PROVE CoreInv'
  BY <1>10 DEF StorePreference, SetPreference, PrefSet, PrefMadeRoom, Forget, PrefTTL
<1>11. ASSUME NEW p \in Proc, CacheHit(p) PROVE CoreInv'
  BY <1>11 DEF CacheHit, Hold, Hit, Live
<1>12. ASSUME NEW p \in Proc, CacheMiss(p) PROVE CoreInv'
  BY <1>12 DEF CacheMiss, Miss
<1>13. ASSUME NEW p \in Proc, TouchEntry(p) PROVE CoreInv'
  BY <1>13 DEF TouchEntry, Touch, Live
<1>14. ASSUME NEW p \in Proc, SystemAnswers(p) PROVE CoreInv'
  BY <1>14 DEF SystemAnswers, Hold, Selectable
<1>15. ASSUME NEW p \in Proc, SystemFails(p) PROVE CoreInv'
  BY <1>15 DEF SystemFails
<1>16. ASSUME NEW p \in Proc, StoreSystem(p) PROVE CoreInv'
  BY <1>16 DEF StoreSystem, SetCache, MadeRoom, Forget, Clamp, Oldest
<1>17. ASSUME NEW p \in Proc, FinishInvalidate(p) PROVE CoreInv'
  BY <1>17 DEF FinishInvalidate, LetGo, Hold, Unlock
<1>18. ASSUME NEW p \in Proc, Return(p) PROVE CoreInv'
  BY <1>18 DEF Return, LetGo, Hold
<1>19. ASSUME NEW p \in Proc, DialFails(p) PROVE CoreInv'
  BY <1>19 DEF DialFails, InvalidateCache, Forget
<1>20. CASE CleanCache
  BY <1>20 DEF CleanCache, Sweep, Forget
<1>21. CASE CleanerStops
  BY <1>21 DEF CleanerStops
<1>22. CASE Close
  BY <1>22 DEF Close
<1>23. CASE Tick
  BY <1>23 DEF Tick
<1>24. CASE UNCHANGED vars
  BY <1>24 DEF vars
<1>25. ASSUME NEW p \in Proc, InvalidatePref(p) PROVE CoreInv'
  BY <1>25 DEF InvalidatePref, InvalidatePreference, Forget
<1> QED
  BY <1>1, <1>2, <1>3, <1>4, <1>5, <1>6, <1>7, <1>8, <1>9, <1>10, <1>11, <1>12, <1>13, <1>14, <1>15, <1>16, <1>17, <1>18, <1>19, <1>20, <1>21, <1>22, <1>23, <1>24, <1>25
  DEF Next, Step

LEMMA CoreInvariant == Spec => []CoreInv
BY CoreInit, CoreStep, PTL DEF Spec

\* The variables keep their types, whatever the goroutines do.
THEOREM ResolverTypeOK == Spec => []TypeOK
<1>1. CoreInv => TypeOK  BY DEF CoreInv
<1> QED BY CoreInvariant, <1>1, PTL

\* No goroutine is ever given, and no cache ever keeps, an address that was
\* looked up for another name than the one the host resolves through.
THEOREM ResolverAnswersOwnTarget == Spec => []AnswersOwnTarget
<1>1. CoreInv => AnswersOwnTarget  BY DEF CoreInv
<1> QED BY CoreInvariant, <1>1, PTL

-----------------------------------------------------------------------------
(* Only setCache and set can make a cache larger, and they evict first. *)

LEMMA LimitsInit == Init => WithinLimits
<1> SUFFICES ASSUME Init PROVE WithinLimits
  OBVIOUS
<1>1. Keys(cache) = {} /\ Keys(pref) = {}
  BY DEF Init, CacheInit, PrefInit, Keys
<1>2. Cardinality({}) = 0  BY FS_EmptySet
<1> QED BY <1>1, <1>2, LimitType DEF WithinLimits

LEMMA SetCacheWithinLimit ==
    ASSUME CoreInv, WithinLimits, NEW n \in Name, NEW a, NEW ttl,
           SetCache(n, a, ttl)
    PROVE  Cardinality(Keys(cache')) <= Limit
<1>1. PICK c \in MadeRoom(cache) :
         cache' = [c EXCEPT ![n] = [ans |-> a, expiresAt |-> now + Clamp(ttl),
                                    lastAccessed |-> now]]
  BY DEF SetCache
<1>2. cache \in [Name -> CacheEntry \cup {None}]
  BY DEF CoreInv, TypeOK, CacheTypeOK
<1>3. c \in [Name -> CacheEntry \cup {None}]
  BY <1>2 DEF MadeRoom, Forget
<1>4. IF Cardinality(Keys(cache)) >= Limit
        THEN \E k \in Keys(cache) : c = Forget(cache, {k})
        ELSE c = cache
  BY DEF MadeRoom, Oldest
<1>5. Cardinality(Keys(cache)) <= Limit  BY DEF WithinLimits
<1> DEFINE e == [ans |-> a, expiresAt |-> now + Clamp(ttl), lastAccessed |-> now]
<1>6. Cardinality(Keys([c EXCEPT ![n] = e])) <= Limit
  <2> HIDE DEF e
  <2> QED BY <1>2, <1>3, <1>4, <1>5, LimitType, StoreWithinLimit
<1> QED BY <1>1, <1>6

LEMMA PrefSetWithinLimit ==
    ASSUME CoreInv, WithinLimits, NEW n \in Name, NEW a, NEW ttl,
           PrefSet(n, a, ttl), PrefCacheSize > 0
    PROVE  Cardinality(Keys(pref')) <= PrefCacheSize
<1>1. PICK c \in PrefMadeRoom(pref) :
         pref' = [c EXCEPT ![n] = [ans |-> a, expiresAt |-> now + ttl,
                                   testedAt |-> now]]
  BY DEF PrefSet
<1>2. pref \in [Name -> PrefEntry \cup {None}]
  BY DEF CoreInv, TypeOK, PrefTypeOK
<1>3. c \in [Name -> PrefEntry \cup {None}]
  BY <1>2 DEF PrefMadeRoom, Forget
<1>4. IF Cardinality(Keys(pref)) >= PrefCacheSize
        THEN \E k \in Keys(pref) : c = Forget(pref, {k})
        ELSE c = pref
  BY DEF PrefMadeRoom
<1>5. Cardinality(Keys(pref)) <= PrefCacheSize /\ PrefCacheSize \in Nat \ {0}
  BY DEF WithinLimits
<1> DEFINE e == [ans |-> a, expiresAt |-> now + ttl, testedAt |-> now]
<1>6. Cardinality(Keys([c EXCEPT ![n] = e])) <= PrefCacheSize
  <2> HIDE DEF e
  <2> QED BY <1>2, <1>3, <1>4, <1>5, StoreWithinLimit
<1> QED BY <1>1, <1>6

\* Every other step leaves the keys of a cache alone or loses some of them.
LEMMA FewerKeys ==
    ASSUME NEW c, NEW d, Keys(d) \subseteq Keys(c), NEW limit \in Nat,
           Cardinality(Keys(c)) <= limit
    PROVE  Cardinality(Keys(d)) <= limit
<1>1. Cardinality(Keys(d)) <= Cardinality(Keys(c))  BY KeysFinite, FS_Subset
<1>2. Cardinality(Keys(c)) \in Nat /\ Cardinality(Keys(d)) \in Nat
  BY KeysFinite
<1> QED BY <1>1, <1>2

LEMMA CacheKeysStep ==
    ASSUME CoreInv, [Next]_vars,
           ~ \E p \in Proc : StoreSystem(p)
    PROVE  Keys(cache') \subseteq Keys(cache)
<1> USE DEF CoreInv, TypeOK, CacheTypeOK, Keys, dnsCacheVars
<1>1. CASE \E p \in Proc : TouchEntry(p)
  BY <1>1 DEF TouchEntry, Touch, Live
<1>2. CASE \E p \in Proc : DialFails(p)
  BY <1>2 DEF DialFails, InvalidateCache, Forget
<1>3. CASE CleanCache
  BY <1>3 DEF CleanCache, Sweep, Forget
<1>4. CASE UNCHANGED cache
  BY <1>4
<1> QED
  BY <1>1, <1>2, <1>3, <1>4
  DEF Next, Step, vars, ResolveToAddress, ResolveName, PreferenceHit,
      PreferenceMiss, QueryAAAA, QueryA, FastestFound, FastestGaveUp,
      FastestCancelled, StorePreference, CacheHit, CacheMiss, SystemAnswers,
      SystemFails, InvalidatePref, FinishInvalidate, Return, CleanerStops,
      Close, Tick, Answered, NotAnswered, Unlock

LEMMA PrefKeysStep ==
    ASSUME CoreInv, [Next]_vars,
           ~ \E p \in Proc : StorePreference(p)
    PROVE  Keys(pref') \subseteq Keys(pref)
<1> USE DEF CoreInv, TypeOK, PrefTypeOK, Keys
<1>1. CASE \E p \in Proc : InvalidatePref(p)
  BY <1>1 DEF InvalidatePref, InvalidatePreference, Forget
<1>2. CASE UNCHANGED pref
  BY <1>2
<1> QED
  BY <1>1, <1>2
  DEF Next, Step, vars, ResolveToAddress, ResolveName, PreferenceHit,
      PreferenceMiss, QueryAAAA, QueryA, FastestFound, FastestGaveUp,
      FastestCancelled, CacheHit, CacheMiss, TouchEntry, SystemAnswers,
      SystemFails, StoreSystem, DialFails, FinishInvalidate, Return,
      CleanCache, CleanerStops, Close, Tick, Answered, NotAnswered

LEMMA LimitsStep == CoreInv /\ WithinLimits /\ [Next]_vars => WithinLimits'
<1> SUFFICES ASSUME CoreInv, WithinLimits, [Next]_vars PROVE WithinLimits'
  OBVIOUS
<1>1. Cardinality(Keys(cache')) <= Limit
  <2>1. CASE \E p \in Proc : StoreSystem(p)
    <3>1. PICK p \in Proc : StoreSystem(p)  BY <2>1
    <3>2. Target(p) \in Name
      BY <3>1 DEF StoreSystem, CoreInv, HeldInv
    <3> QED BY <3>1, <3>2, SetCacheWithinLimit DEF StoreSystem
  <2>2. CASE ~ \E p \in Proc : StoreSystem(p)
    BY <2>2, CacheKeysStep, FewerKeys, LimitType DEF WithinLimits
  <2> QED BY <2>1, <2>2
<1>2. PrefCacheSize > 0 => Cardinality(Keys(pref')) <= PrefCacheSize
  <2> SUFFICES ASSUME PrefCacheSize > 0
               PROVE  Cardinality(Keys(pref')) <= PrefCacheSize
    OBVIOUS
  <2>1. CASE \E p \in Proc : StorePreference(p)
    <3>1. PICK p \in Proc : StorePreference(p)  BY <2>1
    <3>2. Target(p) \in Name
      BY <3>1 DEF StorePreference, CoreInv, HeldInv
    <3>3. PICK d \in DnsTTL : PrefSet(Target(p), ans[p], PrefTTL(d))
      BY <3>1 DEF StorePreference, SetPreference
    <3> QED BY <3>2, <3>3, PrefSetWithinLimit
  <2>2. CASE ~ \E p \in Proc : StorePreference(p)
    BY <2>2, PrefKeysStep, FewerKeys DEF WithinLimits
  <2> QED BY <2>1, <2>2
<1>3. Keys(cache)' = Keys(cache') /\ Keys(pref)' = Keys(pref')
  BY DEF Keys
<1> QED BY <1>1, <1>2, <1>3 DEF WithinLimits, Limit

\* Neither cache ever holds more entries than its limit.
THEOREM ResolverWithinLimits == Spec => []WithinLimits
BY CoreInvariant, LimitsInit, LimitsStep, PTL DEF Spec

\* What the runs check as one invariant holds in every state of every instance:
\* types, program points, the mutex, the limits, and whose answer is whose.
THEOREM ResolverInvariant == Spec => []IInv
<1>1. CoreInv /\ WithinLimits => IInv  BY DEF CoreInv, IInv
<1> QED BY <1>1, CoreInvariant, ResolverWithinLimits, PTL

-----------------------------------------------------------------------------
(* Families *)

\* In a mode without IPv6 only A queries lead to the preference cache.
FamilyInv ==
    NoIPv6Query =>
        /\ \A n \in Keys(pref) : pref[n].ans.ip \in IP4
        /\ \A p \in Proc :
              /\ loc[p] \notin {"fast", "q6"}
              /\ loc[p] = "store" => ans[p].ip \in IP4

\* The configuration is read once.
LEMMA ModeFixed == [Next]_vars => mode' = mode
BY DEF Next, Step, vars, bgVars, ResolveToAddress, ResolveName, PreferenceHit,
       PreferenceMiss, QueryAAAA, QueryA, FastestFound, FastestGaveUp,
       FastestCancelled, Answered, NotAnswered, StorePreference, CacheHit,
       CacheMiss, TouchEntry, SystemAnswers, SystemFails, StoreSystem, Return,
       DialFails, InvalidatePref, FinishInvalidate, CleanCache, CleanerStops,
       Close, Tick

LEMMA FamilyStep == CoreInv /\ FamilyInv /\ [Next]_vars => FamilyInv'
<1> SUFFICES ASSUME CoreInv, FamilyInv, [Next]_vars, NoIPv6Query
             PROVE  FamilyInv'
  BY ModeFixed DEF FamilyInv, NoIPv6Query
<1> USE DEF CoreInv, TypeOK, PrefTypeOK, FamilyInv, HeldInv, Keys, GoTo,
            Target, Loc, goVars
<1>1. ASSUME NEW p \in Proc, StorePreference(p) PROVE FamilyInv'
  BY <1>1 DEF StorePreference, SetPreference, PrefSet, PrefMadeRoom, Forget
<1>2. ASSUME NEW p \in Proc, InvalidatePref(p) \/ FinishInvalidate(p)
      PROVE FamilyInv'
  BY <1>2 DEF InvalidatePref, FinishInvalidate, InvalidatePreference, Forget,
              LetGo, Hold
<1>3. ASSUME NEW p \in Proc, PreferenceMiss(p) PROVE FamilyInv'
  BY <1>3 DEF PreferenceMiss, FirstQuery
<1>4. ASSUME NEW p \in Proc, QueryA(p) PROVE FamilyInv'
  BY <1>4 DEF QueryA, Answered, NotAnswered, Hold, Answer
<1>5. ASSUME NEW p \in Proc,
             QueryAAAA(p) \/ FastestFound(p) \/ FastestGaveUp(p)
                \/ FastestCancelled(p)
      PROVE FamilyInv'
  <2>1. loc[p] \in {"fast", "q6"}
    BY <1>5 DEF QueryAAAA, FastestFound, FastestGaveUp, FastestCancelled
  <2> QED BY <2>1
<1>6. ASSUME NEW p \in Proc, NEW h \in Name,
             ResolveToAddress(p, h) \/ ResolveName(p, h)
      PROVE FamilyInv'
  BY <1>6 DEF ResolveToAddress, ResolveName, Hold
<1>7. ASSUME NEW p \in Proc, PreferenceHit(p) \/ SystemAnswers(p) \/ CacheHit(p)
      PROVE FamilyInv'
  BY <1>7 DEF PreferenceHit, SystemAnswers, CacheHit, Hold
<1>8. ASSUME NEW p \in Proc,
             CacheMiss(p) \/ TouchEntry(p) \/ SystemFails(p) \/ StoreSystem(p)
                \/ DialFails(p)
      PROVE FamilyInv'
  BY <1>8 DEF CacheMiss, TouchEntry, SystemFails, StoreSystem, DialFails
<1>9. ASSUME NEW p \in Proc, Return(p) PROVE FamilyInv'
  BY <1>9 DEF Return, LetGo, Hold
<1>10. CASE CleanCache \/ CleanerStops \/ Close \/ Tick \/ UNCHANGED vars
  BY <1>10 DEF CleanCache, CleanerStops, Close, Tick, vars
<1> QED
  BY <1>1, <1>2, <1>3, <1>4, <1>5, <1>6, <1>7, <1>8, <1>9, <1>10
  DEF Next, Step

\* Without IPv6, or in ipv4 mode, no IPv6 address is ever remembered.
THEOREM ResolverPreferenceFamily == Spec => []PreferenceFamily
<1>1. Init => FamilyInv
  BY DEF Init, PrefInit, FamilyInv, Keys
<1>2. FamilyInv => PreferenceFamily
  BY DEF FamilyInv, PreferenceFamily
<1> QED BY <1>1, <1>2, FamilyStep, CoreInvariant, PTL DEF Spec

-----------------------------------------------------------------------------
(* What a step may never do *)

\* A lease begins or grows only where a goroutine stores what it has just
\* looked up for that name: a reader that lost the race between its two locks
\* renews nothing and brings nothing back.
THEOREM ResolverLeaseOnlyFromLookup == Spec => LeaseOnlyFromLookup
<1>1. CoreInv /\ [Next]_vars => LeaseStep
  <2> SUFFICES ASSUME CoreInv, [Next]_vars, NEW n \in Name
               PROVE  /\ LeaseGrows(cache, n) => Stores(n, "setcache", "system")
                      /\ LeaseGrows(pref, n) => Stores(n, "store", "dns")
    BY DEF LeaseStep
  <2> USE DEF CoreInv, TypeOK, CacheTypeOK, PrefTypeOK, CacheEntry, PrefEntry,
              LeaseGrows, HeldInv, Stores
  <2>1. LeaseGrows(cache, n) => Stores(n, "setcache", "system")
    <3>1. ASSUME NEW p \in Proc, StoreSystem(p)
          PROVE  LeaseGrows(cache, n) => Stores(n, "setcache", "system")
      BY <3>1 DEF StoreSystem, SetCache, MadeRoom, Forget, GoTo, Oldest
    <3>2. ASSUME NEW p \in Proc, TouchEntry(p) PROVE ~LeaseGrows(cache, n)
      BY <3>2 DEF TouchEntry, Touch, Live
    <3>3. ASSUME NEW p \in Proc, DialFails(p) PROVE ~LeaseGrows(cache, n)
      BY <3>3 DEF DialFails, InvalidateCache, Forget
    <3>4. CASE CleanCache
      BY <3>4 DEF CleanCache, Sweep, Forget
    <3>5. CASE UNCHANGED cache
      BY <3>5
    <3> QED
      BY <3>1, <3>2, <3>3, <3>4, <3>5
      DEF Next, Step, vars, dnsCacheVars, ResolveToAddress, ResolveName,
          PreferenceHit, PreferenceMiss, QueryAAAA, QueryA, FastestFound,
          FastestGaveUp, FastestCancelled, StorePreference, CacheHit,
          CacheMiss, SystemAnswers, SystemFails, InvalidatePref,
          FinishInvalidate, Return, CleanerStops, Close, Tick, Answered,
          NotAnswered, Unlock
  <2>2. LeaseGrows(pref, n) => Stores(n, "store", "dns")
    <3>1. ASSUME NEW p \in Proc, StorePreference(p)
          PROVE  LeaseGrows(pref, n) => Stores(n, "store", "dns")
      BY <3>1 DEF StorePreference, SetPreference, PrefSet, PrefMadeRoom,
                  Forget, GoTo
    <3>2. ASSUME NEW p \in Proc, InvalidatePref(p) PROVE ~LeaseGrows(pref, n)
      BY <3>2 DEF InvalidatePref, InvalidatePreference, Forget
    <3>3. CASE UNCHANGED pref
      BY <3>3
    <3> QED
      BY <3>1, <3>2, <3>3
      DEF Next, Step, vars, ResolveToAddress, ResolveName, PreferenceHit,
          PreferenceMiss, QueryAAAA, QueryA, FastestFound, FastestGaveUp,
          FastestCancelled, CacheHit, CacheMiss, TouchEntry, SystemAnswers,
          SystemFails, StoreSystem, DialFails, FinishInvalidate, Return,
          CleanCache, CleanerStops, Close, Tick, Answered, NotAnswered
  <2> QED BY <2>1, <2>2
<1> QED BY <1>1, CoreInvariant, PTL DEF Spec, LeaseOnlyFromLookup

\* Only its own deletion of the preference takes a goroutine from "inv".
LEMMA LeavesInv ==
    ASSUME CoreInv, [Next]_vars, NEW p \in Proc, loc[p] = "inv", loc'[p] # "inv"
    PROVE  InvalidatePref(p)
<1>1. ASSUME NEW q \in Proc, InvalidatePref(q) PROVE InvalidatePref(p)
  BY <1>1 DEF CoreInv, TypeOK, InvalidatePref, GoTo
<1>2. \E q \in Proc : InvalidatePref(q)
  BY DEF CoreInv, TypeOK, Next, Step, vars, ResolveToAddress, ResolveName,
         PreferenceHit, PreferenceMiss, QueryAAAA, QueryA, FastestFound,
         FastestGaveUp, FastestCancelled, StorePreference, CacheHit, CacheMiss,
         TouchEntry, SystemAnswers, SystemFails, StoreSystem, FinishInvalidate,
         Return, DialFails, CleanCache, CleanerStops, Close, Tick, Answered,
         NotAnswered, GoTo, goVars
<1> QED BY <1>1, <1>2

\* Until Invalidate unlocks, the system-answer cache stays without the host;
\* and the preference cache gets it back only when another goroutine stores
\* what it fetched for that host.
THEOREM ResolverInvalidatedUnlessStored == Spec => InvalidatedUnlessStored
<1>1. CoreInv /\ [Next]_vars => InvalidateStep
  <2> SUFFICES ASSUME CoreInv, [Next]_vars, NEW p \in Proc,
                      loc[p] \in {"inv", "unlock"}
               PROVE  /\ cache'[host[p]] = None
                      /\ loc'[p] # "inv" /\ pref'[host[p]] # None =>
                            \/ loc[p] = "unlock" /\ pref[host[p]] # None
                            \/ Stores(host[p], "store", "dns")
    BY DEF InvalidateStep
  <2> DEFINE h == host[p]
  <2>1. /\ h \in Name /\ cache[h] = None /\ cacheMu = p
        /\ cache \in [Name -> CacheEntry \cup {None}]
        /\ pref \in [Name -> PrefEntry \cup {None}]
    BY DEF CoreInv, LockInv, TypeOK, CacheTypeOK, PrefTypeOK
  <2>2. cache'[h] = None
    <3>1. \A q \in Proc : ~StoreSystem(q)
      BY <2>1, ResolverAssumption, DnsTypesAssumption DEF StoreSystem, SetCache
    <3>2. Keys(cache') \subseteq Keys(cache)  BY <3>1, CacheKeysStep
    <3> QED BY <2>1, <3>2 DEF Keys
  <2>3. CASE \E q \in Proc : StorePreference(q)
    <3>1. PICK q \in Proc : StorePreference(q)  BY <2>3
    <3>2. q # p  BY <3>1 DEF StorePreference
    <3>3. loc[q] = "store" /\ loc' = [loc EXCEPT ![q] = "done"] /\ via[q] = "dns"
      BY <3>1 DEF StorePreference, GoTo, CoreInv, HeldInv
    <3>4. loc'[p] = loc[p] /\ loc'[q] = "done"
      BY <3>2, <3>3 DEF CoreInv, TypeOK
    <3>5. CASE Target(q) = h
      BY <3>3, <3>4, <3>5, <2>2 DEF Stores
    <3>6. CASE Target(q) # h
      <4>1. pref'[h] # None => pref[h] # None
        BY <2>1, <3>1, <3>6
        DEF StorePreference, SetPreference, PrefSet, PrefMadeRoom, Forget
      <4> QED BY <4>1, <3>4, <2>2
    <3> QED BY <3>5, <3>6
  <2>4. CASE ~ \E q \in Proc : StorePreference(q)
    <3>1. Keys(pref') \subseteq Keys(pref)  BY <2>4, PrefKeysStep
    <3>2. pref'[h] # None => pref[h] # None  BY <2>1, <3>1 DEF Keys
    <3>3. CASE loc[p] = "unlock"  BY <3>2, <3>3, <2>2
    <3>4. CASE loc[p] = "inv" /\ loc'[p] # "inv"
      <4>1. InvalidatePref(p)  BY <3>4, LeavesInv
      <4> QED BY <4>1, <2>1, <2>2 DEF InvalidatePref, InvalidatePreference, Forget
    <3> QED BY <3>3, <3>4, <2>2
  <2> QED BY <2>3, <2>4
<1> QED BY <1>1, CoreInvariant, PTL DEF Spec, InvalidatedUnlessStored

-----------------------------------------------------------------------------
(* Each cache implements TtlStore *)

LEMMA SystemStoreInit == Init => SystemStore!Init
BY DEF Init, CacheInit, SystemStore!Init, Leases, ReadFrom

\* What happens between the moments at which leases begin and are read: some
\* are lost, some goroutines let go of what they read.
LEMMA SystemStoreLoses ==
    ASSUME CoreInv, [Next]_vars,
           now' = now,
           ~ \E p \in Proc : StoreSystem(p),
           ~ \E p \in Proc : CacheHit(p)
    PROVE  SystemStore!Lose
<1> USE DEF CoreInv, TypeOK, CacheTypeOK, CacheEntry
<1>1. \A n \in Name : cache'[n] # None =>
         /\ cache[n] # None
         /\ cache'[n].ans = cache[n].ans
         /\ cache'[n].expiresAt = cache[n].expiresAt
  <2>1. ASSUME NEW p \in Proc, TouchEntry(p) PROVE <1>1!:
    BY <2>1 DEF TouchEntry, Touch, Live
  <2>2. ASSUME NEW p \in Proc, DialFails(p) PROVE <1>1!:
    BY <2>2 DEF DialFails, InvalidateCache, Forget
  <2>3. CASE CleanCache
    BY <2>3 DEF CleanCache, Sweep, Forget
  <2>4. CASE UNCHANGED cache
    BY <2>4
  <2> QED
    BY <2>1, <2>2, <2>3, <2>4
    DEF Next, Step, vars, dnsCacheVars, ResolveToAddress, ResolveName,
        PreferenceHit, PreferenceMiss, QueryAAAA, QueryA, FastestFound,
        FastestGaveUp, FastestCancelled, StorePreference, CacheMiss,
        SystemAnswers, SystemFails, InvalidatePref, FinishInvalidate, Return,
        CleanerStops, Close, Tick, Answered, NotAnswered, Unlock
<1>2. \A p \in Proc : via'[p] = "cache" => via[p] = "cache" /\ ans'[p] = ans[p]
  BY DEF Next, Step, vars, bgVars, goVars, ResolveToAddress, ResolveName,
         PreferenceHit, PreferenceMiss, QueryAAAA, QueryA, FastestFound,
         FastestGaveUp, FastestCancelled, StorePreference, CacheMiss,
         TouchEntry, SystemAnswers, SystemFails, InvalidatePref,
         FinishInvalidate, Return,
         DialFails, CleanCache, CleanerStops, Close, Tick, Answered,
         NotAnswered, LetGo, Hold
<1>3. Leases(cache)' = [n \in Name |-> SystemStore!Kept(n)]
  BY <1>1 DEF Leases, SystemStore!Kept
<1>4. ReadFrom("cache")' =
         [p \in Proc |-> IF ReadFrom("cache")'[p] = None THEN None
                         ELSE ReadFrom("cache")[p]]
  BY <1>2 DEF ReadFrom
<1> QED BY <1>3, <1>4 DEF SystemStore!Lose

LEMMA SystemStoreBegins ==
    ASSUME CoreInv, WithinLimits, NEW p \in Proc, StoreSystem(p)
    PROVE  SystemStore!Begin(Target(p), ans[p], Clamp(SystemTTL))
<1> DEFINE n == Target(p)
           entry == [ans |-> ans[p], expiresAt |-> now + Clamp(SystemTTL),
                     lastAccessed |-> now]
<1> USE DEF CoreInv, TypeOK, CacheTypeOK
<1>1. n \in Name /\ ans[p] \in Answer
  BY DEF StoreSystem, HeldInv
<1>2. PICK c \in MadeRoom(cache) : cache' = [c EXCEPT ![n] = entry]
  BY DEF StoreSystem, SetCache
<1>3. PICK lost \in SUBSET Name : c = Forget(cache, lost)
  <2>1. CASE Cardinality(Keys(cache)) >= Limit
    <3>1. PICK k \in Keys(cache) : c = Forget(cache, {k})
      BY <1>2, <2>1 DEF MadeRoom, Oldest
    <3>2. {k} \in SUBSET Name  BY DEF Keys
    <3> QED BY <3>1, <3>2
  <2>2. CASE ~(Cardinality(Keys(cache)) >= Limit)
    <3>1. c = Forget(cache, {})  BY <1>2, <2>2 DEF MadeRoom, Forget
    <3> QED BY <3>1
  <2> QED BY <2>1, <2>2
<1>4. entry \in CacheEntry
  BY <1>1, TermsType DEF CacheEntry
<1>5. Leases(cache)' =
        [x \in Name |->
            IF x = n THEN [val |-> ans[p], until |-> now + Clamp(SystemTTL)]
            ELSE SystemStore!Kept(x)]
  BY <1>1, <1>2, <1>3, <1>4
  DEF Leases, SystemStore!Kept, Forget, CacheEntry
<1>6. Cardinality(SystemStore!Held(Leases(cache)')) <= Limit
  <2>1. cache' \in [Name -> CacheEntry \cup {None}]
    BY <1>1, <1>2, <1>3, <1>4 DEF Forget
  <2>2. SystemStore!Held(Leases(cache)') = Keys(cache')
    BY <2>1 DEF SystemStore!Held, Leases, Keys, CacheEntry
  <2>3. Cardinality(Keys(cache')) <= Limit
    BY <1>1, SetCacheWithinLimit DEF StoreSystem
  <2> QED BY <2>2, <2>3
<1>7. now' = now /\ ReadFrom("cache")' = ReadFrom("cache")
  BY DEF StoreSystem, ReadFrom
<1> QED BY <1>5, <1>6, <1>7 DEF SystemStore!Begin, SystemStore!Cardinality, Cardinality

LEMMA SystemStoreReads ==
    ASSUME CoreInv, NEW p \in Proc, CacheHit(p)
    PROVE  SystemStore!Read(p, Target(p))
<1> DEFINE n == Target(p)
<1> USE DEF CoreInv, TypeOK, CacheTypeOK, CacheEntry
<1>1. n \in Name /\ cache[n] # None /\ now < cache[n].expiresAt
  BY DEF CacheHit, HeldInv, Hit, Live
<1>2. Leases(cache)[n] = [val |-> cache[n].ans, until |-> cache[n].expiresAt]
  BY <1>1 DEF Leases
<1>3. Leases(cache)[n] # None /\ now <= Leases(cache)[n].until
  BY <1>1, <1>2
<1>4. ReadFrom("cache")' = [ReadFrom("cache") EXCEPT ![p] = cache[n].ans]
  BY DEF CacheHit, Hold, ReadFrom
<1>5. now' = now /\ Leases(cache)' = Leases(cache)
  BY DEF CacheHit, dnsCacheVars, Leases
<1> QED BY <1>2, <1>3, <1>4, <1>5 DEF SystemStore!Read

LEMMA SystemStoreStep ==
    ASSUME CoreInv, WithinLimits, [Next]_vars
    PROVE  [SystemStore!Next]_<<now, Leases(cache), ReadFrom("cache")>>
<1>1. CASE \E p \in Proc : StoreSystem(p)
  <2>1. PICK p \in Proc : StoreSystem(p)  BY <1>1
  <2>2. Target(p) \in Name /\ ans[p] \in Answer
    BY <2>1 DEF StoreSystem, CoreInv, HeldInv, TypeOK
  <2> QED BY <2>1, <2>2, SystemStoreBegins DEF SystemStore!Next
<1>2. CASE \E p \in Proc : CacheHit(p)
  <2>1. PICK p \in Proc : CacheHit(p)  BY <1>2
  <2>2. Target(p) \in Name
    BY <2>1 DEF CacheHit, CoreInv, HeldInv
  <2> QED BY <2>1, <2>2, SystemStoreReads DEF SystemStore!Next
<1>3. CASE Tick
  BY <1>3 DEF Tick, dnsCacheVars, goVars, SystemStore!Next,
              SystemStore!Advance, Leases, ReadFrom
<1>4. CASE ~Tick /\ ~(\E p \in Proc : StoreSystem(p))
                /\ ~(\E p \in Proc : CacheHit(p))
  <2>1. now' = now
    BY <1>4 DEF Next, Step, vars, ResolveToAddress, ResolveName,
         PreferenceHit, PreferenceMiss, QueryAAAA, QueryA, FastestFound,
         FastestGaveUp, FastestCancelled, StorePreference, CacheMiss,
         TouchEntry, SystemAnswers, SystemFails, InvalidatePref,
         FinishInvalidate, Return,
         DialFails, CleanCache, CleanerStops, Close, Answered, NotAnswered
  <2> QED BY <1>4, <2>1, SystemStoreLoses DEF SystemStore!Next
<1> QED BY <1>1, <1>2, <1>3, <1>4

\* The system-answer cache is a bounded store of leases: whatever getCache gives
\* out was read while its lease ran, although its two locks are not one.
THEOREM ResolverSystemCacheIsStore == Spec => SystemCacheIsStore
<1>1. CoreInv /\ WithinLimits /\ [Next]_vars
        => [SystemStore!Next]_<<now, Leases(cache), ReadFrom("cache")>>
  BY SystemStoreStep
<1> QED
  BY SystemStoreInit, <1>1, CoreInvariant, ResolverWithinLimits, PTL
  DEF Spec, SystemCacheIsStore, SystemStore!Spec

-----------------------------------------------------------------------------
LEMMA PreferenceStoreInit == Init => PreferenceStore!Init
BY DEF Init, PrefInit, PreferenceStore!Init, Leases, ReadFrom

LEMMA PreferenceStoreLoses ==
    ASSUME CoreInv, [Next]_vars,
           now' = now,
           ~ \E p \in Proc : StorePreference(p),
           ~ \E p \in Proc : PreferenceHit(p)
    PROVE  PreferenceStore!Lose
<1> USE DEF CoreInv, TypeOK, PrefTypeOK, PrefEntry
<1>1. \A n \in Name : pref'[n] # None => pref[n] # None /\ pref'[n] = pref[n]
  <2>1. ASSUME NEW p \in Proc, InvalidatePref(p) PROVE <1>1!:
    BY <2>1 DEF InvalidatePref, InvalidatePreference, Forget
  <2>2. CASE UNCHANGED pref
    BY <2>2
  <2> QED
    BY <2>1, <2>2
    DEF Next, Step, vars, ResolveToAddress, ResolveName, PreferenceHit,
        PreferenceMiss, QueryAAAA, QueryA, FastestFound, FastestGaveUp,
        FastestCancelled, CacheHit, CacheMiss, TouchEntry, SystemAnswers,
        SystemFails, StoreSystem, DialFails, FinishInvalidate, Return,
        CleanCache, CleanerStops, Close, Tick, Answered, NotAnswered
<1>2. \A p \in Proc : via'[p] = "pref" => via[p] = "pref" /\ ans'[p] = ans[p]
  BY DEF Next, Step, vars, bgVars, goVars, ResolveToAddress, ResolveName,
         PreferenceMiss, QueryAAAA, QueryA, FastestFound, FastestGaveUp,
         FastestCancelled, CacheHit, CacheMiss, TouchEntry, SystemAnswers,
         SystemFails, StoreSystem, InvalidatePref, FinishInvalidate, Return,
         DialFails,
         CleanCache, CleanerStops, Close, Tick, Answered, NotAnswered, LetGo,
         Hold
<1>3. Leases(pref)' = [n \in Name |-> PreferenceStore!Kept(n)]
  BY <1>1 DEF Leases, PreferenceStore!Kept
<1>4. ReadFrom("pref")' =
         [p \in Proc |-> IF ReadFrom("pref")'[p] = None THEN None
                         ELSE ReadFrom("pref")[p]]
  BY <1>2 DEF ReadFrom
<1> QED BY <1>3, <1>4 DEF PreferenceStore!Lose

LEMMA PreferenceStoreBegins ==
    ASSUME CoreInv, WithinLimits, NEW p \in Proc, StorePreference(p)
    PROVE  \E d \in DnsTTL : PreferenceStore!Begin(Target(p), ans[p], PrefTTL(d))
<1> DEFINE n == Target(p)
<1> USE DEF CoreInv, TypeOK, PrefTypeOK
<1>1. n \in Name /\ ans[p] \in Answer
  BY DEF StorePreference, HeldInv
<1>2. PICK d \in DnsTTL : PrefSet(n, ans[p], PrefTTL(d))
  BY DEF StorePreference, SetPreference
<1> DEFINE entry == [ans |-> ans[p], expiresAt |-> now + PrefTTL(d),
                     testedAt |-> now]
<1>3. PICK c \in PrefMadeRoom(pref) : pref' = [c EXCEPT ![n] = entry]
  BY <1>2 DEF PrefSet
<1>4. PICK lost \in SUBSET Name : c = Forget(pref, lost)
  <2>1. CASE PrefCacheSize > 0 /\ Cardinality(Keys(pref)) >= PrefCacheSize
    <3>1. PICK k \in Keys(pref) : c = Forget(pref, {k})
      BY <1>3, <2>1 DEF PrefMadeRoom
    <3>2. {k} \in SUBSET Name  BY DEF Keys
    <3> QED BY <3>1, <3>2
  <2>2. CASE ~(PrefCacheSize > 0 /\ Cardinality(Keys(pref)) >= PrefCacheSize)
    <3>1. c = Forget(pref, {})  BY <1>3, <2>2 DEF PrefMadeRoom, Forget
    <3> QED BY <3>1
  <2> QED BY <2>1, <2>2
<1>5. entry \in PrefEntry
  <2>1. PrefTTL(d) \in Nat  BY TermsType
  <2> QED BY <1>1, <2>1 DEF PrefEntry
<1>6. Leases(pref)' =
        [x \in Name |->
            IF x = n THEN [val |-> ans[p], until |-> now + PrefTTL(d)]
            ELSE PreferenceStore!Kept(x)]
  BY <1>1, <1>3, <1>4, <1>5
  DEF Leases, PreferenceStore!Kept, Forget, PrefEntry
<1>7. PrefCacheSize > 0 =>
        Cardinality(PreferenceStore!Held(Leases(pref)')) <= PrefCacheSize
  <2>1. pref' \in [Name -> PrefEntry \cup {None}]
    BY <1>1, <1>3, <1>4, <1>5 DEF Forget
  <2>2. PreferenceStore!Held(Leases(pref)') = Keys(pref')
    BY <2>1 DEF PreferenceStore!Held, Leases, Keys, PrefEntry
  <2>3. PrefCacheSize > 0 => Cardinality(Keys(pref')) <= PrefCacheSize
    BY <1>1, <1>2, PrefSetWithinLimit
  <2> QED BY <2>2, <2>3
<1>8. now' = now /\ ReadFrom("pref")' = ReadFrom("pref")
  BY DEF StorePreference, ReadFrom
<1>9. PreferenceStore!Begin(n, ans[p], PrefTTL(d))
  BY <1>6, <1>7, <1>8
  DEF PreferenceStore!Begin, PreferenceStore!Cardinality, Cardinality
<1> QED BY <1>2, <1>9

LEMMA PreferenceStoreReads ==
    ASSUME CoreInv, NEW p \in Proc, PreferenceHit(p)
    PROVE  PreferenceStore!Read(p, Target(p))
<1> DEFINE n == Target(p)
<1> USE DEF CoreInv, TypeOK, PrefTypeOK, PrefEntry
<1>1. n \in Name /\ pref[n] # None /\ now <= pref[n].expiresAt
  BY DEF PreferenceHit, HeldInv, PrefLive
<1>2. Leases(pref)[n] = [val |-> pref[n].ans, until |-> pref[n].expiresAt]
  BY <1>1 DEF Leases
<1>3. Leases(pref)[n] # None /\ now <= Leases(pref)[n].until
  BY <1>1, <1>2
<1>4. ReadFrom("pref")' = [ReadFrom("pref") EXCEPT ![p] = pref[n].ans]
  BY DEF PreferenceHit, Hold, ReadFrom
<1>5. now' = now /\ Leases(pref)' = Leases(pref)
  BY DEF PreferenceHit, Leases
<1> QED BY <1>2, <1>3, <1>4, <1>5 DEF PreferenceStore!Read

LEMMA PreferenceStoreStep ==
    ASSUME CoreInv, WithinLimits, [Next]_vars
    PROVE  [PreferenceStore!Next]_<<now, Leases(pref), ReadFrom("pref")>>
<1>1. CASE \E p \in Proc : StorePreference(p)
  <2>1. PICK p \in Proc : StorePreference(p)  BY <1>1
  <2>2. Target(p) \in Name /\ ans[p] \in Answer
    BY <2>1 DEF StorePreference, CoreInv, HeldInv, TypeOK
  <2>3. PICK d \in DnsTTL :
           PreferenceStore!Begin(Target(p), ans[p], PrefTTL(d))
    BY <2>1, PreferenceStoreBegins
  <2> QED BY <2>2, <2>3 DEF PreferenceStore!Next
<1>2. CASE \E p \in Proc : PreferenceHit(p)
  <2>1. PICK p \in Proc : PreferenceHit(p)  BY <1>2
  <2>2. Target(p) \in Name
    BY <2>1 DEF PreferenceHit, CoreInv, HeldInv
  <2> QED BY <2>1, <2>2, PreferenceStoreReads DEF PreferenceStore!Next
<1>3. CASE Tick
  BY <1>3 DEF Tick, goVars, PreferenceStore!Next, PreferenceStore!Advance,
              Leases, ReadFrom
<1>4. CASE ~Tick /\ ~(\E p \in Proc : StorePreference(p))
                /\ ~(\E p \in Proc : PreferenceHit(p))
  <2>1. now' = now
    BY <1>4 DEF Next, Step, vars, ResolveToAddress, ResolveName,
         PreferenceMiss, QueryAAAA, QueryA, FastestFound, FastestGaveUp,
         FastestCancelled, CacheHit, CacheMiss, TouchEntry, SystemAnswers,
         SystemFails, StoreSystem, InvalidatePref, FinishInvalidate, Return,
         DialFails,
         CleanCache, CleanerStops, Close, Answered, NotAnswered
  <2> QED BY <1>4, <2>1, PreferenceStoreLoses DEF PreferenceStore!Next
<1> QED BY <1>1, <1>2, <1>3, <1>4

\* The preference cache, too, is a bounded store of leases, although it evicts
\* at random and its TTLs are computed in three ways.
THEOREM ResolverPreferenceCacheIsStore == Spec => PreferenceCacheIsStore
<1>1. CoreInv /\ WithinLimits /\ [Next]_vars
        => [PreferenceStore!Next]_<<now, Leases(pref), ReadFrom("pref")>>
  BY PreferenceStoreStep
<1> QED
  BY PreferenceStoreInit, <1>1, CoreInvariant, ResolverWithinLimits, PTL
  DEF Spec, PreferenceCacheIsStore, PreferenceStore!Spec
=============================================================================
