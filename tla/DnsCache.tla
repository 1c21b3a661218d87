------------------------------ MODULE DnsCache ------------------------------
(***************************************************************************)
(* Resolver.cache of internal/dns/resolver_base.go: the LRU cache of       *)
(* system-DNS answers, and the mutex cacheMu that guards it.  The program  *)
(* writes it only under query type 0 (line 190), so a key is a name.       *)
(*                                                                         *)
(* The critical sections of getCache (one under the read lock, one under   *)
(* the write lock), setCache and cleanCacheRoutine are single actions.     *)
(* Invalidate keeps cacheMu while it turns to the preference cache, so it  *)
(* is two actions and cacheMu remembers who is between them.               *)
(***************************************************************************)
EXTENDS DnsTypes

CONSTANTS
    Proc,           \* goroutines that call the resolver
    DNSCacheSize,   \* Limit.DNSCacheSize
    DefaultLimit,   \* the limit used when DNSCacheSize <= 0 (10000)
    MinTTL, MaxTTL  \* the bounds setCache puts on a TTL (60 and 86400 s)

ASSUME DnsCacheAssumption ==
    /\ DNSCacheSize \in Nat
    /\ DefaultLimit \in Nat \ {0}
    /\ MinTTL \in Nat /\ MaxTTL \in Nat
    /\ None \notin Proc

VARIABLES
    cache,      \* name -> entry or None
    cacheMu     \* the goroutine inside Invalidate, or None

CacheEntry == [ans : Answer, expiresAt : Nat, lastAccessed : Nat]

CacheTypeOK ==
    /\ cache \in [Name -> CacheEntry \cup {None}]
    /\ cacheMu \in Proc \cup {None}

CacheInit ==
    /\ cache = [n \in Name |-> None]
    /\ cacheMu = None

Limit == IF DNSCacheSize > 0 THEN DNSCacheSize ELSE DefaultLimit

\* Mutation of Live: the expiry is left to the clean-up goroutine.
LiveWhenPresent(e) == e # None

\* The lease an entry can still be served under.
Live(e) == e # None /\ now < e.expiresAt

\* getCache, under RLock: the entry is copied out, or this is a miss.
Hit(n)  == cacheMu = None /\ Live(cache[n])
Miss(n) == cacheMu = None /\ ~Live(cache[n])

\* Mutation of Touch: a hit starts the lease again.
TouchRenews(n) ==
    /\ cacheMu = None
    /\ cache' = IF Live(cache[n])
                  THEN [cache EXCEPT ![n] = [@ EXCEPT !.lastAccessed = now,
                                                      !.expiresAt = now + MaxTTL]]
                  ELSE cache
    /\ UNCHANGED cacheMu

\* getCache, under Lock: the entry is looked up again, and only one that is
\* still there and still live has its lastAccessed moved.
Touch(n) ==
    /\ cacheMu = None
    /\ cache' = IF Live(cache[n])
                  THEN [cache EXCEPT ![n] = [@ EXCEPT !.lastAccessed = now]]
                  ELSE cache
    /\ UNCHANGED cacheMu

\* The entries that "v.lastAccessed.Before(oldestTime)" may leave selected:
\* equal times are told apart by the iteration order of the Go map.
Oldest(c) ==
    {n \in Keys(c) : \A m \in Keys(c) : c[n].lastAccessed <= c[m].lastAccessed}

\* Mutation of MadeRoom: room is made one entry too late.
MadeRoomLate(c) ==
    IF Cardinality(Keys(c)) > Limit
      THEN {Forget(c, {n}) : n \in Oldest(c)}
      ELSE {c}

\* setCache makes room even when it is about to overwrite a key.
MadeRoom(c) ==
    IF Cardinality(Keys(c)) >= Limit
      THEN {Forget(c, {n}) : n \in Oldest(c)}
      ELSE {c}

Clamp(ttl) == LET least == IF ttl = 0 THEN MinTTL ELSE ttl
              IN  IF least > MaxTTL THEN MaxTTL ELSE least

\* Mutation of SetCache: the write does not wait for cacheMu.
SetCacheUnlocked(n, a, ttl) ==
    /\ \E c \in MadeRoom(cache) :
          cache' = [c EXCEPT ![n] = [ans |-> a, expiresAt |-> now + Clamp(ttl),
                                     lastAccessed |-> now]]
    /\ UNCHANGED cacheMu

SetCache(n, a, ttl) ==
    /\ cacheMu = None
    /\ \E c \in MadeRoom(cache) :
          cache' = [c EXCEPT ![n] = [ans |-> a, expiresAt |-> now + Clamp(ttl),
                                     lastAccessed |-> now]]
    /\ UNCHANGED cacheMu

\* Mutation of Sweep: the comparison is the wrong way round.
SweepLive ==
    /\ cacheMu = None
    /\ cache' = Forget(cache, {n \in Keys(cache) : now < cache[n].expiresAt})
    /\ UNCHANGED cacheMu

\* One ticker firing of cleanCacheRoutine.
Sweep ==
    /\ cacheMu = None
    /\ cache' = Forget(cache, {n \in Keys(cache) : now > cache[n].expiresAt})
    /\ UNCHANGED cacheMu

\* Mutation of InvalidateCache: cacheMu is released after the deletions.
InvalidateCacheReleases(p, n) ==
    /\ cacheMu = None
    /\ cacheMu' = None
    /\ cache' = Forget(cache, {n})

\* The first half of Invalidate: lock, delete.
InvalidateCache(p, n) ==
    /\ cacheMu = None
    /\ cacheMu' = p
    /\ cache' = Forget(cache, {n})

\* Mutation of Unlock: it is forgotten.
UnlockForgotten(p) ==
    /\ cacheMu = p
    /\ UNCHANGED <<cache, cacheMu>>

\* Its deferred Unlock.
Unlock(p) ==
    /\ cacheMu = p
    /\ cacheMu' = None
    /\ UNCHANGED cache
=============================================================================
