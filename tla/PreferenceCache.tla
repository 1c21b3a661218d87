--------------------------- MODULE PreferenceCache ---------------------------
(***************************************************************************)
(* preferenceCache of internal/dns/resolver_preference.go, and the TTL     *)
(* that Resolver.setPreference gives its entries.  Every method holds the  *)
(* cache's own mutex from start to end, so each is one action.  clear and  *)
(* stats are called by tests only.                                         *)
(***************************************************************************)
EXTENDS DnsTypes

CONSTANTS
    PrefCacheSize,  \* Preference.CacheSize; 0 is "unlimited"
    CacheTTL,       \* Preference.CacheTTL in units of time; 0 is "half the DNS TTL"
    DefaultPrefTTL  \* the TTL when both are 0 (300 s)

ASSUME PreferenceCacheAssumption ==
    /\ PrefCacheSize \in Nat
    /\ CacheTTL \in Nat
    /\ DefaultPrefTTL \in Nat

VARIABLE pref   \* name -> entry or None

PrefEntry == [ans : Answer, expiresAt : Nat, testedAt : Nat]

PrefTypeOK == pref \in [Name -> PrefEntry \cup {None}]

PrefInit == pref = [n \in Name |-> None]

\* Mutation of PrefLive: get does not look at expiresAt.
PrefLiveWhenPresent(e) == e # None

\* get: an entry is served up to and including the instant it expires.
PrefLive(e) == e # None /\ now <= e.expiresAt

\* set, at the limit: a random entry goes, even when the host has one already.
PrefMadeRoom(c) ==
    IF PrefCacheSize > 0 /\ Cardinality(Keys(c)) >= PrefCacheSize
      THEN {Forget(c, {n}) : n \in Keys(c)}
      ELSE {c}

PrefSet(n, a, ttl) ==
    \E c \in PrefMadeRoom(pref) :
        pref' = [c EXCEPT ![n] = [ans |-> a, expiresAt |-> now + ttl,
                                  testedAt |-> now]]

\* A DNS TTL of d seconds is 2*d units; its half is d units.
PrefTTL(d) == IF CacheTTL > 0 THEN CacheTTL
              ELSE IF d > 0 THEN d ELSE DefaultPrefTTL

SetPreference(n, a, d) == PrefSet(n, a, PrefTTL(d))

InvalidatePreference(n) == pref' = Forget(pref, {n})
=============================================================================
