------------------------------ MODULE Resolver ------------------------------
(***************************************************************************)
(* internal/dns/resolver_base.go: goroutines in Resolve and Invalidate,    *)
(* the clean-up goroutine and Close, over the system-answer cache and the  *)
(* preference cache.                                                       *)
(*                                                                         *)
(* A goroutine p follows the code's program points:                        *)
(*   "idle"    not in the resolver                                         *)
(*   "pref"    about to read the preference cache                          *)
(*   "fast"    gathering addresses and timing them (resolveFastest)        *)
(*   "q6","q4" an AAAA or A query is with the upstreams                    *)
(*   "store"   holds a fresh answer it is about to setPreference           *)
(*   "sys"     about to read the system-answer cache                       *)
(*   "touch"   getCache between its read lock and its write lock           *)
(*   "lookup"  the operating system's resolver has been asked              *)
(*   "setcache" holds its answer, about to setCache                        *)
(*   "done"    Resolve has returned; the caller holds the result           *)
(*   "inv"     in Invalidate, cacheMu held, preference not yet deleted     *)
(*   "unlock"  in Invalidate, cacheMu held, preference deleted             *)
(*                                                                         *)
(* cacheMu is a variable because Invalidate keeps it across a call.  The   *)
(* methods of the preference cache call nothing under their mutex, so each *)
(* is one step and that mutex is no variable.                              *)
(***************************************************************************)
EXTENDS DnsCache, PreferenceCache

CONSTANTS
    HostRule,   \* [Name -> Name \cup IP]: Rules.GetHost, the name itself if none
    HasBackend, \* are upstream name servers configured?
    IPv6,       \* Config.IPv6
    Modes,      \* bound: the modes considered
    SystemTTL,  \* TTL of a system answer (300 s)
    DnsTTL      \* bound: the TTLs that DNS answers carry

ASSUME ResolverAssumption ==
    /\ HostRule \in [Name -> Name \cup IP]
    /\ HasBackend \in BOOLEAN
    /\ IPv6 \in BOOLEAN
    /\ Modes \subseteq {"standard", "ipv6", "ipv4", "fastest"}
    /\ SystemTTL \in Nat
    /\ DnsTTL \subseteq Nat
    /\ None \notin [val : Answer, until : Nat]

VARIABLES
    mode,       \* Config.Preference.Mode, fixed
    loc,        \* goroutine -> program point
    host,       \* goroutine -> the host it was asked about
    ans,        \* goroutine -> the answer it holds, or None
    via,        \* goroutine -> where that answer came from (history)
    remember,   \* goroutine -> does a fresh answer go to the preference cache?
    cleaner,    \* the clean-up goroutine: "running" or "exited"
    stopped     \* has stopChan been closed?

goVars   == <<loc, host, ans, via, remember>>
bgVars   == <<mode, cleaner, stopped>>
dnsCacheVars == <<cache, cacheMu>>
vars     == <<now, cache, cacheMu, pref, loc, host, ans, via, remember,
              mode, cleaner, stopped>>

Loc == {"idle", "pref", "fast", "q6", "q4", "store", "sys", "touch",
        "lookup", "setcache", "done", "inv", "unlock"}
Via == {"none", "rule", "pref", "dns", "cache", "system"}

\* Every variable has its type; a goroutine has a host while it is called.
TypeOK ==
    /\ now \in Nat
    /\ CacheTypeOK
    /\ PrefTypeOK
    /\ loc \in [Proc -> Loc]
    /\ host \in [Proc -> Name \cup {None}]
    /\ \A p \in Proc : loc[p] # "idle" => host[p] \in Name
    /\ ans \in [Proc -> Answer \cup {None}]
    /\ via \in [Proc -> Via]
    /\ remember \in [Proc -> BOOLEAN]
    /\ mode \in Modes
    /\ cleaner \in {"running", "exited"}
    /\ stopped \in BOOLEAN

Init ==
    /\ now = 0
    /\ mode \in Modes
    /\ CacheInit
    /\ PrefInit
    /\ loc = [p \in Proc |-> "idle"]
    /\ host = [p \in Proc |-> None]
    /\ ans = [p \in Proc |-> None]
    /\ via = [p \in Proc |-> "none"]
    /\ remember = [p \in Proc |-> FALSE]
    /\ cleaner = "running"
    /\ stopped = FALSE

Target(p) == HostRule[host[p]]

GoTo(p, l) == loc' = [loc EXCEPT ![p] = l]

Hold(p, a, v) ==
    /\ ans' = [ans EXCEPT ![p] = a]
    /\ via' = [via EXCEPT ![p] = v]

-----------------------------------------------------------------------------
(* Resolve *)

\* A rule may map the host to an address (or the host may be one): no lookup.
ResolveToAddress(p, h) ==
    /\ loc[p] = "idle"
    /\ HostRule[h] \in IP
    /\ host' = [host EXCEPT ![p] = h]
    /\ GoTo(p, "done")
    /\ Hold(p, [ip |-> HostRule[h], name |-> h], "rule")
    /\ UNCHANGED <<now, dnsCacheVars, pref, remember, bgVars>>

ResolveName(p, h) ==
    /\ loc[p] = "idle"
    /\ HostRule[h] \notin IP
    /\ host' = [host EXCEPT ![p] = h]
    /\ GoTo(p, IF HasBackend THEN "pref" ELSE "sys")
    /\ UNCHANGED <<now, dnsCacheVars, pref, ans, via, remember, bgVars>>

PreferenceHit(p) ==
    /\ loc[p] = "pref"
    /\ PrefLive(pref[Target(p)])
    /\ GoTo(p, "done")
    /\ Hold(p, pref[Target(p)].ans, "pref")
    /\ UNCHANGED <<now, dnsCacheVars, pref, host, remember, bgVars>>

\* resolveStandard asks for AAAA first when IPv6 is on.
StandardQuery == IF IPv6 THEN "q6" ELSE "q4"

NoIPv6Query == ~IPv6 \/ mode = "ipv4"

\* Mutation of FirstQuery: mode ipv4 is treated like any other.
FirstQueryIgnoresMode ==
    IF mode = "fastest" THEN "fast" ELSE StandardQuery

FirstQuery ==
    IF NoIPv6Query THEN "q4"
    ELSE IF mode = "fastest" THEN "fast"
    ELSE StandardQuery

PreferenceMiss(p) ==
    /\ loc[p] = "pref"
    /\ ~PrefLive(pref[Target(p)])
    /\ GoTo(p, FirstQuery)
    /\ remember' = [remember EXCEPT ![p] = TRUE]
    /\ UNCHANGED <<now, dnsCacheVars, pref, host, ans, via, bgVars>>

\* lookupType returns the first record of the family it asked for.
Answered(p, family) ==
    /\ \E ip \in family : Hold(p, [ip |-> ip, name |-> Target(p)], "dns")
    /\ GoTo(p, IF remember[p] THEN "store" ELSE "done")
    /\ UNCHANGED <<now, dnsCacheVars, pref, host, remember, bgVars>>

NotAnswered(p, next) ==
    /\ GoTo(p, next)
    /\ UNCHANGED <<now, dnsCacheVars, pref, host, ans, via, remember, bgVars>>

QueryAAAA(p) ==
    /\ loc[p] = "q6"
    /\ Answered(p, IP6) \/ NotAnswered(p, "q4")

\* When A fails too, Resolve falls back to the system resolver.
QueryA(p) ==
    /\ loc[p] = "q4"
    /\ Answered(p, IP4) \/ NotAnswered(p, "sys")

\* resolveFastest found addresses and at least one answered the timing test.
FastestFound(p) ==
    /\ loc[p] = "fast"
    /\ Answered(p, IP)

\* No addresses, or every test failed: the standard queries are made, and
\* what they return is not remembered.
FastestGaveUp(p) ==
    /\ loc[p] = "fast"
    /\ GoTo(p, StandardQuery)
    /\ remember' = [remember EXCEPT ![p] = FALSE]
    /\ UNCHANGED <<now, dnsCacheVars, pref, host, ans, via, bgVars>>

\* The caller's context ended while resolveFastest was gathering addresses.
FastestCancelled(p) ==
    /\ loc[p] = "fast"
    /\ NotAnswered(p, "sys")

\* Mutation of StorePreference: the preference is keyed by the host that was
\* asked for, not by the name its rule maps it to.
StorePreferenceUnderHost(p) ==
    /\ loc[p] = "store"
    /\ \E d \in DnsTTL : SetPreference(host[p], ans[p], d)
    /\ GoTo(p, "done")
    /\ UNCHANGED <<now, dnsCacheVars, host, ans, via, remember, bgVars>>

StorePreference(p) ==
    /\ loc[p] = "store"
    /\ \E d \in DnsTTL : SetPreference(Target(p), ans[p], d)
    /\ GoTo(p, "done")
    /\ UNCHANGED <<now, dnsCacheVars, host, ans, via, remember, bgVars>>

-----------------------------------------------------------------------------
(* resolveSystem *)

CacheHit(p) ==
    /\ loc[p] = "sys"
    /\ Hit(Target(p))
    /\ GoTo(p, "touch")
    /\ Hold(p, cache[Target(p)].ans, "cache")
    /\ UNCHANGED <<now, dnsCacheVars, pref, host, remember, bgVars>>

CacheMiss(p) ==
    /\ loc[p] = "sys"
    /\ Miss(Target(p))
    /\ GoTo(p, "lookup")
    /\ UNCHANGED <<now, dnsCacheVars, pref, host, ans, via, remember, bgVars>>

\* The answer copied out under the read lock is returned whatever Touch finds.
TouchEntry(p) ==
    /\ loc[p] = "touch"
    /\ Touch(Target(p))
    /\ GoTo(p, "done")
    /\ UNCHANGED <<now, pref, host, ans, via, remember, bgVars>>

\* The first address, or the first IPv6 one if there is any and IPv6 is on.
Selectable(ips) ==
    IF IPv6 /\ ips \cap IP6 # {} THEN ips \cap IP6 ELSE ips

SystemAnswers(p) ==
    /\ loc[p] = "lookup"
    /\ \E ips \in SUBSET IP : \E ip \in Selectable(ips) :
          Hold(p, [ip |-> ip, name |-> Target(p)], "system")
    /\ GoTo(p, "setcache")
    /\ UNCHANGED <<now, dnsCacheVars, pref, host, remember, bgVars>>

SystemFails(p) ==
    /\ loc[p] = "lookup"
    /\ GoTo(p, "done")
    /\ UNCHANGED <<now, dnsCacheVars, pref, host, ans, via, remember, bgVars>>

StoreSystem(p) ==
    /\ loc[p] = "setcache"
    /\ SetCache(Target(p), ans[p], SystemTTL)
    /\ GoTo(p, "done")
    /\ UNCHANGED <<now, pref, host, ans, via, remember, bgVars>>

-----------------------------------------------------------------------------
(* The callers: connectToRemote and upstream Get dial what they are given and
   Invalidate the host when that fails; directTunnel only dials. *)

LetGo(p) ==
    /\ Hold(p, None, "none")
    /\ host' = [host EXCEPT ![p] = None]
    /\ remember' = [remember EXCEPT ![p] = FALSE]

Return(p) ==
    /\ loc[p] = "done"
    /\ GoTo(p, "idle")
    /\ LetGo(p)
    /\ UNCHANGED <<now, dnsCacheVars, pref, bgVars>>

DialFails(p) ==
    /\ loc[p] = "done"
    /\ ans[p] # None
    /\ InvalidateCache(p, host[p])
    /\ GoTo(p, "inv")
    /\ UNCHANGED <<now, pref, host, ans, via, remember, bgVars>>

\* The preference cache's own mutex is free again when this step ends.
InvalidatePref(p) ==
    /\ loc[p] = "inv"
    /\ InvalidatePreference(host[p])
    /\ GoTo(p, "unlock")
    /\ UNCHANGED <<now, dnsCacheVars, host, ans, via, remember, bgVars>>

FinishInvalidate(p) ==
    /\ loc[p] = "unlock"
    /\ Unlock(p)
    /\ GoTo(p, "idle")
    /\ LetGo(p)
    /\ UNCHANGED <<now, pref, bgVars>>

-----------------------------------------------------------------------------
(* cleanCacheRoutine and Close *)

\* With both channels ready select may still take the ticker's case.
CleanCache ==
    /\ cleaner = "running"
    /\ Sweep
    /\ UNCHANGED <<now, pref, goVars, bgVars>>

CleanerStops ==
    /\ cleaner = "running"
    /\ stopped
    /\ cleaner' = "exited"
    /\ UNCHANGED <<now, dnsCacheVars, pref, goVars, mode, stopped>>

\* A second Close would panic; its owner, the container, calls it once.
Close ==
    /\ ~stopped
    /\ stopped' = TRUE
    /\ UNCHANGED <<now, dnsCacheVars, pref, goVars, mode, cleaner>>

Tick ==
    /\ now < MaxNow
    /\ now' = now + 1
    /\ UNCHANGED <<dnsCacheVars, pref, goVars, bgVars>>

-----------------------------------------------------------------------------
\* What the resolver does by itself once it has been called.
Step(p) ==
    \/ PreferenceHit(p) \/ PreferenceMiss(p)
    \/ QueryAAAA(p) \/ QueryA(p)
    \/ FastestFound(p) \/ FastestGaveUp(p) \/ FastestCancelled(p)
    \/ StorePreference(p)
    \/ CacheHit(p) \/ CacheMiss(p) \/ TouchEntry(p)
    \/ SystemAnswers(p) \/ SystemFails(p) \/ StoreSystem(p)
    \/ InvalidatePref(p) \/ FinishInvalidate(p)

Next ==
    \/ \E p \in Proc :
          \/ \E h \in Name : ResolveToAddress(p, h) \/ ResolveName(p, h)
          \/ Step(p)
          \/ Return(p)
          \/ DialFails(p)
    \/ CleanCache \/ CleanerStops \/ Close
    \/ Tick

Spec == Init /\ [][Next]_vars

(***************************************************************************)
(* Fairness.  A goroutine in the resolver keeps running: its locks are     *)
(* held for bounded sections, its queries and dials end with their own     *)
(* timeouts.  It competes for cacheMu with the others; Go hands a mutex    *)
(* that a waiter has starved for to that waiter, which is strong fairness. *)
(* The ticker of cleanCacheRoutine fires every ten minutes, and select     *)
(* picks at random among ready cases, so a closed stopChan is noticed.     *)
(***************************************************************************)
Fairness ==
    /\ \A p \in Proc : SF_vars(Step(p))
    /\ SF_vars(CleanCache)
    /\ WF_vars(CleanerStops)

FairSpec == Spec /\ Fairness
-----------------------------------------------------------------------------
(* Properties *)

\* What each program point says of the goroutine there: who holds an answer and
\* from where, and that a lookup in progress is for a name.
HeldInv == \A p \in Proc :
    /\ loc[p] \in {"idle", "pref", "fast", "q6", "q4", "sys", "lookup"} =>
          ans[p] = None /\ via[p] = "none"
    /\ loc[p] = "store"    => ans[p] # None /\ via[p] = "dns"
    /\ loc[p] = "touch"    => ans[p] # None /\ via[p] = "cache"
    /\ loc[p] = "setcache" => ans[p] # None /\ via[p] = "system"
    /\ loc[p] = "done"     => (ans[p] = None <=> via[p] = "none")
    /\ loc[p] \in {"inv", "unlock"} => ans[p] # None /\ via[p] # "none"
    /\ loc[p] \notin {"idle", "done", "inv", "unlock"} => Target(p) \in Name

\* cacheMu is held exactly by the goroutine inside Invalidate, and as long as
\* it is, what that goroutine deleted stays deleted.
LockInv == \A p \in Proc :
    /\ loc[p] \in {"inv", "unlock"} <=> cacheMu = p
    /\ loc[p] \in {"inv", "unlock"} => cache[host[p]] = None

\* Neither cache ever outgrows its configured limit, however lookups, touches
\* and evictions of several goroutines interleave (setCache, set).
WithinLimits ==
    /\ Cardinality(Keys(cache)) <= Limit
    /\ PrefCacheSize > 0 => Cardinality(Keys(pref)) <= PrefCacheSize

\* An address is only ever stored and handed out under the name it was looked
\* up for: rules rename hosts before the caches are keyed, and another host
\* may be mapped to a name this one is mapped away from.
AnswersOwnTarget ==
    /\ \A n \in Keys(cache) : cache[n].ans.name = n
    /\ \A n \in Keys(pref) : pref[n].ans.name = n
    /\ \A p \in Proc : ans[p] # None =>
          IF via[p] = "rule" THEN ans[p].ip = HostRule[host[p]]
          ELSE ans[p].name = Target(p)

\* With IPv6 off, or in ipv4 mode, no IPv6 address gets into the preference
\* cache, from where it would be served for the whole of its TTL.
PreferenceFamily ==
    NoIPv6Query => \A n \in Keys(pref) : pref[n].ans.ip \in IP4

\* config.toml:102 says of mode ipv4 "Force IPv4 only"; an address that a rule
\* gives is not the mode's business.
Ipv4ModeForcesIpv4 ==
    mode = "ipv4" => \A p \in Proc :
        ans[p] # None /\ via[p] # "rule" => ans[p].ip \in IP4

LeaseGrows(c, n) ==
    /\ c[n]' # None
    /\ \/ c[n] = None
       \/ c[n]'.ans # c[n].ans
       \/ c[n]'.expiresAt > c[n].expiresAt

Stores(n, here, source) ==
    \E p \in Proc : loc[p] = here /\ Target(p) = n
                   /\ loc'[p] = "done" /\ via[p] = source

LeaseStep == \A n \in Name :
    /\ LeaseGrows(cache, n) => Stores(n, "setcache", "system")
    /\ LeaseGrows(pref, n) => Stores(n, "store", "dns")

\* An entry appears, changes its address or lives longer only in the
\* step in which a goroutine that has just asked the network about that very
\* name stores its answer.  Readers renew nothing and bring nothing back.
LeaseOnlyFromLookup == [][LeaseStep]_vars

\* From the deletion of p's host to the step that unlocks cacheMu.
InvalidateStep == \A p \in Proc : loc[p] \in {"inv", "unlock"} =>
    /\ cache'[host[p]] = None
    /\ loc'[p] # "inv" /\ pref'[host[p]] # None =>
          \/ loc[p] = "unlock" /\ pref[host[p]] # None
          \/ Stores(host[p], "store", "dns")

\* What Invalidate(h) deletes is gone from the system-answer cache until it
\* unlocks, even if another goroutine is in the middle of getCache or waits in
\* setCache.  The preference cache is not covered by cacheMu: there h can be
\* back before Invalidate returns, but only with an answer that another
\* goroutine fetched for h and stores after the deletion.
InvalidatedUnlessStored == [][InvalidateStep]_vars

\* resolver_base.go:608 reports "Cache invalidated for" the host, and
\* resolver_preference_test.go:335 asks that "After invalidation, cache should
\* be empty": after the last deletion the name that the host resolves through
\* is then in neither cache.
InvalidateReachesTarget ==
    [][\A p \in Proc : loc[p] = "inv" /\ loc'[p] = "unlock" /\ Target(p) \in Name =>
          cache'[Target(p)] = None /\ pref'[Target(p)] = None]_vars

\* Together they are inductive.
IInv ==
    /\ TypeOK /\ HeldInv /\ LockInv
    /\ WithinLimits /\ AnswersOwnTarget

\* Every call of Resolve or Invalidate returns to its caller.
ResolveReturns == \A p \in Proc :
    loc[p] \notin {"idle", "done"} ~> loc[p] \in {"idle", "done"}

\* Until Close, an expired system answer does not stay in memory for ever.
ExpiredIsSwept == \A n \in {HostRule[h] : h \in Name} \cap Name :
    (cache[n] # None /\ now > cache[n].expiresAt)
        ~> (cache[n] = None \/ now <= cache[n].expiresAt \/ stopped)

-----------------------------------------------------------------------------
(* Each cache implements a bounded store of leases; what getCache and get give
   out is a value read from it while its lease ran. *)

Leases(c) == [n \in Name |->
    IF c[n] = None THEN None
    ELSE [val |-> c[n].ans, until |-> c[n].expiresAt]]

ReadFrom(source) == [p \in Proc |-> IF via[p] = source THEN ans[p] ELSE None]

SystemStore == INSTANCE TtlStore WITH
    Key <- Name, Value <- Answer, Client <- Proc,
    Terms <- {Clamp(SystemTTL)}, Capacity <- Limit, Nothing <- None,
    kept <- Leases(cache), read <- ReadFrom("cache")

PreferenceStore == INSTANCE TtlStore WITH
    Key <- Name, Value <- Answer, Client <- Proc,
    Terms <- {PrefTTL(d) : d \in DnsTTL}, Capacity <- PrefCacheSize,
    Nothing <- None, kept <- Leases(pref), read <- ReadFrom("pref")

\* The system-answer cache (getCache, setCache, cleanCacheRoutine, Invalidate)
\* keeps the promise of a bounded store of leases.
SystemCacheIsStore == SystemStore!Spec

\* So does the preference cache.
PreferenceCacheIsStore == PreferenceStore!Spec
=============================================================================
