------------------------------ MODULE DnsTypes ------------------------------
(***************************************************************************)
(* What the two caches of internal/dns and the resolver that uses them     *)
(* share: names, addresses, answers and the clock that time.Now() reads.   *)
(* One unit of time is half a second, because setPreference works in       *)
(* halves of a DNS TTL.                                                    *)
(***************************************************************************)
EXTENDS Naturals, FiniteSets

CONSTANTS
    Name,       \* names that reach the caches: hosts and what rules map them to
    IP4, IP6,   \* addresses of the two families
    None,       \* "no entry" in a cache, "no answer" (a Go error) in a goroutine
    MaxNow      \* bound: the clock stops here

IP == IP4 \cup IP6

\* An address together with the name it was looked up for.  The program keeps
\* only the address; `name` is history, so that the properties can tell an
\* address of one name from the same address of another.
Answer == [ip : IP, name : Name]

ASSUME DnsTypesAssumption ==
    /\ IsFiniteSet(Name)
    /\ IP4 \cap IP6 = {}
    /\ None \notin Answer
    /\ None \notin [ans : Answer, expiresAt : Nat, lastAccessed : Nat]
    /\ None \notin [ans : Answer, expiresAt : Nat, testedAt : Nat]
    /\ MaxNow \in Nat

VARIABLE now

\* The keys a cache has an entry for: the keys of the Go map.
Keys(c) == {n \in Name : c[n] # None}

Forget(c, names) == [n \in Name |-> IF n \in names THEN None ELSE c[n]]
=============================================================================
