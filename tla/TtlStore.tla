------------------------------ MODULE TtlStore ------------------------------
(***************************************************************************)
(* What a DNS cache promises, whatever it does with locks, recency or      *)
(* eviction: a bounded set of leases.  A lease begins with a value learnt  *)
(* elsewhere and a term from Terms, is never changed or extended, can be   *)
(* lost at any moment, and is read only while its term runs.               *)
(***************************************************************************)
EXTENDS Naturals, FiniteSets

CONSTANTS
    Key, Value, Client,
    Terms,      \* the terms a lease may be given
    Capacity,   \* the most leases kept at once; 0 is "no limit"
    Nothing     \* no lease, nothing read

VARIABLES
    now,
    kept,       \* key -> [val, until] or Nothing
    read        \* client -> the value it read and still uses, or Nothing

Held(k) == {x \in Key : k[x] # Nothing}

Init ==
    /\ now = 0
    /\ kept = [k \in Key |-> Nothing]
    /\ read = [c \in Client |-> Nothing]

Advance == now' = now + 1 /\ UNCHANGED <<kept, read>>

\* What is not lost is left as it was.
Kept(x) == IF kept'[x] = Nothing THEN Nothing ELSE kept[x]

Begin(k, v, term) ==
    /\ kept' = [x \in Key |-> IF x = k THEN [val |-> v, until |-> now + term]
                              ELSE Kept(x)]
    /\ Capacity > 0 => Cardinality(Held(kept')) <= Capacity
    /\ UNCHANGED <<now, read>>

\* Leases and values read may be given up together, in any number.
Lose ==
    /\ kept' = [x \in Key |-> Kept(x)]
    /\ read' = [c \in Client |-> IF read'[c] = Nothing THEN Nothing ELSE read[c]]
    /\ UNCHANGED now

Read(c, k) ==
    /\ kept[k] # Nothing
    /\ now <= kept[k].until
    /\ read' = [read EXCEPT ![c] = kept[k].val]
    /\ UNCHANGED <<now, kept>>

Next ==
    \/ Advance
    \/ \E k \in Key, v \in Value, t \in Terms : Begin(k, v, t)
    \/ Lose
    \/ \E c \in Client, k \in Key : Read(c, k)

Spec == Init /\ [][Next]_<<now, kept, read>>
=============================================================================
