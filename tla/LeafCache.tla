------------------------------ MODULE LeafCache ------------------------------
(***************************************************************************)
(* GetCertificate, SignLeafCert and cleanupRoutine of internal/cert over   *)
(* the CA that a process loaded: goroutines of client handshakes look up,  *)
(* sign and store leaf certificates of one host name; the others have      *)
(* entries of their own in the same sync.Map.                              *)
(*                                                                         *)
(* A goroutine g of process p is "idle", at "sign" after a miss or at      *)
(* "store" with a signed certificate.  The clean-up looks at an entry      *)
(* first and deletes by key afterwards.                                    *)
(***************************************************************************)
EXTENDS CertAuthority, Naturals

CONSTANTS
    Handshake,  \* client handshakes of a process at a time
    Validity,   \* how long a leaf is valid (24 h)
    SweepEvery, \* the ticker of cleanupRoutine (1 h)
    MaxNow      \* bound: the clock

ASSUME LeafAssumption ==
    Validity \in Nat /\ SweepEvery \in Nat \ {0} /\ MaxNow \in Nat

VARIABLES
    now,
    leaf,       \* process -> the cached certificate, or None
    hs,         \* process -> goroutine -> where it is
    given,      \* process -> goroutine -> the certificate it signed or was
                \* given last, or None
    swept,      \* process -> when the ticker last fired
    doomed      \* process -> the clean-up found an expired entry to delete

leafVars == <<leaf, hs, given, swept, doomed>>
vars     == <<caVars, now, leafVars>>

Leaf == [by : Authority, signedBy : Authority, notAfter : Nat]

\* Every variable has its type.
TypeOK ==
    /\ CATypeOK
    /\ now \in Nat
    /\ leaf \in [Proc -> Leaf \cup {None}]
    /\ hs \in [Proc -> [Handshake -> {"idle", "sign", "store"}]]
    /\ given \in [Proc -> [Handshake -> Leaf \cup {None}]]
    /\ swept \in [Proc -> Nat]
    /\ doomed \in [Proc -> BOOLEAN]

Init ==
    /\ CAInit(FALSE)
    /\ now = 0
    /\ leaf = [p \in Proc |-> None]
    /\ hs = [p \in Proc |-> [g \in Handshake |-> "idle"]]
    /\ given = [p \in Proc |-> [g \in Handshake |-> None]]
    /\ swept = [p \in Proc |-> 0]
    /\ doomed = [p \in Proc |-> FALSE]

Put(f, p, g, v) == f' = [f EXCEPT ![p][g] = v]

\* An entry is found: it is served without a look at its dates.
CachedLeaf(p, g) ==
    /\ at[p] = "ready" /\ hs[p][g] = "idle" /\ leaf[p] # None
    /\ Put(given, p, g, leaf[p])
    /\ UNCHANGED <<caVars, now, leaf, hs, swept, doomed>>

NoCachedLeaf(p, g) ==
    /\ at[p] = "ready" /\ hs[p][g] = "idle" /\ leaf[p] = None
    /\ Put(hs, p, g, "sign")
    /\ UNCHANGED <<caVars, now, leaf, given, swept, doomed>>

SignLeafCert(p, g) ==
    /\ hs[p][g] = "sign"
    /\ Put(given, p, g,
           [by |-> root[p], signedBy |-> key[p], notAfter |-> now + Validity])
    /\ Put(hs, p, g, "store")
    /\ UNCHANGED <<caVars, now, leaf, swept, doomed>>

\* The last of several goroutines that missed wins; each serves its own.
StoreLeaf(p, g) ==
    /\ hs[p][g] = "store"
    /\ leaf' = [leaf EXCEPT ![p] = given[p][g]]
    /\ Put(hs, p, g, "idle")
    /\ UNCHANGED <<caVars, now, given, swept, doomed>>

\* Mutation of Expired: the clean-up compares with the wrong end.
ExpiredTooLate(c) == now > c.notAfter + Validity

Expired(c) == now > c.notAfter

SweepDue(p) == now >= swept[p] + SweepEvery

\* The ticker fires; an expired entry is noted for deletion.
Sweep(p) ==
    /\ at[p] = "ready" /\ SweepDue(p) /\ ~doomed[p]
    /\ swept' = [swept EXCEPT ![p] = now]
    /\ doomed' = [doomed EXCEPT ![p] = leaf[p] # None /\ Expired(leaf[p])]
    /\ UNCHANGED <<caVars, now, leaf, hs, given>>

\* By now another goroutine may have stored a new certificate: it goes too.
SweepDelete(p) ==
    /\ doomed[p]
    /\ leaf' = [leaf EXCEPT ![p] = None]
    /\ doomed' = [doomed EXCEPT ![p] = FALSE]
    /\ UNCHANGED <<caVars, now, hs, given, swept>>

\* The clean-up goroutine and a goroutine between its miss and its Store are
\* scheduled well within a tick, which stands for an hour.
Tick ==
    /\ now < MaxNow
    /\ \A p \in Proc : at[p] = "ready" =>
          ~SweepDue(p) /\ ~doomed[p] /\ \A g \in Handshake : hs[p][g] = "idle"
    /\ now' = now + 1
    /\ UNCHANGED <<caVars, leafVars>>

Enter(p) ==
    /\ NewCertificateManager(p)
    /\ UNCHANGED <<now, leafVars>>

\* The clean-up's ticker starts when the pair is there.
Load(p) ==
    /\ CAStep(p)
    /\ swept' = [swept EXCEPT ![p] = now]
    /\ UNCHANGED <<now, leaf, hs, given, doomed>>

Leave(p) ==
    /\ Stop(p)
    /\ leaf' = [leaf EXCEPT ![p] = None]
    /\ hs' = [hs EXCEPT ![p] = [g \in Handshake |-> "idle"]]
    /\ given' = [given EXCEPT ![p] = [g \in Handshake |-> None]]
    /\ doomed' = [doomed EXCEPT ![p] = FALSE]
    /\ UNCHANGED <<now, swept>>

Next ==
    \/ \E p \in Proc :
          \/ Enter(p) \/ Load(p) \/ Leave(p)
          \/ Sweep(p) \/ SweepDelete(p)
          \/ \E g \in Handshake : \/ CachedLeaf(p, g) \/ NoCachedLeaf(p, g)
                                  \/ SignLeafCert(p, g) \/ StoreLeaf(p, g)
    \/ Tick

Spec == Init /\ [][Next]_vars

-----------------------------------------------------------------------------
\* Every certificate that a process signed, served or cached verifies against
\* the root it has: it names that root and was signed with the key of it.
LeafVerifies == \A p \in Proc :
    LET Good(c) == c # None => c.by = root[p] /\ c.signedBy = root[p]
    IN  Good(leaf[p]) /\ \A g \in Handshake : Good(given[p][g])

\* GetCertificate does not look at the dates of what it finds: a client is
\* given a certificate that expired at most one period of the clean-up ago.
LeafServedInTime ==
    [][\A p \in Proc, g \in Handshake : CachedLeaf(p, g) =>
          now <= given'[p][g].notAfter + SweepEvery]_vars
=============================================================================
