--------------------------- MODULE LeafCacheProofs ---------------------------
(* What LeafCache promises, proved for every number of processes, key pairs  *)
(* and handshakes, and for every validity and period.                        *)
EXTENDS LeafCache, CertAuthorityProofs, TLAPS

USE CertAuthorityAssumption, LeafAssumption

\* A process signs, caches and serves only while it has a pair.
Holding == {"createCert", "writeCert", "createKey", "writeKey", "ready"}

LeafUse == \A p \in Proc :
    /\ at[p] \in Holding => root[p] \in Authority
    /\ at[p] # "ready" => leaf[p] = None /\ ~doomed[p]
    /\ at[p] # "ready" => \A g \in Handshake : hs[p][g] = "idle" /\ given[p][g] = None

IInv == TypeOK /\ SigningKeyMatches /\ LeafUse /\ LeafVerifies

\* A process on its way to "ready" was not there before, and has the root that it
\* is going to have once it holds one.
LEMMA CAStepEffect ==
    ASSUME CATypeOK, NEW p \in Proc, NewCertificateManager(p) \/ CAStep(p)
    PROVE  /\ at[p] # "ready"
           /\ \A q \in Proc \ {p} : at'[q] = at[q] /\ root'[q] = root[q]
           /\ (at[p] \in Holding => root[p] \in Authority)
                => (at'[p] \in Holding => root'[p] \in Authority)
<1> USE DEF CATypeOK, Point, Holding, MoveTo, Take
<1>1. CASE NewCertificateManager(p)
  BY <1>1 DEF NewCertificateManager
<1>2. CASE ReadCert(p)
  BY <1>2 DEF ReadCert
<1>3. CASE ReadKey(p)
  BY <1>3 DEF ReadKey, LoadCA
<1>4. CASE GenerateCA(p)
  BY <1>4 DEF GenerateCA
<1>5. CASE SaveCert(p)
  BY <1>5 DEF SaveCert
<1>6. CASE SaveKey(p)
  BY <1>6 DEF SaveKey
<1>7. CASE ReadFails(p)
  BY <1>7 DEF ReadFails
<1> QED  BY <1>1, <1>2, <1>3, <1>4, <1>5, <1>6, <1>7 DEF CAStep

-----------------------------------------------------------------------------
\* Starting and loading happen before there is anything in the cache.
LEMMA LoadStep ==
    ASSUME IInv, NEW p \in Proc, Enter(p) \/ Load(p)
    PROVE  IInv'
<1>1. NewCertificateManager(p) \/ CAStep(p)
  BY DEF Enter, Load
<1>2. /\ UNCHANGED <<now, leaf, hs, given, doomed>>
      /\ swept' = swept \/ swept' = [swept EXCEPT ![p] = now]
  BY DEF Enter, Load, leafVars
<1>3. TypeOK'
  BY <1>1, <1>2, CATypeStep DEF IInv, TypeOK, Leaf
<1>4. SigningKeyMatches'
  BY <1>1, CAKeepsMatch DEF IInv, TypeOK
<1>5. /\ at[p] # "ready"
      /\ \A q \in Proc \ {p} : at'[q] = at[q] /\ root'[q] = root[q]
      /\ at'[p] \in Holding => root'[p] \in Authority
  BY <1>1, CAStepEffect DEF IInv, TypeOK, LeafUse
<1>6. LeafUse'
  BY <1>2, <1>5 DEF IInv, LeafUse
<1>7. LeafVerifies'
  <2>1. leaf[p] = None /\ \A g \in Handshake : given[p][g] = None
    BY <1>5 DEF IInv, LeafUse
  <2> QED  BY <1>2, <1>5, <2>1 DEF IInv, LeafVerifies
<1> QED  BY <1>3, <1>4, <1>6, <1>7 DEF IInv

\* A process that stops takes its cache with it.
LEMMA LeaveStep ==
    ASSUME IInv, NEW p \in Proc, Leave(p)
    PROVE  IInv'
<1>1. Stop(p)
  BY DEF Leave
<1>2. TypeOK'
  BY <1>1, CATypeStep DEF IInv, TypeOK, Leave
<1>3. SigningKeyMatches'
  BY <1>1, CAKeepsMatch DEF IInv, TypeOK
<1>4. LeafUse' /\ LeafVerifies'
  BY <1>1 DEF IInv, TypeOK, CATypeOK, LeafUse, LeafVerifies, Leave, Stop, MoveTo, Take, Holding
<1> QED  BY <1>2, <1>3, <1>4 DEF IInv

\* Handshakes hand out what the process signed with its own pair.
LEMMA HandshakeStep ==
    ASSUME IInv, NEW p \in Proc, NEW g \in Handshake,
           CachedLeaf(p, g) \/ NoCachedLeaf(p, g) \/ SignLeafCert(p, g) \/ StoreLeaf(p, g)
    PROVE  IInv'
<1>0. UNCHANGED caVars /\ SigningKeyMatches' /\ CATypeOK'
  BY DEF CachedLeaf, NoCachedLeaf, SignLeafCert, StoreLeaf, caVars, caFiles, caProc,
     IInv, TypeOK, SigningKeyMatches, CATypeOK
<1>1. CASE CachedLeaf(p, g)
  BY <1>0, <1>1 DEF CachedLeaf, Put, IInv, TypeOK, LeafUse, LeafVerifies, caVars, caProc
<1>2. CASE NoCachedLeaf(p, g)
  BY <1>0, <1>2 DEF NoCachedLeaf, Put, IInv, TypeOK, LeafUse, LeafVerifies, caVars, caProc
<1>3. CASE SignLeafCert(p, g)
  <2> DEFINE c == [by |-> root[p], signedBy |-> key[p], notAfter |-> now + Validity]
  <2>1. root[p] \in Authority /\ key[p] = root[p]
    BY <1>3 DEF SignLeafCert, IInv, LeafUse, Holding, SigningKeyMatches
  <2>2. c \in Leaf /\ c.by = root[p] /\ c.signedBy = root[p]
    BY <2>1 DEF Leaf, IInv, TypeOK
  <2> HIDE DEF c
  <2>3. /\ given' = [given EXCEPT ![p][g] = c] /\ hs' = [hs EXCEPT ![p][g] = "store"]
        /\ hs[p][g] = "sign" /\ UNCHANGED <<now, leaf, swept, doomed>>
    BY <1>3 DEF SignLeafCert, Put, c
  <2> QED  BY <1>0, <2>2, <2>3 DEF IInv, TypeOK, LeafUse, LeafVerifies, caVars, caProc
<1>4. CASE StoreLeaf(p, g)
  BY <1>0, <1>4 DEF StoreLeaf, Put, IInv, TypeOK, LeafUse, LeafVerifies, caVars, caProc
<1> QED  BY <1>1, <1>2, <1>3, <1>4

\* The clean-up only removes, the clock only advances.
LEMMA SweepStep ==
    ASSUME IInv, (\E p \in Proc : Sweep(p) \/ SweepDelete(p)) \/ Tick
    PROVE  IInv'
<1>0. UNCHANGED caVars /\ SigningKeyMatches' /\ CATypeOK'
  BY DEF Sweep, SweepDelete, Tick, caVars, caFiles, caProc, IInv, TypeOK,
     SigningKeyMatches, CATypeOK
<1>1. ASSUME NEW p \in Proc, Sweep(p) PROVE IInv'
  BY <1>0, <1>1 DEF Sweep, IInv, TypeOK, LeafUse, LeafVerifies, caVars, caProc
<1>2. ASSUME NEW p \in Proc, SweepDelete(p) PROVE IInv'
  BY <1>0, <1>2 DEF SweepDelete, IInv, TypeOK, LeafUse, LeafVerifies, caVars, caProc
<1>3. CASE Tick
  BY <1>0, <1>3 DEF Tick, leafVars, IInv, TypeOK, LeafUse, LeafVerifies, caVars, caProc
<1> QED  BY <1>1, <1>2, <1>3

\* The inductive invariant holds in every state.
THEOREM LeafInvariant == Spec => []IInv
<1>1. Init => IInv
  BY DEF Init, CAInit, IInv, TypeOK, CATypeOK, Content, Point, Leaf,
     SigningKeyMatches, LeafUse, LeafVerifies, Holding
<1>2. IInv /\ [Next]_vars => IInv'
  <2> SUFFICES ASSUME IInv, [Next]_vars PROVE IInv'
    OBVIOUS
  <2>1. CASE UNCHANGED vars
    BY <2>1 DEF vars, caVars, caFiles, caProc, leafVars, IInv, TypeOK, CATypeOK,
       SigningKeyMatches, LeafUse, LeafVerifies
  <2>2. CASE Next
    BY <2>2, LoadStep, LeaveStep, HandshakeStep, SweepStep, Zenon DEF Next
  <2> QED  BY <2>1, <2>2
<1> QED  BY <1>1, <1>2, PTL DEF Spec

\* Every variable has its type, in every state of every instance.
THEOREM LeafTypes == Spec => []TypeOK
<1>1. IInv => TypeOK
  BY DEF IInv
<1> QED  BY <1>1, LeafInvariant, PTL

\* Whatever two processes and crashes did to the two files, a process that has a
\* certificate has its key.
THEOREM SigningKeySafe == Spec => []SigningKeyMatches
<1>1. IInv => SigningKeyMatches
  BY DEF IInv
<1> QED  BY <1>1, LeafInvariant, PTL

\* Every certificate signed, served or cached verifies against the root.
THEOREM LeavesVerify == Spec => []LeafVerifies
<1>1. IInv => LeafVerifies
  BY DEF IInv
<1> QED  BY <1>1, LeafInvariant, PTL

-----------------------------------------------------------------------------
\* A pair that is on disk, with nobody about to replace it, stays there until a
\* start fails to read one of its files.
THEOREM PairKept == Spec => PairIsKept
<1> DEFINE Kept == Settled => \/ Settled' /\ certFile' = certFile
                             \/ \E p \in Proc : ReadFailed(p)
<1>1. IInv /\ [Next]_vars => [Kept]_caVars
  <2> SUFFICES ASSUME IInv, Next, Settled, ~UNCHANGED caVars
               PROVE  \/ Settled' /\ certFile' = certFile
                      \/ \E p \in Proc : ReadFailed(p)
    BY DEF vars
  <2>1. CATypeOK
    BY DEF IInv, TypeOK
  <2>2. \E p \in Proc : NewCertificateManager(p) \/ CAStep(p) \/ Stop(p)
    BY DEF Next, Enter, Load, Leave, Sweep, SweepDelete, CachedLeaf, NoCachedLeaf,
       SignLeafCert, StoreLeaf, Tick
  <2> QED  BY <2>1, <2>2, SettledStep
<1> QED  BY <1>1, LeafInvariant, PTL DEF Spec, PairIsKept

-----------------------------------------------------------------------------
(* How late a cached certificate may be served *)

\* The clean-up is never later than its period, so it has seen a cached leaf, or
\* is about to delete it, one period after its end at the latest; and a
\* goroutine stores its leaf in the tick in which it signed it.
TimeInv == \A p \in Proc :
    /\ at[p] = "ready" => swept[p] <= now /\ now <= swept[p] + SweepEvery
    /\ leaf[p] # None =>
          /\ now <= leaf[p].notAfter + SweepEvery
          /\ doomed[p] \/ swept[p] <= leaf[p].notAfter
    /\ \A g \in Handshake : hs[p][g] = "store" =>
          given[p][g].notAfter = now + Validity

LEMMA TimeStep == IInv /\ TimeInv /\ [Next]_vars => TimeInv'
<1> SUFFICES ASSUME IInv, TimeInv, [Next]_vars PROVE TimeInv'
  OBVIOUS
<1> USE DEF IInv, TypeOK
<1>1. ASSUME NEW p \in Proc, Enter(p) \/ Load(p) PROVE TimeInv'
  <2>1. /\ at[p] # "ready"
        /\ \A q \in Proc \ {p} : at'[q] = at[q]
    <3>1. NewCertificateManager(p) \/ CAStep(p)  BY <1>1 DEF Enter, Load
    <3> QED BY <3>1, CAStepEffect
  <2>2. leaf[p] = None /\ \A g \in Handshake : hs[p][g] = "idle"
    BY <2>1 DEF LeafUse
  <2>3. CASE Enter(p)
    <3>1. at'[p] = "readCert"
      BY <2>3 DEF Enter, NewCertificateManager, MoveTo, CATypeOK
    <3> QED BY <2>1, <2>2, <2>3, <3>1 DEF Enter, leafVars, TimeInv
  <2>4. CASE Load(p)
    BY <2>1, <2>2, <2>4 DEF Load, TimeInv
  <2> QED BY <1>1, <2>3, <2>4
<1>2. ASSUME NEW p \in Proc, Leave(p) PROVE TimeInv'
  BY <1>2 DEF Leave, Stop, MoveTo, CATypeOK, TimeInv
<1>3. ASSUME NEW p \in Proc, Sweep(p) PROVE TimeInv'
  <2>1. /\ now' = now /\ hs' = hs /\ given' = given /\ leaf' = leaf /\ at' = at
        /\ swept' = [swept EXCEPT ![p] = now]
        /\ doomed' = [doomed EXCEPT ![p] = leaf[p] # None /\ Expired(leaf[p])]
    BY <1>3 DEF Sweep, caVars, caProc
  <2>2. leaf[p] # None => doomed'[p] \/ now <= leaf[p].notAfter
    <3>1. doomed'[p] = (leaf[p] # None /\ Expired(leaf[p]))  BY <2>1
    <3>2. leaf[p] # None => leaf[p].notAfter \in Nat  BY DEF Leaf
    <3>3. leaf[p] # None /\ ~Expired(leaf[p]) => now <= leaf[p].notAfter
      BY <3>2 DEF Expired
    <3> QED BY <3>1, <3>3
  <2> QED BY <2>1, <2>2 DEF TimeInv
<1>4. ASSUME NEW p \in Proc, SweepDelete(p) PROVE TimeInv'
  BY <1>4 DEF SweepDelete, caVars, caProc, TimeInv
<1>5. ASSUME NEW p \in Proc, NEW g \in Handshake, CachedLeaf(p, g) \/ NoCachedLeaf(p, g)
      PROVE  TimeInv'
  <2>1. UNCHANGED <<at, now, leaf, swept, doomed>>
    BY <1>5 DEF CachedLeaf, NoCachedLeaf, caVars, caProc
  <2>2. ASSUME NEW q \in Proc, NEW h \in Handshake, hs'[q][h] = "store"
        PROVE  hs[q][h] = "store" /\ given'[q][h] = given[q][h]
    BY <1>5, <2>2 DEF CachedLeaf, NoCachedLeaf, Put
  <2> QED BY <2>1, <2>2 DEF TimeInv
<1>6. ASSUME NEW p \in Proc, NEW g \in Handshake, SignLeafCert(p, g) PROVE TimeInv'
  <2> DEFINE c == [by |-> root[p], signedBy |-> key[p], notAfter |-> now + Validity]
  <2>1. c.notAfter = now + Validity  OBVIOUS
  <2> HIDE DEF c
  <2>2. /\ given' = [given EXCEPT ![p][g] = c] /\ hs' = [hs EXCEPT ![p][g] = "store"]
        /\ UNCHANGED <<at, now, leaf, swept, doomed>>
    BY <1>6 DEF SignLeafCert, Put, caVars, caProc, c
  <2> QED BY <2>1, <2>2 DEF TimeInv
<1>7. ASSUME NEW p \in Proc, NEW g \in Handshake, StoreLeaf(p, g) PROVE TimeInv'
  <2> DEFINE c == given[p][g]
  <2>1. c.notAfter = now + Validity /\ at[p] = "ready"
    BY <1>7 DEF StoreLeaf, TimeInv, LeafUse
  <2>2. swept[p] <= c.notAfter /\ now <= c.notAfter + SweepEvery
    BY <2>1 DEF TimeInv
  <2>3. /\ leaf' = [leaf EXCEPT ![p] = c] /\ hs' = [hs EXCEPT ![p][g] = "idle"]
        /\ UNCHANGED <<at, now, given, swept, doomed>>
    BY <1>7 DEF StoreLeaf, Put, caVars, caProc
  <2> HIDE DEF c
  <2> QED BY <2>2, <2>3 DEF TimeInv
<1>8. CASE Tick
  <2>1. ASSUME NEW p \in Proc, at[p] = "ready"
        PROVE  /\ now + 1 <= swept[p] + SweepEvery /\ ~doomed[p]
               /\ \A g \in Handshake : hs[p][g] = "idle"
    BY <1>8, <2>1 DEF Tick, SweepDue
  <2>2. ASSUME NEW p \in Proc, leaf[p] # None
        PROVE  at[p] = "ready" /\ leaf[p].notAfter \in Nat
    BY <2>2 DEF LeafUse, Leaf
  <2>3. \A p \in Proc, g \in Handshake : hs[p][g] = "idle"
    BY <2>1 DEF LeafUse
  <2>4. now' = now + 1 /\ UNCHANGED <<at, leaf, hs, given, swept, doomed>>
    BY <1>8 DEF Tick, leafVars, caVars, caProc
  <2> QED BY <2>1, <2>2, <2>3, <2>4 DEF TimeInv
<1>9. CASE UNCHANGED vars
  BY <1>9 DEF vars, leafVars, caVars, caProc, TimeInv
<1> QED
  BY <1>1, <1>2, <1>3, <1>4, <1>5, <1>6, <1>7, <1>8, <1>9 DEF Next

\* No client is given a certificate that expired more than one period of the
\* clean-up ago, although GetCertificate never looks at the dates, and however
\* the clean-up's two steps and the handshakes' stores are interleaved.
THEOREM LeavesServedInTime == Spec => LeafServedInTime
<1> DEFINE InTime == \A p \in Proc, g \in Handshake : CachedLeaf(p, g) =>
                        now <= given'[p][g].notAfter + SweepEvery
<1>1. Init => TimeInv
  <2> SUFFICES ASSUME Init PROVE TimeInv
    OBVIOUS
  <2>1. /\ at = [p \in Proc |-> "off"] /\ leaf = [p \in Proc |-> None]
        /\ hs = [p \in Proc |-> [g \in Handshake |-> "idle"]]
    BY DEF Init, CAInit
  <2> QED BY <2>1 DEF TimeInv
<1>2. ASSUME IInv, TimeInv, NEW p \in Proc, NEW g \in Handshake, CachedLeaf(p, g)
      PROVE  now <= given'[p][g].notAfter + SweepEvery
  BY <1>2 DEF IInv, TypeOK, TimeInv, CachedLeaf, Put
<1>3. IInv /\ TimeInv => InTime
  BY <1>2
<1>4. IInv /\ TimeInv /\ [Next]_vars => [InTime]_vars
  BY <1>3
<1> QED BY <1>1, <1>4, TimeStep, LeafInvariant, PTL DEF Spec, LeafServedInTime
=============================================================================
