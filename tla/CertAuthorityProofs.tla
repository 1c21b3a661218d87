-------------------------- MODULE CertAuthorityProofs --------------------------
(* What NewCertificateManager promises by itself, and the facts about its     *)
(* steps that LeafCache and Host build on, for every number of processes.     *)
EXTENDS CertAuthority, TLAPS

USE CertAuthorityAssumption

\* The CA's part of the types is kept by its steps.
LEMMA CATypeStep ==
    ASSUME CATypeOK, NEW p \in Proc,
           NewCertificateManager(p) \/ CAStep(p) \/ Stop(p)
    PROVE  CATypeOK'
<1> USE DEF CATypeOK, Content, Point, caFiles, MoveTo, Take
<1>1. CASE NewCertificateManager(p)
  BY <1>1 DEF NewCertificateManager
<1>2. CASE ReadCert(p)
  BY <1>2 DEF ReadCert
<1>3. CASE ReadKey(p)
  BY <1>3 DEF ReadKey, LoadCA
<1>4. CASE GenerateCA(p)
  BY <1>4 DEF GenerateCA
<1>5. CASE SaveCert(p)
  BY <1>5 DEF SaveCert, Written
<1>6. CASE SaveKey(p)
  BY <1>6 DEF SaveKey, Written
<1>7. CASE Stop(p)
  BY <1>7 DEF Stop
<1>8. CASE ReadFails(p)
  BY <1>8 DEF ReadFails
<1> QED  BY <1>1, <1>2, <1>3, <1>4, <1>5, <1>6, <1>7, <1>8 DEF CAStep

LEMMA SameCA == CATypeOK /\ UNCHANGED caVars => CATypeOK'
BY DEF CATypeOK, caVars, caFiles, caProc, Content

\* The steps of the CA leave certificate and key matched.
LEMMA CAKeepsMatch ==
    ASSUME CATypeOK, SigningKeyMatches, NEW p \in Proc,
           NewCertificateManager(p) \/ CAStep(p) \/ Stop(p)
    PROVE  SigningKeyMatches'
<1> USE DEF CATypeOK, SigningKeyMatches, MoveTo, Take
<1>1. CASE NewCertificateManager(p) \/ ReadCert(p) \/ ReadFails(p)
  BY <1>1 DEF NewCertificateManager, ReadCert, ReadFails
<1>2. CASE ReadKey(p)
  BY <1>2 DEF ReadKey, LoadCA, VerifyKey
<1>3. CASE GenerateCA(p)
  BY <1>3 DEF GenerateCA
<1>4. CASE SaveCert(p) \/ SaveKey(p)
  BY <1>4 DEF SaveCert, SaveKey
<1>5. CASE Stop(p)
  BY <1>5 DEF Stop
<1> QED  BY <1>1, <1>2, <1>3, <1>4, <1>5 DEF CAStep

\* One step of the CA leaves a settled pair alone, or fails to read it.
LEMMA SettledStep ==
    ASSUME CATypeOK, Settled, NEW p \in Proc,
           NewCertificateManager(p) \/ CAStep(p) \/ Stop(p)
    PROVE  (Settled' /\ certFile' = certFile) \/ ReadFailed(p)
<1>0. /\ certFile \in Authority /\ certFile # None
      /\ at[p] \in {"off", "readCert", "ready"} \/ (at[p] = "readKey" /\ seen[p] = certFile)
  <2>1. certFile \in Authority
    BY DEF Settled, LoadCA
  <2> QED  BY <2>1 DEF Settled
<1> USE DEF CATypeOK, Settled, MoveTo, caFiles
<1>1. CASE NewCertificateManager(p)
  BY <1>0, <1>1 DEF NewCertificateManager
<1>2. CASE ReadCert(p)
  BY <1>0, <1>2 DEF ReadCert
<1>3. CASE ReadKey(p)
  BY <1>0, <1>3 DEF ReadKey
<1>4. CASE GenerateCA(p) \/ SaveCert(p) \/ SaveKey(p)
  BY <1>0, <1>4 DEF GenerateCA, SaveCert, SaveKey
<1>5. CASE Stop(p)
  BY <1>0, <1>5 DEF Stop
<1>6. CASE ReadFails(p)
  BY <1>6 DEF ReadFails, ReadFailed
<1> QED  BY <1>1, <1>2, <1>3, <1>4, <1>5, <1>6 DEF CAStep

\* A process that has a certificate has its key, whatever the others write to
\* the two files between its reads.
THEOREM CAKeyMatches == CASpec => []SigningKeyMatches
<1>1. CAInit(FALSE) => CATypeOK /\ SigningKeyMatches
  BY DEF CAInit, CATypeOK, Content, Point, SigningKeyMatches
<1>2. CATypeOK /\ SigningKeyMatches /\ [CANext]_caVars => CATypeOK' /\ SigningKeyMatches'
  BY CATypeStep, SameCA, CAKeepsMatch
     DEF CANext, SigningKeyMatches, caVars, caProc
<1> QED  BY <1>1, <1>2, PTL DEF CASpec

\* A pair that is on disk, with nobody about to replace it, is given up by a start
\* that fails to read one of its files, and by nothing else.
THEOREM CAKeepsPair == CASpec => PairIsKept
<1>1. CAInit(FALSE) => CATypeOK
  BY DEF CAInit, CATypeOK, Content, Point
<1>2. CATypeOK /\ [CANext]_caVars => CATypeOK'
  BY CATypeStep, SameCA DEF CANext
<1>3. CATypeOK /\ [CANext]_caVars =>
        [Settled => \/ Settled' /\ certFile' = certFile
                    \/ \E p \in Proc : ReadFailed(p)]_caVars
  BY SettledStep DEF CANext
<1> QED  BY <1>1, <1>2, <1>3, PTL DEF CASpec, PairIsKept
================================================================================
