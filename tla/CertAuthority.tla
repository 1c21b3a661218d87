---------------------------- MODULE CertAuthority ----------------------------
(***************************************************************************)
(* NewCertificateManager of internal/cert/cert_manager.go in several       *)
(* processes at once: every `snirect` and every `snirect install-cert`     *)
(* loads the root certificate and its key from two files or generates a    *)
(* pair and writes them.                                                   *)
(*                                                                         *)
(* A process p goes through                                                *)
(*   "readCert", "readKey"      os.ReadFile, twice, and LoadCA             *)
(*   "unread", "generate"       generateCA: a read failed, or the files    *)
(*                              hold no pair                               *)
(*   "createCert", "writeCert"  saveCA: os.Create and pem.Encode for       *)
(*   "createKey", "writeKey"    root.crt, then for root.key                *)
(*   "ready"                    it holds a certificate and a key           *)
(* Creating a file truncates it.  All CAs have the same subject; they      *)
(* differ in their key pair, and a generated pair is a fresh one.          *)
(***************************************************************************)
CONSTANTS
    Proc,       \* processes of snirect
    Authority,  \* bound: the key pairs that get generated
    Cut,        \* a file that was created and not yet written
    None

ASSUME CertAuthorityAssumption ==
    Cut \notin Authority /\ None \notin Authority /\ Cut # None

VARIABLES
    certFile, keyFile,  \* root.crt, root.key: whose, Cut, or None
    made,       \* the pairs generated so far
    at,         \* process -> program point
    seen,       \* process -> what it read from root.crt
    root, key   \* process -> RootCert, RootKey: whose, or None

caFiles == <<certFile, keyFile, made>>
caProc  == <<at, seen, root, key>>
caVars  == <<caFiles, caProc>>

Content == Authority \cup {Cut, None}
Point == {"off", "readCert", "readKey", "unread", "generate", "createCert",
          "writeCert", "createKey", "writeKey", "ready"}

CATypeOK ==
    /\ certFile \in Content /\ keyFile \in Content
    /\ made \subseteq Authority
    /\ at \in [Proc -> Point]
    /\ seen \in [Proc -> Content]
    /\ root \in [Proc -> Authority \cup {None}]
    /\ key \in [Proc -> Authority \cup {None}]

\* The files hold a pair already, or there are none.
CAInit(saved) ==
    /\ \E ca \in IF saved THEN Authority ELSE {None} :
          certFile = ca /\ keyFile = ca /\ made = {ca} \ {None}
    /\ at = [p \in Proc |-> "off"]
    /\ seen = [p \in Proc |-> None]
    /\ root = [p \in Proc |-> None] /\ key = [p \in Proc |-> None]

MoveTo(p, l) == at' = [at EXCEPT ![p] = l]

Take(p, r, k) ==
    /\ root' = [root EXCEPT ![p] = r]
    /\ key' = [key EXCEPT ![p] = k]

-----------------------------------------------------------------------------
NewCertificateManager(p) ==
    /\ at[p] = "off"
    /\ MoveTo(p, "readCert")
    /\ UNCHANGED <<caFiles, seen, root, key>>

ReadCert(p) ==
    /\ at[p] = "readCert"
    /\ seen' = [seen EXCEPT ![p] = certFile]
    /\ MoveTo(p, IF certFile = None THEN "generate" ELSE "readKey")
    /\ UNCHANGED <<caFiles, root, key>>

\* Mutation of LoadCA: a file that cannot be parsed is no error.
LoadUnparsed(c, k) == c = k

\* Mutation of VerifyKey: only the algorithms are compared.
VerifyAlgorithmOnly(c, k) == TRUE

VerifyKey(c, k) == c = k

LoadCA(c, k) == c \in Authority /\ k \in Authority /\ VerifyKey(c, k)

\* Mutation of ReadKey: an existing key is never given up, it gets a
\* certificate of its own.
ReadKeyRegenerates(p) ==
    /\ at[p] = "readKey"
    /\ MoveTo(p, "generate")
    /\ UNCHANGED <<caFiles, seen, root, key>>

ReadKey(p) ==
    /\ at[p] = "readKey"
    /\ IF LoadCA(seen[p], keyFile)
       THEN MoveTo(p, "ready") /\ Take(p, seen[p], keyFile)
       ELSE MoveTo(p, "generate") /\ UNCHANGED <<root, key>>
    /\ UNCHANGED <<caFiles, seen>>

\* A file is there and cannot be read: permissions, an I/O error, too many open
\* files.  Every error of os.ReadFile leads to a new pair.
ReadFails(p) ==
    /\ \/ at[p] = "readCert" /\ certFile # None
       \/ at[p] = "readKey" /\ keyFile # None
    /\ MoveTo(p, "unread")
    /\ UNCHANGED <<caFiles, seen, root, key>>

GenerateCA(p) ==
    /\ at[p] \in {"unread", "generate"}
    /\ \E ca \in Authority \ made :
          made' = made \cup {ca} /\ Take(p, ca, ca)
    /\ MoveTo(p, "createCert")
    /\ UNCHANGED <<certFile, keyFile, seen>>

\* What is written to a file that was removed meanwhile is lost.
Written(file, ca) == IF file = None THEN None ELSE ca

SaveCert(p) ==
    /\ \/ at[p] = "createCert" /\ certFile' = Cut /\ MoveTo(p, "writeCert")
       \/ /\ at[p] = "writeCert" /\ certFile' = Written(certFile, root[p])
          /\ MoveTo(p, "createKey")
    /\ UNCHANGED <<keyFile, made, seen, root, key>>

SaveKey(p) ==
    /\ \/ at[p] = "createKey" /\ keyFile' = Cut /\ MoveTo(p, "writeKey")
       \/ /\ at[p] = "writeKey" /\ keyFile' = Written(keyFile, key[p])
          /\ MoveTo(p, "ready")
    /\ UNCHANGED <<certFile, made, seen, root, key>>

\* The process dies, saveCA fails and NewCertificateManager with it, or the
\* program comes to its end.
Stop(p) ==
    /\ at[p] # "off"
    /\ MoveTo(p, "off")
    /\ seen' = [seen EXCEPT ![p] = None]
    /\ Take(p, None, None)
    /\ UNCHANGED caFiles

\* What a process does by itself between its start and "ready".
CAStep(p) ==
    \/ ReadCert(p) \/ ReadKey(p) \/ ReadFails(p)
    \/ GenerateCA(p) \/ SaveCert(p) \/ SaveKey(p)

CANext == \E p \in Proc : NewCertificateManager(p) \/ CAStep(p) \/ Stop(p)

CASpec == CAInit(FALSE) /\ [][CANext]_caVars

-----------------------------------------------------------------------------
\* A process that has a certificate has the key that belongs to it, although
\* two processes may write the two files in turns and a crash may leave the
\* certificate of one pair beside the key of another (LoadCA, saveCA).
SigningKeyMatches == \A p \in Proc : key[p] = root[p]

Settled ==
    /\ LoadCA(certFile, keyFile)
    /\ \A p \in Proc : \/ at[p] \in {"off", "readCert", "ready"}
                       \/ at[p] = "readKey" /\ seen[p] = certFile

ReadFailed(p) == at[p] # "unread" /\ at'[p] = "unread"

\* Once the files hold a pair and no process is past them with an older view, a
\* start gives that pair up only because one of the two files could not be read:
\* no crash and no other start makes it do so, and a pair that is read is loaded.
\* Users installed this certificate in their browsers (NewCertificateManager).
PairIsKept ==
    [][Settled => \/ Settled' /\ certFile' = certFile
                  \/ \E p \in Proc : ReadFailed(p)]_caVars
=============================================================================
