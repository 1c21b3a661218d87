----------------------------- MODULE HostProofs -----------------------------
(***************************************************************************)
(* Proofs about Host, for every number of processes and key pairs, every   *)
(* choice of commands that run beside each other, and however many of them *)
(* fail or are killed.                                                     *)
(***************************************************************************)
EXTENDS Host, CertAuthorityProofs, FiniteSetTheorems, TLAPS

USE CertAuthorityAssumption, HostAssumption

-----------------------------------------------------------------------------
(* The steps of a command, and what holds at each of them *)

\* The steps that a process goes through for its command.
StepsOf(c) ==
    CASE c = "none" -> {"idle"}
      [] c \in Run -> {"load", "check", "apply", "update", "confirm", "remove",
                       "refresh", "listen", "set", "notify", "serve", "clear", "exit"}
      [] c = "install-cert" -> {"load", "check", "apply", "update", "confirm"}
      [] c = "uninstall-cert" -> {"remove", "refresh"}
      [] c = "set-proxy" -> {"set"}
      [] c = "unset-proxy" -> {"clear"}
      [] c = "install" -> {"copy", "unit"}
      [] c = "uninstall" -> {"delete", "clear", "remove", "refresh", "erase"}

Serving == {"listen", "set", "notify", "serve", "clear", "exit"}

JobOf(p) ==
    /\ job[p] \in StepsOf(cmd[p])
    /\ job[p] = "load" => at[p] # "ready"
    /\ Runs(p) /\ job[p] # "load" => at[p] = "ready"
    /\ proxy[p] => Runs(p)
    /\ job[p] = "set" /\ Runs(p) => proxy[p]
    /\ trusted[p] => Runs(p) /\ job[p] \in Serving
    /\ job[p] \notin {"set", "clear"} => slot[p] = 1
    /\ slot[p] <= Writes(platform)

JobInv == \A p \in Proc : JobOf(p)

\* Only `trust anchor` keeps anything, and Windows has one setting.
StoreInv ==
    /\ IsFiniteSet(stored) /\ IsFiniteSet(bundle)
    /\ platform # "trust" => stored = {}
    /\ platform = "windows" => ~pac[2]

\* What a process knows of root.crt as long as nobody else writes it.
TrustOf(p) == Runs(p) /\ "lost" \notin mar[p] =>
    /\ at[p] = "readKey" => seen[p] = certFile
    /\ at[p] = "writeCert" => certFile = Cut
    /\ at[p] \in {"createKey", "writeKey", "ready"} => certFile = root[p]
    /\ trusted[p] => root[p] \in bundle

TrustInv == \A p \in Proc : TrustOf(p)

\* q is going to clear slot k.
Owns(q, k) ==
    /\ Runs(q) /\ proxy[q]
    /\ job[q] \in {"set", "notify", "serve"} \/ (job[q] = "clear" /\ slot[q] <= k)

OwnedInv == \A k \in Slot : pac[k] => orphaned \/ \E q \in Proc : Owns(q, k)

UsedOf(p) == proxy[p] /\ mar[p] \cap {"denied", "pac"} = {} =>
    /\ job[p] = "set" => \A k \in Slot : k < slot[p] => pac[k]
    /\ job[p] \in {"notify", "serve"} => \A k \in 1 .. Writes(platform) : pac[k]

UsedInv == \A p \in Proc : UsedOf(p)

UninstallOf(p) == cmd[p] = "uninstall" /\ mar[p] = {} =>
    /\ job[p] # "delete" => program = {}
    /\ job[p] = "clear" => \A k \in Slot : k < slot[p] => ~pac[k]
    /\ job[p] \in {"remove", "refresh", "erase"} => ~PacOn
    /\ job[p] = "refresh" => anchor = None
    /\ job[p] = "erase" /\ platform # "trust" /\ certFile # None => bundle = {}

UninstallInv == \A p \in Proc : UninstallOf(p)

HostInv == TypeOK /\ JobInv /\ StoreInv /\ TrustInv /\ OwnedInv /\ UsedInv /\ UninstallInv

-----------------------------------------------------------------------------
(* Types *)

Mar == {"denied", "lost", "grown", "pac"}

LEMMA NoteType ==
    ASSUME NEW p \in Proc, NEW own, Note(p, own)
    PROVE  mar' \in [Proc -> SUBSET Mar]
BY DEF Note, Relevant, Mar

LEMMA KeepRunType ==
    ASSUME TypeOK, KeepRun
    PROVE  /\ cmd' \in [Proc -> Cmd \cup {"none"}]
           /\ proxy' \in [Proc -> BOOLEAN]
           /\ server' \in [Proc -> {"off", "starting", "listening", "failed"}]
BY DEF TypeOK, KeepRun

LEMMA FaultType ==
    ASSUME TypeOK, NEW b, Fault(b)
    PROVE  faults' \in Nat
BY DEF TypeOK, Fault

LEMMA SameStore == StoreTypeOK /\ UNCHANGED <<platform, storeVars>> => StoreTypeOK'
BY DEF StoreTypeOK, storeVars, Content

LEMMA SamePac == ProxyTypeOK /\ UNCHANGED pac => ProxyTypeOK'
BY DEF ProxyTypeOK

LEMMA RunSteps ==
    /\ StepsOf("none") = {"idle"}
    /\ \A c \in Run : StepsOf(c) =
          {"load", "check", "apply", "update", "confirm", "remove", "refresh",
           "listen", "set", "notify", "serve", "clear", "exit"}
    /\ StepsOf("install-cert") = {"load", "check", "apply", "update", "confirm"}
    /\ StepsOf("uninstall-cert") = {"remove", "refresh"}
    /\ StepsOf("set-proxy") = {"set"} /\ StepsOf("unset-proxy") = {"clear"}
    /\ StepsOf("install") = {"copy", "unit"}
    /\ StepsOf("uninstall") = {"delete", "clear", "remove", "refresh", "erase"}
BY DEF StepsOf, Run

LEMMA Idle ==
    ASSUME TypeOK, JobInv, NEW q \in Proc
    PROVE  /\ job[q] = "idle" <=> cmd[q] = "none"
           /\ job[q] = "idle" => ~proxy[q]
<1>1. cmd[q] \in Cmd \cup {"none"} /\ job[q] \in StepsOf(cmd[q])
  BY DEF TypeOK, JobInv, JobOf
<1>2. job[q] = "idle" <=> cmd[q] = "none"
  BY <1>1, RunSteps DEF Cmd
<1>3. cmd[q] = "none" => ~Runs(q)
  BY DEF Runs, Run
<1> QED BY <1>2, <1>3 DEF JobInv, JobOf

-----------------------------------------------------------------------------
(* What one process does leaves the others' part of the state alone *)

CAFrame(p) ==
    /\ CATypeOK'
    /\ \A q \in Proc \ {p} : at'[q] = at[q] /\ seen'[q] = seen[q] /\ root'[q] = root[q]

JobFrame(p) == \E s \in Step : job' = [job EXCEPT ![p] = s]

RunFrame(p) ==
    /\ cmd' \in [Proc -> Cmd \cup {"none"}] /\ proxy' \in [Proc -> BOOLEAN]
    /\ server' \in [Proc -> {"off", "starting", "listening", "failed"}]
    /\ \A q \in Proc \ {p} : cmd'[q] = cmd[q] /\ proxy'[q] = proxy[q]

StateFrame(p) ==
    /\ \E k \in Slot : slot' = [slot EXCEPT ![p] = k]
    /\ \E t \in BOOLEAN : trusted' = [trusted EXCEPT ![p] = t]
    /\ platform' = platform /\ StoreTypeOK' /\ ProxyTypeOK'
    /\ program' \subseteq {"binary", "service"}
    /\ orphaned' \in BOOLEAN /\ faults' \in Nat

\* What went wrong is noted, or nothing that is noted happened.
Noted(p) ==
    \/ \E own : Note(p, own)
    \/ UNCHANGED <<mar, job, cmd, certFile, anchor, bundle, program, pac>>

Frame(p) == CAFrame(p) /\ JobFrame(p) /\ RunFrame(p) /\ StateFrame(p) /\ Noted(p)

LEMMA CAFrameHolds ==
    ASSUME CATypeOK, NEW p \in Proc,
           NewCertificateManager(p) \/ CAStep(p) \/ Stop(p) \/ UNCHANGED caVars
    PROVE  CAFrame(p)
<1>1. CATypeOK'  BY CATypeStep, SameCA
<1>2. \A q \in Proc \ {p} : at'[q] = at[q] /\ seen'[q] = seen[q] /\ root'[q] = root[q]
  BY DEF CATypeOK, NewCertificateManager, CAStep, ReadCert, ReadKey, ReadFails,
         GenerateCA, SaveCert, SaveKey, Stop, MoveTo, Take, caVars, caProc
<1> QED BY <1>1, <1>2 DEF CAFrame

LEMMA KeepRunFrame ==
    ASSUME TypeOK, JobInv, NEW p \in Proc, JobFrame(p), KeepRun
    PROVE  /\ RunFrame(p)
           /\ cmd'[p] = IF job'[p] = "idle" THEN "none" ELSE cmd[p]
           /\ proxy'[p] = (job'[p] # "idle" /\ proxy[p])
<1>1. \A q \in Proc : q # p => job'[q] = job[q]
  BY DEF JobFrame, TypeOK
<1>2. \A q \in Proc :
         /\ cmd'[q] = IF job'[q] = "idle" THEN "none" ELSE cmd[q]
         /\ proxy'[q] = (job'[q] # "idle" /\ proxy[q])
  BY DEF KeepRun
<1>3. \A q \in Proc : q # p => cmd'[q] = cmd[q] /\ proxy'[q] = proxy[q]
  <2> TAKE q \in Proc
  <2> HAVE q # p
  <2>1. proxy[q] \in BOOLEAN  BY DEF TypeOK
  <2> QED BY <1>1, <1>2, <2>1, Idle
<1> QED BY <1>2, <1>3, KeepRunType DEF RunFrame

\* Steps that only go on, over one of the CA's or the store's operations.
LEMMA OnlyJobFrame ==
    ASSUME TypeOK, JobInv, NEW p \in Proc, JobFrame(p), OnlyJob,
           NewCertificateManager(p) \/ CAStep(p) \/ Stop(p) \/ UNCHANGED caVars,
           StoreTypeOK', \E t \in BOOLEAN : trusted' = [trusted EXCEPT ![p] = t],
           NEW b, Fault(b), NEW own, Note(p, own)
    PROVE  Frame(p)
<1>1. CAFrame(p)  BY CAFrameHolds DEF TypeOK
<1>2. RunFrame(p)  BY KeepRunFrame DEF OnlyJob
<1>3. StateFrame(p)
  <2>1. slot' = [slot EXCEPT ![p] = slot[p]] /\ slot[p] \in Slot
    BY DEF OnlyJob, TypeOK
  <2>2. platform' = platform /\ ProxyTypeOK' /\ program' \subseteq {"binary", "service"}
    BY SamePac DEF OnlyJob, TypeOK
  <2>3. orphaned' \in BOOLEAN  BY DEF OnlyJob, KeepOrphan, TypeOK
  <2> QED BY <2>1, <2>2, <2>3, FaultType DEF StateFrame
<1> QED BY <1>1, <1>2, <1>3 DEF Frame, Noted

LEMMA PacType ==
    ASSUME ProxyTypeOK, NEW k \in Slot, SetSlot(k) \/ ClearSlot(k) \/ UNCHANGED pac
    PROVE  ProxyTypeOK'
BY DEF ProxyTypeOK, SetSlot, ClearSlot

LEMMA PacFrame ==
    ASSUME TypeOK, JobInv, NEW p \in Proc, job[p] # "idle", NEW after \in Step,
           NEW write, write => SetSlot(slot[p]) \/ ClearSlot(slot[p]),
           PacStep(p, write, after), orphaned' \in BOOLEAN
    PROVE  /\ Frame(p)
           /\ cmd'[p] = IF job'[p] = "idle" THEN "none" ELSE cmd[p]
           /\ proxy'[p] = (job'[p] # "idle" /\ proxy[p])
<1>1. CAFrame(p)  BY CAFrameHolds DEF PacStep, TypeOK
<1>2. JobFrame(p)
  <2>1. job' = [job EXCEPT ![p] = job[p]] \/ job' = [job EXCEPT ![p] = after]
    BY DEF PacStep, GoTo, TypeOK
  <2> QED BY <2>1 DEF JobFrame, TypeOK
<1>3. KeepRun  BY DEF PacStep
<1>4. RunFrame(p)  BY <1>2, <1>3, KeepRunFrame
<1>5. StateFrame(p)
  <2>1. \E k \in Slot : slot' = [slot EXCEPT ![p] = k]
    BY DEF PacStep, TypeOK, Slot, Writes
  <2>2. trusted' = [trusted EXCEPT ![p] = trusted[p]] /\ trusted[p] \in BOOLEAN
    BY DEF PacStep, TypeOK
  <2>3. platform' = platform /\ program' \subseteq {"binary", "service"}
    BY DEF PacStep, TypeOK
  <2>4. StoreTypeOK'  BY SameStore DEF PacStep, TypeOK
  <2>5. ProxyTypeOK'  BY PacType DEF PacStep, TypeOK
  <2>6. faults' \in Nat  BY FaultType DEF PacStep, Fine, Denied
  <2> QED BY <2>1, <2>2, <2>3, <2>4, <2>5, <2>6 DEF StateFrame
<1>6. Noted(p)  BY DEF PacStep, Fine, Denied, Noted
<1> QED BY <1>1, <1>2, <1>3, <1>4, <1>5, <1>6, KeepRunFrame DEF Frame

LEMMA ForgetFrame ==
    ASSUME TypeOK, NEW p \in Proc, Forget(p), NEW b, Fault(b), orphaned' \in BOOLEAN
    PROVE  Frame(p)
<1>1. CAFrame(p)  BY CAFrameHolds DEF Forget, TypeOK
<1>2. JobFrame(p)  BY DEF Forget, End, GoTo, JobFrame, Step
<1>3. RunFrame(p)  BY DEF Forget, RunFrame, TypeOK
<1>4. StateFrame(p)
  <2>1. slot' = [slot EXCEPT ![p] = 1] /\ 1 \in Slot  BY DEF Forget, Slot
  <2>2. trusted' = [trusted EXCEPT ![p] = FALSE]  BY DEF Forget
  <2>3. platform' = platform /\ program' \subseteq {"binary", "service"}
    BY DEF Forget, TypeOK
  <2>4. StoreTypeOK' /\ ProxyTypeOK'  BY SameStore, SamePac DEF Forget, TypeOK
  <2> QED BY <2>1, <2>2, <2>3, <2>4, FaultType DEF StateFrame
<1> QED BY <1>1, <1>2, <1>3, <1>4 DEF Frame, Noted, Forget

LEMMA StoreTypeStep ==
    ASSUME CATypeOK, StoreTypeOK, UNCHANGED platform,
           \/ UNCHANGED storeVars \/ StoreAnchor \/ WriteAnchor \/ AddToKeychain
           \/ AddToRootStore \/ Extract \/ RemoveAnchor
           \/ DeleteFromKeychain \/ DeleteFromRootStore
    PROVE  StoreTypeOK'
BY DEF CATypeOK, StoreTypeOK, Content, storeVars, StoreAnchor, WriteAnchor, AddToStore,
       AddToKeychain, AddToRootStore, Extract, Extracted, RemoveAnchor, DeleteByName,
       DeleteFromKeychain, DeleteFromRootStore

LEMMA InstallFrame ==
    ASSUME TypeOK, JobInv, NEW p \in Proc, NEW success \in BOOLEAN,
           AfterInstall(p, success), OnlyJob, StoreTypeOK',
           NEW b, Fault(b), NEW own, Note(p, own)
    PROVE  Frame(p)
<1>1. JobFrame(p)  BY DEF AfterInstall, GoTo, End, JobFrame, Step
<1>2. Stop(p) \/ UNCHANGED caVars  BY DEF AfterInstall
<1>3. \E t \in BOOLEAN : trusted' = [trusted EXCEPT ![p] = t]
  <2>1. (success /\ Runs(p)) \in BOOLEAN  OBVIOUS
  <2> QED BY <2>1 DEF AfterInstall
<1> QED BY <1>1, <1>2, <1>3, OnlyJobFrame

LEMMA UninstallFrame ==
    ASSUME TypeOK, JobInv, NEW p \in Proc, OnlyJob, StoreTypeOK',
           UNCHANGED <<caVars, trusted>>, JobFrame(p),
           NEW b, Fault(b), NEW own, Note(p, own)
    PROVE  Frame(p)
<1>1. trusted' = [trusted EXCEPT ![p] = trusted[p]] /\ trusted[p] \in BOOLEAN
  BY DEF TypeOK
<1> QED BY <1>1, OnlyJobFrame

LEMMA AfterUninstallFrame ==
    ASSUME NEW p \in Proc, AfterUninstall(p)
    PROVE  JobFrame(p) /\ UNCHANGED <<caVars, trusted>>
BY DEF AfterUninstall, GoTo, End, JobFrame, Step

LEMMA BeginFrame ==
    ASSUME TypeOK, NEW p \in Proc, NEW c \in Cmd, Begin(p, c)
    PROVE  Frame(p)
<1>1. CAFrame(p)  BY CAFrameHolds DEF Begin, TypeOK
<1>2. First(c) \in Step  BY DEF First, Cmd, Run, Step
<1>3. JobFrame(p)  BY <1>2 DEF Begin, GoTo, JobFrame
<1>4. PICK s \in IF c \in Run THEN may.proxies ELSE {FALSE} :
         proxy' = [proxy EXCEPT ![p] = s]
  BY DEF Begin
<1>5. s \in BOOLEAN
  <2>1. may.proxies \subseteq BOOLEAN  BY DEF TypeOK
  <2> QED BY <1>4, <2>1
<1>6. RunFrame(p)
  BY <1>4, <1>5 DEF Begin, RunFrame, TypeOK
<1>7. StateFrame(p)
  <2>1. slot' = [slot EXCEPT ![p] = slot[p]] /\ slot[p] \in Slot  BY DEF Begin, TypeOK
  <2>2. trusted' = [trusted EXCEPT ![p] = trusted[p]] /\ trusted[p] \in BOOLEAN
    BY DEF Begin, TypeOK
  <2>3. platform' = platform /\ program' \subseteq {"binary", "service"}
    BY DEF Begin, TypeOK
  <2>4. StoreTypeOK' /\ ProxyTypeOK'  BY SameStore, SamePac DEF Begin, TypeOK
  <2>5. orphaned' \in BOOLEAN  BY DEF Begin, KeepOrphan, TypeOK
  <2>6. faults' \in Nat  BY FaultType DEF Begin, Fine
  <2> QED BY <2>1, <2>2, <2>3, <2>4, <2>5, <2>6 DEF StateFrame
<1> QED BY <1>1, <1>3, <1>6, <1>7 DEF Frame, Noted, Begin, Fine

\* Every step of a command, one action after the other.
LEMMA ActFrame ==
    ASSUME TypeOK, JobInv, NEW p \in Proc, Act(p)
    PROVE  Frame(p)
<1> USE DEF Fine, Denied
<1>0. CATypeOK /\ StoreTypeOK /\ ProxyTypeOK /\ trusted[p] \in BOOLEAN
  BY DEF TypeOK
<1>S. ASSUME UNCHANGED storeVars, OnlyJob PROVE StoreTypeOK'
  BY <1>0, <1>S, SameStore DEF OnlyJob
<1>1. CASE LoadOrGenerate(p)
  <2>1. JobFrame(p)
    BY <1>1 DEF LoadOrGenerate, GoTo, JobFrame, AfterLoad, Step
  <2>2. trusted' = [trusted EXCEPT ![p] = trusted[p]]
    BY <1>1 DEF LoadOrGenerate, TypeOK
  <2> QED BY <1>0, <1>1, <1>S, <2>1, <2>2, OnlyJobFrame DEF LoadOrGenerate
<1>2. CASE CheckInstalled(p)
  <2>1. CASE IsCertInstalled
    BY <1>1, <1>2, <1>S, <2>1, InstallFrame DEF CheckInstalled
  <2>2. CASE ~IsCertInstalled
    <3>1. JobFrame(p)  BY <1>2, <2>2 DEF CheckInstalled, GoTo, JobFrame, Step
    <3> QED BY <1>2, <1>S, <2>2, <3>1, UninstallFrame DEF CheckInstalled
  <2> QED BY <2>1, <2>2
<1>3. CASE Apply(p)
  <2>0. StoreTypeOK'
    BY <1>0, <1>3, StoreTypeStep DEF Apply, OnlyJob
  <2>1. CASE UNCHANGED <<caVars, trusted>> /\ (GoTo(p, "confirm") \/ GoTo(p, "update"))
    <3>1. JobFrame(p)  BY <2>1 DEF GoTo, JobFrame, Step
    <3> QED BY <1>3, <2>0, <2>1, <3>1, UninstallFrame DEF Apply
  <2>2. CASE AfterInstall(p, TRUE)
    BY <1>3, <2>0, <2>2, InstallFrame DEF Apply
  <2> QED BY <1>3, <2>1, <2>2 DEF Apply
<1>4. CASE UpdateStore(p)
  <2>1. StoreTypeOK'
    BY <1>0, <1>4, StoreTypeStep DEF UpdateStore, OnlyJob
  <2>2. JobFrame(p)  BY <1>4 DEF UpdateStore, GoTo, JobFrame, Step
  <2> QED BY <1>4, <2>1, <2>2, UninstallFrame DEF UpdateStore
<1>5. CASE Confirm(p)
  <2>1. IsCertInstalled \in BOOLEAN  BY DEF IsCertInstalled
  <2> QED BY <1>5, <1>S, <2>1, InstallFrame DEF Confirm
<1>6. CASE InstallDenied(p)
  BY <1>6, <1>S, InstallFrame DEF InstallDenied
<1>7. CASE Untrust(p)
  <2>1. StoreTypeOK'
    BY <1>0, <1>7, StoreTypeStep DEF Untrust, OnlyJob
  <2>2. JobFrame(p) /\ UNCHANGED <<caVars, trusted>>
    <3>1. CASE GoTo(p, "refresh") /\ UNCHANGED <<caVars, trusted>>
      BY <3>1 DEF GoTo, JobFrame, Step
    <3> QED BY <1>7, <3>1, AfterUninstallFrame DEF Untrust
  <2> QED BY <1>7, <2>1, <2>2, UninstallFrame DEF Untrust
<1>8. CASE UntrustDenied(p)
  <2>1. JobFrame(p) /\ UNCHANGED <<caVars, trusted>>
    <3>1. CASE GoTo(p, "refresh") /\ UNCHANGED <<caVars, trusted>>
      BY <3>1 DEF GoTo, JobFrame, Step
    <3> QED BY <1>8, <3>1, AfterUninstallFrame DEF UntrustDenied
  <2> QED BY <1>8, <1>S, <2>1, UninstallFrame DEF UntrustDenied
<1>9. CASE Refresh(p)
  <2>1. StoreTypeOK'
    BY <1>0, <1>9, StoreTypeStep DEF Refresh, OnlyJob
  <2> QED BY <1>9, <2>1, AfterUninstallFrame, UninstallFrame DEF Refresh
<1>10. CASE RefreshDenied(p)
  BY <1>10, <1>S, AfterUninstallFrame, UninstallFrame DEF RefreshDenied
<1>11. CASE StartServer(p)
  <2>1. CAFrame(p)  BY <1>0, <1>11, CAFrameHolds DEF StartServer
  <2>2. JobFrame(p)  BY <1>11 DEF StartServer, GoTo, JobFrame, Step
  <2>3. RunFrame(p)  BY <1>11 DEF StartServer, RunFrame, TypeOK
  <2>4. StateFrame(p)
    <3>1. slot' = [slot EXCEPT ![p] = slot[p]] /\ slot[p] \in Slot
      BY <1>11 DEF StartServer, TypeOK
    <3>2. trusted' = [trusted EXCEPT ![p] = trusted[p]]
      BY <1>11 DEF StartServer, TypeOK
    <3>3. /\ platform' = platform /\ program' \subseteq {"binary", "service"}
          /\ orphaned' \in BOOLEAN
      BY <1>11 DEF StartServer, KeepOrphan, TypeOK
    <3>4. StoreTypeOK' /\ ProxyTypeOK'
      BY <1>0, <1>11, SameStore, SamePac DEF StartServer
    <3> QED BY <1>0, <1>11, <3>1, <3>2, <3>3, <3>4, FaultType DEF StateFrame, StartServer
  <2> QED BY <1>11, <2>1, <2>2, <2>3, <2>4 DEF Frame, Noted, StartServer
<1>12. CASE Listen(p)
  <2>1. CAFrame(p)  BY <1>0, <1>12, CAFrameHolds DEF Listen
  <2>2. job' = [job EXCEPT ![p] = job[p]] /\ job[p] \in Step
    BY <1>12 DEF Listen, TypeOK
  <2>3. RunFrame(p)  BY <1>12 DEF Listen, RunFrame, TypeOK
  <2>4. StateFrame(p)
    <3>1. slot' = [slot EXCEPT ![p] = slot[p]] /\ slot[p] \in Slot
      BY <1>12 DEF Listen, TypeOK
    <3>2. trusted' = [trusted EXCEPT ![p] = trusted[p]]
      BY <1>12 DEF Listen, TypeOK
    <3>3. /\ platform' = platform /\ program' \subseteq {"binary", "service"}
          /\ orphaned' \in BOOLEAN /\ faults' \in Nat
      BY <1>12 DEF Listen, KeepOrphan, TypeOK
    <3>4. StoreTypeOK' /\ ProxyTypeOK'
      BY <1>0, <1>12, SameStore, SamePac DEF Listen
    <3> QED BY <1>0, <3>1, <3>2, <3>3, <3>4 DEF StateFrame
  <2>5. Noted(p)  BY <1>12 DEF Listen, Noted, caVars, caFiles, storeVars
  <2> QED BY <2>1, <2>2, <2>3, <2>4, <2>5 DEF Frame, JobFrame
<1>13. CASE SetPAC(p)
  <2>1. Set(p) \in Step /\ job[p] # "idle"  BY <1>13 DEF SetPAC, Set, Step
  <2>2. orphaned' \in BOOLEAN  BY <1>13 DEF SetPAC
  <2> QED BY <1>13, <2>1, <2>2, PacFrame DEF SetPAC
<1>14. CASE ClearPAC(p)
  <2>1. Cleared(p) \in Step /\ job[p] # "idle"  BY <1>14 DEF ClearPAC, Cleared, Step
  <2>2. orphaned' \in BOOLEAN  BY <1>14 DEF ClearPAC
  <2> QED BY <1>14, <2>1, <2>2, PacFrame DEF ClearPAC
<1>15. CASE Notify(p)
  <2>1. JobFrame(p)  BY <1>15 DEF Notify, GoTo, JobFrame, Step
  <2> QED BY <1>15, <1>S, <2>1, UninstallFrame DEF Notify
<1>16. CASE ShutDown(p)
  <2>1. JobFrame(p)  BY <1>16 DEF ShutDown, Leave, GoTo, JobFrame, Step
  <2> QED BY <1>16, <1>S, <2>1, UninstallFrame DEF ShutDown
<1>17. CASE Exit(p)
  <2>1. orphaned' \in BOOLEAN  BY <1>17 DEF Exit, KeepOrphan, TypeOK
  <2> QED BY <1>17, <2>1, ForgetFrame DEF Exit
<1>18. CASE Install(p) \/ DeleteProgram(p)
  <2>1. CAFrame(p)  BY <1>0, <1>18, CAFrameHolds DEF Install, DeleteProgram
  <2>2. JobFrame(p)
    BY <1>18 DEF Install, DeleteProgram, End, GoTo, JobFrame, Step
  <2>3. RunFrame(p)  BY <1>18, <2>2, KeepRunFrame DEF Install, DeleteProgram
  <2>4. StateFrame(p)
    <3>1. slot' = [slot EXCEPT ![p] = slot[p]] /\ slot[p] \in Slot
      BY <1>18 DEF Install, DeleteProgram, TypeOK
    <3>2. trusted' = [trusted EXCEPT ![p] = trusted[p]]
      BY <1>18 DEF Install, DeleteProgram, TypeOK
    <3>3. platform' = platform /\ orphaned' \in BOOLEAN
      BY <1>18 DEF Install, DeleteProgram, KeepOrphan, TypeOK
    <3>4. program' \subseteq {"binary", "service"}
      BY <1>18 DEF Install, DeleteProgram, TypeOK
    <3>5. StoreTypeOK' /\ ProxyTypeOK'
      BY <1>0, <1>18, SameStore, SamePac DEF Install, DeleteProgram
    <3>6. faults' \in Nat  BY <1>18, FaultType DEF Install, DeleteProgram
    <3> QED BY <1>0, <3>1, <3>2, <3>3, <3>4, <3>5, <3>6 DEF StateFrame
  <2>5. Noted(p)  BY <1>18 DEF Install, DeleteProgram, Noted
  <2> QED BY <2>1, <2>2, <2>3, <2>4, <2>5 DEF Frame
<1>19. CASE EraseFiles(p)
  <2>1. CAFrame(p)
    BY <1>0, <1>19 DEF EraseFiles, CAFrame, CATypeOK, caProc, Content
  <2>2. JobFrame(p)  BY <1>19 DEF EraseFiles, End, GoTo, JobFrame, Step
  <2>3. RunFrame(p)  BY <1>19, <2>2, KeepRunFrame DEF EraseFiles, OnlyJob
  <2>4. StateFrame(p)
    <3>1. slot' = [slot EXCEPT ![p] = slot[p]] /\ slot[p] \in Slot
      BY <1>19 DEF EraseFiles, OnlyJob, TypeOK
    <3>2. trusted' = [trusted EXCEPT ![p] = trusted[p]]
      BY <1>19 DEF EraseFiles, TypeOK
    <3>3. /\ platform' = platform /\ program' \subseteq {"binary", "service"}
          /\ orphaned' \in BOOLEAN
      BY <1>19 DEF EraseFiles, OnlyJob, KeepOrphan, TypeOK
    <3>4. StoreTypeOK'  BY <1>19, <1>S DEF EraseFiles
    <3>5. ProxyTypeOK'  BY <1>0, <1>19, SamePac DEF EraseFiles, OnlyJob
    <3>6. faults' \in Nat  BY <1>19, FaultType DEF EraseFiles, Fine, Denied
    <3> QED BY <1>0, <3>1, <3>2, <3>3, <3>4, <3>5, <3>6 DEF StateFrame
  <2>5. Noted(p)  BY <1>19 DEF EraseFiles, Noted, Fine, Denied
  <2> QED BY <2>1, <2>2, <2>3, <2>4, <2>5 DEF Frame
<1> QED BY <1>1, <1>2, <1>3, <1>4, <1>5, <1>6, <1>7, <1>8, <1>9, <1>10, <1>11, <1>12,
           <1>13, <1>14, <1>15, <1>16, <1>17, <1>18, <1>19 DEF Act

LEMMA KillFrame ==
    ASSUME TypeOK, NEW p \in Proc, Kill(p)
    PROVE  Frame(p)
<1>1. orphaned' \in BOOLEAN
  <2>1. (orphaned \/ (PacOn /\ job[p] \in {"set", "notify", "serve", "clear"})) \in BOOLEAN
    OBVIOUS
  <2> QED BY <2>1 DEF Kill
<1> QED BY <1>1, ForgetFrame DEF Kill

\* The initial state has its types, with and without a CA from an earlier run.
LEMMA InitType == Init => TypeOK
<1> SUFFICES ASSUME Init PROVE TypeOK  OBVIOUS
<1>1. may \in Scenario /\ may.saved \in BOOLEAN  BY DEF Init
<1>2. CATypeOK
  BY <1>1 DEF Init, CAInit, CATypeOK, Content, Point
<1>3. StoreTypeOK  BY DEF Init, StoreInit, StoreTypeOK, Content
<1>4. ProxyTypeOK  BY DEF Init, ProxyInit, ProxyTypeOK
<1>5. /\ job \in [Proc -> Step] /\ slot \in [Proc -> Slot]
      /\ cmd \in [Proc -> Cmd \cup {"none"}]
      /\ proxy \in [Proc -> BOOLEAN] /\ trusted \in [Proc -> BOOLEAN]
      /\ server \in [Proc -> {"off", "starting", "listening", "failed"}]
  BY DEF Init, Step, Slot
<1>6. /\ program \subseteq {"binary", "service"} /\ faults \in Nat
      /\ mar \in [Proc -> SUBSET {"denied", "lost", "grown", "pac"}]
      /\ orphaned \in BOOLEAN
  BY DEF Init
<1> QED BY <1>1, <1>2, <1>3, <1>4, <1>5, <1>6 DEF TypeOK

\* A frame keeps every variable in its type.
LEMMA FrameType ==
    ASSUME TypeOK, NEW p \in Proc, Frame(p), UNCHANGED may
    PROVE  TypeOK'
<1>1. may' \in Scenario /\ CATypeOK' /\ StoreTypeOK' /\ ProxyTypeOK'
  BY DEF TypeOK, Frame, CAFrame, StateFrame
<1>2. job' \in [Proc -> Step]  BY DEF TypeOK, Frame, JobFrame
<1>3. /\ cmd' \in [Proc -> Cmd \cup {"none"}] /\ proxy' \in [Proc -> BOOLEAN]
      /\ server' \in [Proc -> {"off", "starting", "listening", "failed"}]
  BY DEF Frame, RunFrame
<1>4. slot' \in [Proc -> Slot] /\ trusted' \in [Proc -> BOOLEAN]
  BY DEF TypeOK, Frame, StateFrame
<1>5. program' \subseteq {"binary", "service"} /\ faults' \in Nat /\ orphaned' \in BOOLEAN
  BY DEF Frame, StateFrame
<1>6. mar' \in [Proc -> SUBSET {"denied", "lost", "grown", "pac"}]
  BY NoteType DEF TypeOK, Frame, Noted, Mar
<1> QED BY <1>1, <1>2, <1>3, <1>4, <1>5, <1>6 DEF TypeOK

-----------------------------------------------------------------------------
(* What a step of p leaves to be said of another process q *)

LEMMA Untouched ==
    ASSUME TypeOK, NEW p \in Proc, Frame(p), NEW q \in Proc, q # p
    PROVE  /\ job'[q] = job[q] /\ cmd'[q] = cmd[q] /\ proxy'[q] = proxy[q]
           /\ slot'[q] = slot[q] /\ trusted'[q] = trusted[q]
           /\ at'[q] = at[q] /\ seen'[q] = seen[q] /\ root'[q] = root[q]
           /\ platform' = platform
BY DEF TypeOK, Frame, CAFrame, JobFrame, RunFrame, StateFrame

\* What was not noted of q did not happen.
LEMMA NotedOfOther ==
    ASSUME TypeOK, NEW p \in Proc, Frame(p), NEW q \in Proc, q # p, job[q] # "idle"
    PROVE  /\ Runs(q) /\ "lost" \notin mar'[q] =>
                 /\ "lost" \notin mar[q]
                 /\ certFile' = certFile /\ bundle \subseteq bundle'
           /\ Runs(q) /\ mar'[q] \cap {"denied", "pac"} = {} =>
                 mar[q] \cap {"denied", "pac"} = {} /\ pac' = pac
           /\ cmd[q] = "uninstall" /\ mar'[q] = {} =>
                 /\ mar[q] = {} /\ certFile' = certFile /\ anchor' = anchor
                 /\ bundle' = bundle /\ program' \subseteq program /\ pac' = pac
<1>1. CASE UNCHANGED <<mar, job, cmd, certFile, anchor, bundle, program, pac>>
  BY <1>1
<1>2. ASSUME NEW own, Note(p, own)
      PROVE  mar'[q] = (mar[q] \cup Disturbance) \cap Relevant(cmd[q])
  BY <1>2, Untouched DEF Note
<1>3. Runs(q) => Relevant(cmd[q]) = {"denied", "lost", "pac"}
  BY DEF Runs, Relevant
<1>4. cmd[q] = "uninstall" => Relevant(cmd[q]) = Mar
  BY DEF Relevant, Run, Mar
<1>5. /\ certFile' # certFile \/ anchor' # anchor \/ ~(bundle \subseteq bundle')
            => "lost" \in Disturbance
      /\ ~(bundle' \subseteq bundle) \/ ~(program' \subseteq program)
            => "grown" \in Disturbance
      /\ pac' # pac => "pac" \in Disturbance
  BY DEF Disturbance
<1>6. mar[q] \subseteq Mar  BY DEF TypeOK, Mar
<1>7. ASSUME NEW own, Note(p, own), Runs(q)
      PROVE  /\ "lost" \notin mar'[q] => "lost" \notin mar[q] /\ "lost" \notin Disturbance
             /\ mar'[q] \cap {"denied", "pac"} = {} =>
                  mar[q] \cap {"denied", "pac"} = {} /\ "pac" \notin Disturbance
  BY <1>2, <1>3, <1>7
<1>8. ASSUME NEW own, Note(p, own), cmd[q] = "uninstall", mar'[q] = {}
      PROVE  mar[q] = {} /\ Disturbance \cap Mar = {}
  BY <1>2, <1>4, <1>6, <1>8
<1>9. CASE \E own : Note(p, own)
  BY <1>5, <1>7, <1>8, <1>9 DEF Mar
<1> QED BY <1>1, <1>9 DEF Frame, Noted

\* Everything that the invariant says of one process.
ProcOf(q) == JobOf(q) /\ TrustOf(q) /\ UsedOf(q) /\ UninstallOf(q)

LEMMA OtherKept ==
    ASSUME TypeOK, JobInv, NEW p \in Proc, Frame(p), NEW q \in Proc, q # p, ProcOf(q)
    PROVE  ProcOf(q)'
<1>1. /\ job'[q] = job[q] /\ cmd'[q] = cmd[q] /\ proxy'[q] = proxy[q]
      /\ slot'[q] = slot[q] /\ trusted'[q] = trusted[q]
      /\ at'[q] = at[q] /\ seen'[q] = seen[q] /\ root'[q] = root[q]
      /\ platform' = platform
  BY Untouched
<1>2. (Runs(q))' = Runs(q)  BY <1>1 DEF Runs
<1>3. JobOf(q)'  BY <1>1, <1>2 DEF ProcOf, JobOf
<1>4. CASE job[q] = "idle"
  <2>1. cmd[q] = "none" /\ ~proxy[q]  BY <1>4, Idle
  <2>2. ~Runs(q)  BY <2>1 DEF Runs, Run
  <2> QED BY <1>1, <1>2, <1>3, <2>1, <2>2 DEF ProcOf, TrustOf, UsedOf, UninstallOf
<1>5. CASE job[q] # "idle"
  <2>1. TrustOf(q)'
    BY <1>1, <1>2, <1>5, NotedOfOther DEF ProcOf, TrustOf
  <2>2. UsedOf(q)'
    BY <1>1, <1>2, <1>5, NotedOfOther DEF ProcOf, JobOf, UsedOf
  <2>3. UninstallOf(q)'
    BY <1>1, <1>5, NotedOfOther DEF ProcOf, UninstallOf, PacOn
  <2> QED BY <1>3, <2>1, <2>2, <2>3 DEF ProcOf
<1> QED BY <1>4, <1>5

-----------------------------------------------------------------------------
(* What a step of p leaves to be said of p, and of the state they share *)

Kept(p) == ProcOf(p)' /\ StoreInv' /\ OwnedInv'

\* What p noted of itself.
LEMMA NotedOfSelf ==
    ASSUME TypeOK, NEW p \in Proc, NEW own, Note(p, own),
           job'[p] # "idle", cmd'[p] = cmd[p]
    PROVE  /\ Runs(p) /\ "lost" \notin mar'[p] => "lost" \notin mar[p]
           /\ Runs(p) /\ mar'[p] \cap {"denied", "pac"} = {} =>
                 mar[p] \cap {"denied", "pac"} = {} /\ "denied" \notin own
           /\ cmd[p] = "uninstall" /\ mar'[p] = {} =>
                 mar[p] = {} /\ "denied" \notin own
<1>1. mar'[p] = (mar[p] \cup own) \cap Relevant(cmd[p])
  BY DEF Note
<1>2. Runs(p) => Relevant(cmd[p]) = {"denied", "lost", "pac"}
  BY DEF Runs, Relevant
<1>3. cmd[p] = "uninstall" => Relevant(cmd[p]) = Mar
  BY DEF Relevant, Run, Mar
<1>4. mar[p] \subseteq Mar  BY DEF TypeOK, Mar
<1> QED BY <1>1, <1>2, <1>3, <1>4 DEF Mar

\* A command that has ended has nothing left to answer for.
LEMMA EndedKept ==
    ASSUME NEW p \in Proc, job'[p] = "idle", cmd'[p] = "none", ~proxy'[p],
           ~trusted'[p], slot'[p] = 1
    PROVE  ProcOf(p)'
<1>1. ~(Runs(p))'  BY DEF Runs, Run
<1>2. 1 <= Writes(platform')  BY DEF Writes
<1> QED BY <1>1, <1>2, RunSteps DEF ProcOf, JobOf, TrustOf, UsedOf, UninstallOf

\* The proxy setting stays somebody's as long as nobody gives it up.
LEMMA OwnerKept ==
    ASSUME TypeOK, NEW p \in Proc, Frame(p), OwnedInv, pac' = pac,
           orphaned => orphaned', \A k \in Slot : Owns(p, k) => (orphaned' \/ Owns(p, k)')
    PROVE  OwnedInv'
<1> SUFFICES ASSUME NEW k \in Slot, pac[k]
             PROVE  orphaned' \/ \E q \in Proc : Owns(q, k)'
  BY DEF OwnedInv
<1>1. CASE orphaned  BY <1>1
<1>2. ASSUME NEW q \in Proc, Owns(q, k) PROVE orphaned' \/ \E r \in Proc : Owns(r, k)'
  <2>1. CASE q = p  BY <1>2, <2>1
  <2>2. CASE q # p  BY <1>2, <2>2, Untouched DEF Owns, Runs
  <2> QED BY <2>1, <2>2
<1> QED BY <1>1, <1>2 DEF OwnedInv

\* The steps about the CA and the trust store.
Early == {"load", "check", "apply", "update", "confirm", "remove", "refresh", "erase"}

LEMMA EarlyStep ==
    ASSUME HostInv, NEW p \in Proc, Frame(p), OnlyJob, job[p] \in Early,
           job'[p] \in Early \cup {"idle", "listen"}
    PROVE  /\ OwnedInv' /\ UsedOf(p)'
           /\ cmd'[p] = IF job'[p] = "idle" THEN "none" ELSE cmd[p]
           /\ proxy'[p] => job'[p] # "idle" /\ Runs(p)
           /\ slot'[p] = 1 /\ platform' = platform /\ pac' = pac /\ program' = program
           /\ ~trusted[p]
<1>1. TypeOK /\ JobInv /\ JobOf(p) /\ OwnedInv  BY DEF HostInv, JobInv
<1>2. slot'[p] = 1 /\ platform' = platform /\ pac' = pac /\ program' = program
  BY <1>1 DEF OnlyJob, JobOf, Early
<1>3. ~trusted[p]  BY <1>1 DEF JobOf, Early, Serving
<1>4. /\ cmd'[p] = IF job'[p] = "idle" THEN "none" ELSE cmd[p]
      /\ proxy'[p] = (job'[p] # "idle" /\ proxy[p])
  BY <1>1, KeepRunFrame DEF OnlyJob, Frame
<1>5. OwnedInv'
  <2>1. \A k \in Slot : ~Owns(p, k)  BY DEF Owns, Early
  <2>2. orphaned' = orphaned  BY DEF OnlyJob, KeepOrphan
  <2> QED BY <1>1, <1>2, <2>1, <2>2, OwnerKept
<1>6. UsedOf(p)'  BY DEF UsedOf, Early
<1> QED BY <1>1, <1>2, <1>3, <1>4, <1>5, <1>6 DEF JobOf

LEMMA SameStoreInv ==
    ASSUME StoreInv, UNCHANGED <<platform, stored, bundle, pac>>
    PROVE  StoreInv'
BY DEF StoreInv

\* NewCertificateManager: what was read and what was written is root.crt's.
LEMMA LoadKept ==
    ASSUME HostInv, NEW p \in Proc, LoadOrGenerate(p), Frame(p)
    PROVE  Kept(p)
<1>1. TypeOK /\ JobOf(p) /\ TrustOf(p) /\ UninstallOf(p) /\ StoreInv
  BY DEF HostInv, JobInv, TrustInv, UninstallInv
<1>2. job'[p] = IF at'[p] = "ready" THEN AfterLoad(p) ELSE "load"
  BY <1>1 DEF TypeOK, LoadOrGenerate, GoTo
<1>3. /\ job[p] = "load" /\ at[p] # "ready"
      /\ job'[p] \in {"load", "listen", "remove", "check"}
  BY <1>1, <1>2 DEF LoadOrGenerate, JobOf, AfterLoad
<1>4. /\ OwnedInv' /\ UsedOf(p)' /\ cmd'[p] = cmd[p] /\ (proxy'[p] => Runs(p))
      /\ slot'[p] = 1 /\ platform' = platform /\ pac' = pac /\ program' = program
      /\ ~trusted'[p]
  BY <1>3, EarlyStep DEF LoadOrGenerate, Early
<1>5. cmd[p] \in Run \cup {"install-cert"}
  BY <1>1, <1>3, RunSteps DEF JobOf, TypeOK, Cmd
<1>6. JobOf(p)'
  <2>1. job'[p] \in StepsOf(cmd'[p])
    BY <1>2, <1>3, <1>4, <1>5, RunSteps DEF AfterLoad, Run
  <2>2. job'[p] = "load" <=> at'[p] # "ready"
    BY <1>2 DEF AfterLoad
  <2>3. 1 <= Writes(platform)  BY DEF Writes
  <2> QED BY <1>3, <1>4, <2>1, <2>2, <2>3 DEF JobOf, Runs
<1>7. TrustOf(p)'
  <2> SUFFICES ASSUME Runs(p), "lost" \notin mar'[p]
               PROVE  /\ at'[p] = "readKey" => seen'[p] = certFile'
                      /\ at'[p] = "writeCert" => certFile' = Cut
                      /\ at'[p] \in {"createKey", "writeKey", "ready"} => certFile' = root'[p]
    BY <1>4 DEF TrustOf, Runs
  <2>1. "lost" \notin mar[p]
    BY <1>1, <1>3, <1>4, NotedOfSelf DEF LoadOrGenerate, Fine
  <2>2. /\ at[p] = "readKey" => seen[p] = certFile
        /\ at[p] = "writeCert" => certFile = Cut
        /\ at[p] \in {"createKey", "writeKey", "ready"} => certFile = root[p]
    BY <1>1, <2>1 DEF TrustOf
  <2> USE DEF MoveTo, Take, caFiles
  <2>3. CATypeOK  BY <1>1 DEF TypeOK
  <2>4. CASE ReadCert(p)  BY <2>3, <2>4 DEF ReadCert, CATypeOK
  <2>5. CASE ReadKey(p)  BY <2>2, <2>3, <2>5 DEF ReadKey, CATypeOK
  <2>6. CASE GenerateCA(p)  BY <2>3, <2>6 DEF GenerateCA, CATypeOK
  <2>7. CASE SaveCert(p)  BY <2>2, <2>3, <2>7 DEF SaveCert, Written, CATypeOK
  <2>8. CASE SaveKey(p)  BY <2>2, <2>3, <2>8 DEF SaveKey, CATypeOK
  <2>9. CASE ReadFails(p)  BY <2>3, <2>9 DEF ReadFails, CATypeOK
  <2> QED BY <2>4, <2>5, <2>6, <2>7, <2>8, <2>9 DEF LoadOrGenerate, CAStep
<1>8. UninstallOf(p)'  BY <1>4, <1>5 DEF UninstallOf, Run
<1>9. StoreInv'
  BY <1>1, <1>4, SameStoreInv DEF LoadOrGenerate, storeVars
<1> QED BY <1>4, <1>6, <1>7, <1>8, <1>9 DEF Kept, ProcOf

\* The end of installCertPlatform: a success is a CA that the system trusts.
LEMMA InstallKept ==
    ASSUME HostInv, NEW p \in Proc, Frame(p), job[p] \in {"check", "apply", "update", "confirm"},
           NEW success \in BOOLEAN, AfterInstall(p, success), OnlyJob, StoreInv',
           bundle \subseteq bundle', success => certFile \in bundle',
           NEW own, Note(p, own)
    PROVE  Kept(p)
<1>1. TypeOK /\ JobOf(p) /\ TrustOf(p)
  BY DEF HostInv, JobInv, TrustInv
<1>2. job'[p] = IF Runs(p) THEN "listen" ELSE "idle"
  BY <1>1 DEF TypeOK, AfterInstall, GoTo, End
<1>3. /\ OwnedInv' /\ UsedOf(p)' /\ cmd'[p] = IF Runs(p) THEN cmd[p] ELSE "none"
      /\ (proxy'[p] => Runs(p)) /\ slot'[p] = 1 /\ platform' = platform
  BY <1>2, EarlyStep DEF Early
<1>4. trusted'[p] = (success /\ Runs(p))
  BY <1>1 DEF AfterInstall, TypeOK
<1>5. CASE ~Runs(p)
  <2>1. ~proxy'[p]  BY <1>3, <1>5
  <2> QED BY <1>2, <1>3, <1>4, <1>5, <2>1, EndedKept DEF Kept
<1>6. CASE Runs(p)
  <2>1. /\ certFile' = certFile /\ root' = root /\ at' = at
    BY <1>6 DEF AfterInstall, caVars, caFiles, caProc
  <2>2. at[p] = "ready" /\ (Runs(p))' /\ job'[p] = "listen"
    BY <1>1, <1>2, <1>3, <1>6 DEF JobOf, Runs
  <2>3. 1 <= Writes(platform)  BY DEF Writes
  <2>4. JobOf(p)'
    BY <1>3, <1>6, <2>1, <2>2, <2>3, RunSteps DEF JobOf, Runs, Serving
  <2>5. TrustOf(p)'
    <3> SUFFICES ASSUME "lost" \notin mar'[p]
                 PROVE  certFile' = root'[p] /\ (trusted'[p] => root'[p] \in bundle')
      BY <2>1, <2>2 DEF TrustOf
    <3>1. "lost" \notin mar[p]  BY <1>1, <1>3, <1>6, <2>2, NotedOfSelf
    <3>2. certFile = root[p]  BY <1>1, <1>6, <2>2, <3>1 DEF TrustOf
    <3> QED BY <1>4, <2>1, <3>2
  <2>6. UninstallOf(p)'  BY <1>3, <1>6 DEF UninstallOf, Runs, Run
  <2> QED BY <1>3, <2>4, <2>5, <2>6 DEF Kept, ProcOf
<1> QED BY <1>5, <1>6

\* A step within installCertPlatform or uninstallCertPlatform.
LEMMA WithinKept ==
    ASSUME HostInv, NEW p \in Proc, Frame(p), OnlyJob, UNCHANGED <<caVars, trusted>>,
           job[p] \in Early \ {"load", "erase"}, StoreInv', NEW own, Note(p, own),
           \/ /\ job[p] \in {"check", "apply", "update"}
              /\ job'[p] \in {"apply", "update", "confirm"}
           \/ /\ job[p] = "remove" /\ job'[p] = "refresh"
              /\ anchor' = None \/ "denied" \in own
           \/ /\ job[p] \in {"remove", "refresh"}
              /\ job'[p] = IF Runs(p) THEN "check"
                           ELSE IF cmd[p] = "uninstall" THEN "erase" ELSE "idle"
              /\ cmd[p] = "uninstall" /\ mar[p] = {} =>
                    platform = "trust" \/ bundle' = {} \/ "denied" \in own
    PROVE  Kept(p)
<1>1. TypeOK /\ JobOf(p) /\ TrustOf(p) /\ UninstallOf(p)
  BY DEF HostInv, JobInv, TrustInv, UninstallInv
<1>2. job'[p] \in (Early \ {"load"}) \cup {"idle"}
  BY DEF Early
<1>3. /\ OwnedInv' /\ UsedOf(p)' /\ cmd'[p] = IF job'[p] = "idle" THEN "none" ELSE cmd[p]
      /\ (proxy'[p] => job'[p] # "idle" /\ Runs(p)) /\ slot'[p] = 1
      /\ platform' = platform /\ pac' = pac /\ program' = program /\ ~trusted'[p]
  BY <1>2, EarlyStep DEF Early
<1>4. CASE job'[p] = "idle"
  <2>1. ~proxy'[p]  BY <1>3, <1>4
  <2> QED BY <1>3, <1>4, <2>1, EndedKept DEF Kept
<1>5. CASE job'[p] # "idle"
  <2>1. /\ certFile' = certFile /\ root' = root /\ at' = at /\ cmd'[p] = cmd[p]
        /\ ((Runs(p))' <=> Runs(p))
    BY <1>3, <1>5 DEF caVars, caFiles, caProc, Runs
  <2>2. cmd[p] \in Cmd /\ job[p] # "load" /\ job[p] # "idle" /\ job[p] \in StepsOf(cmd[p])
    BY <1>1, RunSteps DEF TypeOK, JobOf, Early
  <2>3. JobOf(p)'
    <3>1. job'[p] \in StepsOf(cmd[p])
      <4>1. CASE Runs(p)  BY <4>1, <1>2, <1>5, <2>2, RunSteps DEF Runs, Run
      <4>2. CASE ~Runs(p)  BY <4>2, <1>2, <1>5, <2>2, RunSteps DEF Runs, Cmd
      <4> QED BY <4>1, <4>2
    <3>2. 1 <= Writes(platform)  BY DEF Writes
    <3>3. job'[p] \notin {"load", "set"}  BY <1>2 DEF Early
    <3> QED BY <1>1, <1>3, <2>1, <2>2, <3>1, <3>2, <3>3 DEF JobOf
  <2>4. TrustOf(p)'
    <3> SUFFICES ASSUME Runs(p), "lost" \notin mar'[p]
                 PROVE  certFile' = root'[p] /\ at'[p] = "ready"
      BY <1>3, <2>1 DEF TrustOf
    <3>1. at[p] = "ready"  BY <1>1, <2>2 DEF JobOf
    <3>2. "lost" \notin mar[p]  BY <1>1, <1>5, <2>1, NotedOfSelf
    <3> QED BY <1>1, <2>1, <3>1, <3>2 DEF TrustOf
  <2>5. UninstallOf(p)'
    <3> SUFFICES ASSUME cmd[p] = "uninstall", mar'[p] = {} PROVE UninstallOf(p)'
      BY <2>1 DEF UninstallOf
    <3>1. mar[p] = {} /\ "denied" \notin own
      BY <1>1, <1>5, <2>1, NotedOfSelf
    <3>2. job[p] \in {"remove", "refresh"} /\ ~Runs(p)
      BY <2>2, RunSteps DEF Early, Runs, Run
    <3>3. program = {} /\ ~PacOn
      BY <1>1, <3>1, <3>2 DEF UninstallOf
    <3>4. job'[p] \in {"refresh", "erase"}  BY <3>2
    <3>5. program' = {} /\ ~PacOn'  BY <1>3, <3>3 DEF PacOn
    <3>6. job'[p] = "refresh" => anchor' = None  BY <3>1, <3>2
    <3>7. job'[p] = "erase" /\ platform' # "trust" => bundle' = {}
      BY <1>3, <3>1, <3>2
    <3> QED BY <3>4, <3>5, <3>6, <3>7 DEF UninstallOf
  <2> QED BY <1>3, <2>3, <2>4, <2>5 DEF Kept, ProcOf
<1> QED BY <1>4, <1>5

\* What the tools of the platform do to the trust store.
LEMMA StoreKept ==
    ASSUME StoreInv, UNCHANGED <<platform, pac>>,
           \/ UNCHANGED storeVars \/ StoreAnchor \/ WriteAnchor \/ AddToKeychain
           \/ AddToRootStore \/ Extract \/ RemoveAnchor
           \/ DeleteFromKeychain \/ DeleteFromRootStore
    PROVE  StoreInv'
<1> USE FS_AddElement, FS_Subset, FS_Union, FS_EmptySet, FS_Singleton DEF StoreInv
<1>1. CASE UNCHANGED storeVars \/ WriteAnchor \/ RemoveAnchor
  BY <1>1 DEF storeVars, WriteAnchor, RemoveAnchor
<1>2. CASE StoreAnchor  BY <1>2 DEF StoreAnchor
<1>3. CASE AddToKeychain \/ AddToRootStore
  BY <1>3 DEF AddToKeychain, AddToRootStore, AddToStore
<1>4. CASE Extract
  <2>1. IsFiniteSet({anchor} \cap Authority)
    BY FS_Singleton, FS_Subset, {anchor} \cap Authority \subseteq {anchor}
  <2> QED BY <1>4, <2>1 DEF Extract, Extracted
<1>5. CASE DeleteFromKeychain \/ DeleteFromRootStore
  BY <1>5 DEF DeleteFromKeychain, DeleteFromRootStore, DeleteByName
<1> QED BY <1>1, <1>2, <1>3, <1>4, <1>5

LEMMA InstallActions ==
    ASSUME HostInv, NEW p \in Proc, Frame(p),
           CheckInstalled(p) \/ Apply(p) \/ UpdateStore(p) \/ Confirm(p) \/ InstallDenied(p)
    PROVE  Kept(p)
<1> USE DEF Fine, Denied
<1>0. TypeOK /\ StoreInv  BY DEF HostInv
<1>1. StoreInv'
  BY <1>0, StoreKept DEF CheckInstalled, Apply, UpdateStore, Confirm, InstallDenied, OnlyJob
<1>2. CASE CheckInstalled(p)
  <2>1. CASE IsCertInstalled
    <3>1. bundle' = bundle /\ certFile \in bundle
      BY <1>2, <2>1 DEF CheckInstalled, IsCertInstalled, storeVars
    <3> QED BY <1>1, <1>2, <2>1, <3>1, InstallKept DEF CheckInstalled
  <2>2. CASE ~IsCertInstalled
    <3>1. job'[p] = "apply"  BY <1>0, <1>2, <2>2 DEF CheckInstalled, GoTo, TypeOK
    <3> QED BY <1>1, <1>2, <2>2, <3>1, WithinKept DEF CheckInstalled, Early
  <2> QED BY <2>1, <2>2
<1>3. CASE Apply(p)
  <2>1. CASE UNCHANGED <<caVars, trusted>> /\ (GoTo(p, "confirm") \/ GoTo(p, "update"))
    <3>1. job'[p] \in {"confirm", "update"}  BY <1>0, <2>1 DEF GoTo, TypeOK
    <3> QED BY <1>1, <1>3, <2>1, <3>1, WithinKept DEF Apply, Early
  <2>2. CASE (AddToKeychain \/ AddToRootStore) /\ AfterInstall(p, TRUE)
    <3>1. bundle \subseteq bundle' /\ certFile \in bundle'
      BY <2>2 DEF AddToKeychain, AddToRootStore, AddToStore
    <3> QED BY <1>1, <1>3, <2>2, <3>1, InstallKept DEF Apply
  <2> QED BY <1>3, <2>1, <2>2 DEF Apply
<1>4. CASE UpdateStore(p)
  <2>1. job'[p] = "confirm"  BY <1>0, <1>4 DEF UpdateStore, GoTo, TypeOK
  <2> QED BY <1>1, <1>4, <2>1, WithinKept DEF UpdateStore, Early
<1>5. CASE Confirm(p)
  <2>1. bundle' = bundle /\ (IsCertInstalled => certFile \in bundle')
    BY <1>5 DEF Confirm, IsCertInstalled, storeVars
  <2>2. IsCertInstalled \in BOOLEAN  BY DEF IsCertInstalled
  <2> QED BY <1>1, <1>5, <2>1, <2>2, InstallKept DEF Confirm
<1>6. CASE InstallDenied(p)
  <2>1. bundle' = bundle  BY <1>6 DEF InstallDenied, storeVars
  <2> QED BY <1>1, <1>6, <2>1, InstallKept DEF InstallDenied
<1> QED BY <1>2, <1>3, <1>4, <1>5, <1>6

LEMMA UninstallActions ==
    ASSUME HostInv, NEW p \in Proc, Frame(p),
           Untrust(p) \/ UntrustDenied(p) \/ Refresh(p) \/ RefreshDenied(p)
    PROVE  Kept(p)
<1> USE DEF Fine, Denied
<1>0. TypeOK /\ StoreInv /\ UninstallOf(p)  BY DEF HostInv, UninstallInv
<1>1. StoreInv'
  BY <1>0, StoreKept DEF Untrust, UntrustDenied, Refresh, RefreshDenied, OnlyJob
<1>2. ASSUME AfterUninstall(p)
      PROVE  /\ job'[p] = IF Runs(p) THEN "check"
                          ELSE IF cmd[p] = "uninstall" THEN "erase" ELSE "idle"
             /\ UNCHANGED <<caVars, trusted>>
  BY <1>0, <1>2 DEF AfterUninstall, GoTo, End, TypeOK
<1>3. ASSUME GoTo(p, "refresh") PROVE job'[p] = "refresh"
  BY <1>0, <1>3 DEF GoTo, TypeOK
<1>4. CASE Untrust(p)
  <2> DEFINE own == IF Cardinality(bundle) > 1 THEN {"denied"} ELSE {}
  <2>1. CASE RemoveAnchor /\ GoTo(p, "refresh") /\ UNCHANGED <<caVars, trusted>>
    <3>1. anchor' = None  BY <2>1 DEF RemoveAnchor
    <3> QED BY <1>1, <1>3, <1>4, <2>1, <3>1, WithinKept DEF Untrust, Early
  <2>2. CASE (DeleteFromKeychain \/ DeleteFromRootStore) /\ AfterUninstall(p)
    <3>1. Cardinality(bundle) \in Nat  BY <1>0, FS_CardinalityType DEF StoreInv
    <3>2. bundle' = {} \/ "denied" \in own
      BY <2>2, <3>1 DEF DeleteFromKeychain, DeleteFromRootStore, DeleteByName
    <3> QED BY <1>1, <1>2, <1>4, <2>2, <3>2, WithinKept DEF Untrust, Early
  <2> QED BY <1>4, <2>1, <2>2 DEF Untrust
<1>5. CASE UntrustDenied(p)
  <2>1. "denied" \in {"denied"}  OBVIOUS
  <2> QED BY <1>1, <1>2, <1>3, <1>5, <2>1, WithinKept DEF UntrustDenied, Early
<1>6. CASE Refresh(p)
  <2>1. cmd[p] = "uninstall" /\ mar[p] = {} => platform = "trust" \/ bundle' = {}
    <3>1. {None} \cap Authority = {}  BY CertAuthorityAssumption
    <3> QED BY <1>0, <1>6, <3>1 DEF Refresh, Extract, Extracted, UninstallOf, StoreInv
  <2> QED BY <1>1, <1>2, <1>6, <2>1, WithinKept DEF Refresh, Early
<1>7. CASE RefreshDenied(p)
  <2>1. "denied" \in {"denied"}  OBVIOUS
  <2> QED BY <1>1, <1>2, <1>7, <2>1, WithinKept DEF RefreshDenied, Early
<1> QED BY <1>4, <1>5, <1>6, <1>7

\* A command starts: it has no certificate, and nothing was noted of it.
LEMMA BeginKept ==
    ASSUME HostInv, NEW p \in Proc, NEW c \in Cmd, Begin(p, c), Frame(p)
    PROVE  Kept(p)
<1>1. TypeOK /\ JobInv /\ JobOf(p) /\ StoreInv /\ OwnedInv
  BY DEF HostInv, JobInv
<1>2. /\ job[p] = "idle" /\ job'[p] = First(c) /\ cmd'[p] = c
      /\ trusted' = trusted /\ slot' = slot /\ platform' = platform /\ pac' = pac
  BY <1>1 DEF Begin, GoTo, TypeOK
<1>3. cmd[p] = "none" /\ ~trusted[p] /\ slot[p] = 1
  BY <1>1, <1>2, Idle DEF JobOf, Serving
<1>4. proxy'[p] => c \in Run
  BY <1>1 DEF Begin, TypeOK
<1>5. First(c) = "load" => at'[p] = "readCert"
  BY <1>1 DEF Begin, NewCertificateManager, MoveTo, TypeOK, CATypeOK
<1>6. /\ (Runs(p))' <=> c \in Run
      /\ c \in Run => First(c) = "load"
      /\ First(c) \in StepsOf(c) /\ First(c) \notin {"notify", "serve"}
      /\ c = "uninstall" => First(c) = "delete"
  <2>1. c \in Run => First(c) = "load"  BY DEF First, Run
  <2>2. c = "uninstall" => First(c) = "delete"  BY DEF First, Run
  <2>3. First(c) \in StepsOf(c) /\ First(c) \notin {"notify", "serve"}
    BY RunSteps DEF First, Cmd, Run
  <2> QED BY <1>2, <2>1, <2>2, <2>3 DEF Runs
<1>7. JobOf(p)'
  <2>1. 1 <= Writes(platform)  BY DEF Writes
  <2> QED BY <1>2, <1>3, <1>4, <1>5, <1>6, <2>1 DEF JobOf
<1>8. TrustOf(p)'  BY <1>2, <1>3, <1>5, <1>6 DEF TrustOf
<1>9. UsedOf(p)'  BY <1>2, <1>4, <1>6 DEF UsedOf
<1>10. UninstallOf(p)'  BY <1>2, <1>6 DEF UninstallOf
<1>11. StoreInv'  BY <1>1, SameStoreInv DEF Begin, storeVars
<1>12. OwnedInv'
  <2>1. \A k \in Slot : ~Owns(p, k)  BY <1>2 DEF Owns
  <2>2. orphaned' = orphaned  BY DEF Begin, KeepOrphan
  <2> QED BY <1>1, <1>2, <2>1, <2>2, OwnerKept
<1> QED BY <1>7, <1>8, <1>9, <1>10, <1>11, <1>12 DEF Kept, ProcOf

\* A process that is gone gives up its setting, which is noted, or had none.
LEMMA ForgetKept ==
    ASSUME HostInv, NEW p \in Proc, Exit(p) \/ Kill(p), Frame(p)
    PROVE  Kept(p)
<1>1. TypeOK /\ StoreInv /\ OwnedInv  BY DEF HostInv
<1>2. Forget(p)  BY DEF Exit, Kill
<1>3. ProcOf(p)'
  BY <1>1, <1>2, EndedKept DEF Forget, End, GoTo, TypeOK
<1>4. StoreInv'  BY <1>1, <1>2, SameStoreInv DEF Forget, storeVars
<1>5. OwnedInv'
  <2>1. pac' = pac  BY <1>2 DEF Forget
  <2>2. CASE Exit(p)
    <3>1. \A k \in Slot : ~Owns(p, k)  BY <2>2 DEF Exit, Owns
    <3> QED BY <1>1, <2>1, <2>2, <3>1, OwnerKept DEF Exit, KeepOrphan
  <2>3. CASE Kill(p) /\ PacOn
    <3>1. orphaned => orphaned'  BY <2>3 DEF Kill
    <3>2. \A k \in Slot : Owns(p, k) => orphaned'  BY <2>3 DEF Kill, Owns
    <3> QED BY <1>1, <2>1, <3>1, <3>2, OwnerKept
  <2>4. CASE ~PacOn  BY <2>1, <2>4 DEF PacOn, OwnedInv
  <2> QED BY <2>2, <2>3, <2>4
<1> QED BY <1>3, <1>4, <1>5 DEF Kept

\* Steps of runProxy that change neither the CA nor the proxy setting.
LEMMA RunKept ==
    ASSUME HostInv, NEW p \in Proc, StartServer(p) \/ Notify(p) \/ ShutDown(p), Frame(p)
    PROVE  Kept(p)
<1> USE DEF Fine
<1>1. /\ TypeOK /\ JobInv /\ JobOf(p) /\ StoreInv /\ OwnedInv
      /\ TrustOf(p) /\ UsedOf(p)
  BY DEF HostInv, JobInv, TrustInv, UsedInv
<1>2. \/ job[p] = "listen" /\ job'[p] = IF proxy[p] THEN "set" ELSE "notify"
      \/ job[p] = "notify" /\ job'[p] = "serve"
      \/ job[p] = "serve" /\ job'[p] = IF proxy[p] THEN "clear" ELSE "exit"
  BY <1>1 DEF StartServer, Notify, ShutDown, Leave, GoTo, TypeOK
<1>3. /\ slot' = slot /\ platform' = platform /\ pac' = pac /\ trusted' = trusted
      /\ certFile' = certFile /\ root' = root /\ at' = at /\ stored' = stored
      /\ bundle' = bundle /\ orphaned' = orphaned
  BY DEF StartServer, Notify, ShutDown, OnlyJob, KeepOrphan, caVars, caFiles, caProc,
         storeVars
<1>4. cmd'[p] = cmd[p] /\ proxy'[p] = proxy[p]
  <2>1. CASE StartServer(p)  BY <2>1 DEF StartServer
  <2>2. CASE OnlyJob
    <3>1. job'[p] # "idle"  BY <1>2
    <3>2. proxy[p] \in BOOLEAN  BY <1>1 DEF TypeOK
    <3> QED BY <1>1, <2>2, <3>1, <3>2, KeepRunFrame DEF OnlyJob, Frame
  <2> QED BY <2>1, <2>2 DEF Notify, ShutDown
<1>5. Runs(p) /\ (Runs(p))'
  <2>1. cmd[p] \in Cmd \cup {"none"}  BY <1>1 DEF TypeOK
  <2> QED BY <1>1, <1>2, <1>4, <2>1, RunSteps DEF JobOf, Runs, Cmd
<1>6. at[p] = "ready" /\ slot[p] = 1  BY <1>1, <1>2, <1>5 DEF JobOf
<1>7. JobOf(p)'
  <2>1. job'[p] \in StepsOf(cmd'[p])  BY <1>2, <1>4, <1>5, RunSteps DEF Runs
  <2> QED BY <1>1, <1>2, <1>3, <1>4, <1>5, <1>6, <2>1 DEF JobOf, Serving
<1>8. Note(p, {})  BY DEF StartServer, Notify, ShutDown
<1>9. TrustOf(p)'
  <2>1. "lost" \notin mar'[p] => "lost" \notin mar[p]
    BY <1>1, <1>2, <1>4, <1>5, <1>8, NotedOfSelf
  <2> QED BY <1>1, <1>3, <1>5, <1>6, <2>1 DEF TrustOf
<1>10. UsedOf(p)'
  <2>1. mar'[p] \cap {"denied", "pac"} = {} => mar[p] \cap {"denied", "pac"} = {}
    BY <1>1, <1>2, <1>4, <1>5, <1>8, NotedOfSelf
  <2> QED BY <1>1, <1>2, <1>3, <1>4, <1>6, <2>1 DEF UsedOf, Slot
<1>11. UninstallOf(p)'  BY <1>5 DEF UninstallOf, Runs, Run
<1>12. StoreInv'  BY <1>1, <1>3, SameStoreInv
<1>13. OwnedInv'
  <2>1. \A k \in Slot : Owns(p, k) => Owns(p, k)'
    BY <1>2, <1>3, <1>4, <1>5, <1>6 DEF Owns, Slot
  <2> QED BY <1>1, <1>3, <2>1, OwnerKept
<1> QED BY <1>7, <1>9, <1>10, <1>11, <1>12, <1>13 DEF Kept, ProcOf

\* app.Install and app.Uninstall.
LEMMA ProgramKept ==
    ASSUME HostInv, NEW p \in Proc, Install(p) \/ DeleteProgram(p) \/ EraseFiles(p), Frame(p)
    PROVE  Kept(p)
<1> USE DEF Fine, Denied
<1>1. TypeOK /\ JobInv /\ JobOf(p) /\ StoreInv /\ OwnedInv  BY DEF HostInv, JobInv
<1>2. \/ job[p] = "copy" /\ job'[p] = "unit"
      \/ job[p] \in {"unit", "erase"} /\ job'[p] = "idle"
      \/ DeleteProgram(p) /\ job[p] = "delete" /\ job'[p] = "clear"
  BY <1>1 DEF Install, DeleteProgram, EraseFiles, GoTo, End, TypeOK
<1>3. /\ slot' = slot /\ platform' = platform /\ pac' = pac /\ trusted' = trusted
      /\ stored' = stored /\ bundle' = bundle /\ orphaned' = orphaned /\ KeepRun
  BY DEF Install, DeleteProgram, EraseFiles, OnlyJob, KeepOrphan, storeVars
<1>4. /\ cmd'[p] = IF job'[p] = "idle" THEN "none" ELSE cmd[p]
      /\ proxy'[p] = (job'[p] # "idle" /\ proxy[p])
  BY <1>1, <1>3, KeepRunFrame DEF Frame
<1>5. ~Runs(p) /\ ~proxy[p] /\ ~trusted[p] /\ slot[p] = 1
  BY <1>1, <1>2, RunSteps DEF JobOf, Runs
<1>6. StoreInv'  BY <1>1, <1>3, SameStoreInv
<1>7. OwnedInv'
  <2>1. \A k \in Slot : ~Owns(p, k)  BY <1>5 DEF Owns
  <2> QED BY <1>1, <1>3, <2>1, OwnerKept
<1>8. ProcOf(p)'
  <2>1. CASE job'[p] = "idle"
    BY <1>3, <1>4, <1>5, <2>1, EndedKept
  <2>2. CASE job'[p] # "idle"
    <3>1. cmd'[p] = cmd[p] /\ ~proxy'[p] /\ ~(Runs(p))' /\ ~trusted'[p] /\ slot'[p] = 1
      BY <1>3, <1>4, <1>5, <2>2 DEF Runs
    <3>2. cmd[p] \in Cmd  BY <1>1, <1>2, RunSteps DEF TypeOK, JobOf
    <3>3. job'[p] \in StepsOf(cmd[p]) /\ (job'[p] = "clear" <=> cmd[p] = "uninstall")
      BY <1>1, <1>2, <1>5, <2>2, <3>2, RunSteps DEF JobOf, Runs, Cmd
    <3>4. JobOf(p)'
      <4>1. 1 <= Writes(platform)  BY DEF Writes
      <4> QED BY <1>2, <1>3, <2>2, <3>1, <3>3, <4>1 DEF JobOf
    <3>5. UninstallOf(p)'
      <4> SUFFICES ASSUME cmd[p] = "uninstall", mar'[p] = {}
                   PROVE  program' = {} /\ job'[p] = "clear"
        BY <1>2, <3>1 DEF UninstallOf, Slot
      <4>1. DeleteProgram(p) /\ job'[p] = "clear"  BY <1>2, <2>2, <3>3
      <4>2. CASE program' # {}
        BY <1>1, <2>2, <3>1, <4>1, <4>2, NotedOfSelf DEF DeleteProgram
      <4> QED BY <4>1, <4>2
    <3> QED BY <3>1, <3>4, <3>5 DEF ProcOf, TrustOf, UsedOf
  <2> QED BY <2>1, <2>2
<1> QED BY <1>6, <1>7, <1>8 DEF Kept

\* One command of SetPAC or ClearPAC: it worked or it did not, and the next
\* slot is another one unless it was the last.
LEMMA PacTurn ==
    ASSUME HostInv, NEW p \in Proc, job[p] \in {"set", "clear"}, Frame(p),
           NEW after \in Step, NEW write, PacStep(p, write, after)
    PROVE  /\ IF slot[p] < Writes(platform)
              THEN slot[p] = 1 /\ slot'[p] = 2 /\ platform # "windows" /\ job'[p] = job[p]
              ELSE slot[p] = Writes(platform) /\ slot'[p] = 1 /\ job'[p] = after
           /\ \/ write /\ Note(p, {})
              \/ pac' = pac /\ Note(p, {"denied"})
           /\ platform' = platform /\ stored' = stored /\ bundle' = bundle
           /\ certFile' = certFile /\ at' = at /\ seen' = seen /\ root' = root
           /\ trusted' = trusted /\ program' = program
<1>1. /\ slot \in [Proc -> {1, 2}] /\ job \in [Proc -> Step]
      /\ slot[p] <= Writes(platform) /\ Writes(platform) \in {1, 2}
      /\ (Writes(platform) = 2 => platform # "windows")
  BY DEF HostInv, TypeOK, JobInv, JobOf, Slot, Writes
<1>2. slot[p] \in {1, 2}  BY <1>1
<1>3. /\ \/ write /\ Note(p, {})
         \/ pac' = pac /\ Note(p, {"denied"})
      /\ platform' = platform /\ stored' = stored /\ bundle' = bundle
      /\ certFile' = certFile /\ at' = at /\ seen' = seen /\ root' = root
      /\ trusted' = trusted /\ program' = program
  BY DEF PacStep, Fine, Denied, caVars, caFiles, caProc, storeVars
<1>4. CASE slot[p] < Writes(platform)
  <2>1. slot' = [slot EXCEPT ![p] = slot[p] + 1] /\ job' = job
    BY <1>4 DEF PacStep
  <2>2. slot[p] = 1 /\ Writes(platform) = 2  BY <1>1, <1>2, <1>4
  <2> QED BY <1>1, <1>3, <1>4, <2>1, <2>2
<1>5. CASE ~(slot[p] < Writes(platform))
  <2>1. slot' = [slot EXCEPT ![p] = 1] /\ job' = [job EXCEPT ![p] = after]
    BY <1>5 DEF PacStep, GoTo
  <2>2. slot[p] = Writes(platform)  BY <1>1, <1>2, <1>5
  <2>3. slot'[p] = 1 /\ job'[p] = after  BY <1>1, <2>1
  <2> QED BY <1>3, <1>5, <2>2, <2>3
<1> QED BY <1>4, <1>5

LEMMA SetKept ==
    ASSUME HostInv, NEW p \in Proc, SetPAC(p), Frame(p)
    PROVE  Kept(p)
<1>1. /\ TypeOK /\ JobInv /\ JobOf(p) /\ StoreInv /\ OwnedInv
      /\ TrustOf(p) /\ UsedOf(p)
  BY DEF HostInv, JobInv, TrustInv, UsedInv
<1>2. job[p] = "set" /\ Set(p) \in Step  BY DEF SetPAC, Set, Step
<1>3. PacStep(p, SetSlot(slot[p]), Set(p))  BY DEF SetPAC
<1>4. /\ IF slot[p] < Writes(platform)
         THEN slot[p] = 1 /\ slot'[p] = 2 /\ platform # "windows" /\ job'[p] = "set"
         ELSE slot[p] = Writes(platform) /\ slot'[p] = 1 /\ job'[p] = Set(p)
      /\ \/ SetSlot(slot[p]) /\ Note(p, {})
         \/ pac' = pac /\ Note(p, {"denied"})
      /\ platform' = platform /\ stored' = stored /\ bundle' = bundle
      /\ certFile' = certFile /\ at' = at /\ seen' = seen /\ root' = root
      /\ trusted' = trusted /\ program' = program
  BY <1>2, <1>3, PacTurn
<1>5. /\ cmd'[p] = IF job'[p] = "idle" THEN "none" ELSE cmd[p]
      /\ proxy'[p] = (job'[p] # "idle" /\ proxy[p])
  <2>1. orphaned' \in BOOLEAN  BY DEF SetPAC
  <2>2. SetSlot(slot[p]) => SetSlot(slot[p]) \/ ClearSlot(slot[p])  OBVIOUS
  <2>3. job[p] # "idle"  BY <1>2
  <2> QED BY ONLY <1>1, <1>2, <1>3, <2>1, <2>2, <2>3, PacFrame
<1>6. slot[p] \in Slot /\ pac \in [Slot -> BOOLEAN] /\ slot'[p] <= Writes(platform)
  BY <1>1, <1>4 DEF TypeOK, ProxyTypeOK, Writes
<1>7. StoreInv'
  <2>1. platform = "windows" => slot[p] = 1
    BY <1>1, <1>6 DEF JobOf, Slot, Writes
  <2>2. platform = "windows" => pac'[2] = pac[2]
    BY <1>4, <1>6, <2>1 DEF SetSlot, Slot
  <2> QED BY <1>1, <1>4, <2>2 DEF StoreInv
<1>8. orphaned' = (orphaned \/ (~Runs(p) /\ pac' # pac))
  BY DEF SetPAC
<1>9. CASE ~Runs(p)
  <2>1. cmd[p] = "set-proxy" /\ ~proxy[p] /\ ~trusted[p]
    <3>1. cmd[p] \in Cmd \cup {"none"}  BY <1>1 DEF TypeOK
    <3> QED BY <1>1, <1>2, <1>9, <3>1, RunSteps DEF JobOf, Runs, Cmd
  <2>2. OwnedInv'
    <3>1. CASE pac' # pac  BY <1>8, <1>9, <3>1 DEF OwnedInv
    <3>2. CASE pac' = pac
      <4>1. \A k \in Slot : ~Owns(p, k)  BY <1>9 DEF Owns
      <4> QED BY <1>1, <1>8, <3>2, <4>1, OwnerKept
    <3> QED BY <3>1, <3>2
  <2>3. ProcOf(p)'
    <3>1. CASE job'[p] = "idle"
      <4>1. slot'[p] = 1  BY <1>4, <3>1
      <4> QED BY <1>4, <1>5, <2>1, <3>1, <4>1, EndedKept
    <3>2. CASE job'[p] # "idle"
      <4>1. job'[p] = "set"  BY <1>4, <1>9, <3>2 DEF Set
      <4>2. cmd'[p] = "set-proxy" /\ ~proxy'[p] /\ ~trusted'[p] /\ ~(Runs(p))'
        BY <1>4, <1>5, <2>1, <3>2 DEF Runs, Run
      <4> QED BY <1>4, <1>6, <4>1, <4>2, RunSteps
              DEF ProcOf, JobOf, TrustOf, UsedOf, UninstallOf
    <3> QED BY <3>1, <3>2
  <2> QED BY <1>7, <2>2, <2>3 DEF Kept
<1>10. CASE Runs(p)
  <2>1. proxy[p] /\ at[p] = "ready"  BY <1>1, <1>2, <1>10 DEF JobOf
  <2>2. job'[p] \in {"set", "notify"} /\ Set(p) = "notify"
    BY <1>4, <1>10 DEF Set
  <2>3. cmd'[p] = cmd[p] /\ proxy'[p] /\ (Runs(p))'
    BY <1>5, <1>10, <2>1, <2>2 DEF Runs
  <2>4. OwnedInv'
    <3>1. \A k \in Slot : Owns(p, k)'  BY <2>2, <2>3 DEF Owns
    <3> QED BY <3>1 DEF OwnedInv
  <2>5. JobOf(p)'
    <3>1. job'[p] \in StepsOf(cmd'[p])  BY <2>2, <2>3, RunSteps DEF Runs
    <3>2. job'[p] # "set" => slot'[p] = 1  BY <1>4
    <3> QED BY <1>4, <1>6, <2>1, <2>2, <2>3, <3>1, <3>2 DEF JobOf, Serving
  <2>6. TrustOf(p)'
    <3>1. "lost" \notin mar'[p] => "lost" \notin mar[p]
      BY <1>1, <1>4, <1>10, <2>2, <2>3, NotedOfSelf
    <3> QED BY <1>1, <1>4, <1>10, <3>1 DEF TrustOf
  <2>7. UsedOf(p)'
    <3> SUFFICES ASSUME mar'[p] \cap {"denied", "pac"} = {}
                 PROVE  /\ job'[p] = "set" => \A k \in Slot : k < slot'[p] => pac'[k]
                        /\ job'[p] = "notify" => \A k \in 1 .. Writes(platform) : pac'[k]
      BY <1>4, <2>2 DEF UsedOf
    <3>1. mar[p] \cap {"denied", "pac"} = {} /\ SetSlot(slot[p])
      BY <1>1, <1>4, <1>10, <2>2, <2>3, NotedOfSelf
    <3>2. \A k \in Slot : k < slot[p] => pac[k]
      BY <1>1, <1>2, <2>1, <3>1 DEF UsedOf
    <3>3. \A k \in Slot : k = slot[p] \/ k < slot[p] => pac'[k]
      BY <1>6, <3>1, <3>2 DEF SetSlot
    <3>4. CASE slot[p] < Writes(platform)
      BY <1>4, <3>3, <3>4 DEF Slot
    <3>5. CASE ~(slot[p] < Writes(platform))
      <4>1. slot[p] = Writes(platform) /\ job'[p] = "notify"  BY <1>4, <2>2, <3>5
      <4>2. \A k \in 1 .. Writes(platform) : k \in Slot /\ (k = Writes(platform) \/ k < Writes(platform))
        BY DEF Writes, Slot
      <4> QED BY <3>3, <4>1, <4>2
    <3> QED BY <3>4, <3>5
  <2>8. UninstallOf(p)'  BY <2>3 DEF UninstallOf, Runs, Run
  <2> QED BY <1>7, <2>4, <2>5, <2>6, <2>7, <2>8 DEF Kept, ProcOf
<1> QED BY <1>9, <1>10

LEMMA ClearKept ==
    ASSUME HostInv, NEW p \in Proc, ClearPAC(p), Frame(p)
    PROVE  Kept(p)
<1>1. /\ TypeOK /\ JobInv /\ JobOf(p) /\ StoreInv /\ OwnedInv
      /\ TrustOf(p) /\ UninstallOf(p)
  BY DEF HostInv, JobInv, TrustInv, UninstallInv
<1>2. job[p] = "clear" /\ Cleared(p) \in Step  BY DEF ClearPAC, Cleared, Step
<1>3. PacStep(p, ClearSlot(slot[p]), Cleared(p))  BY DEF ClearPAC
<1>4. /\ IF slot[p] < Writes(platform)
         THEN slot[p] = 1 /\ slot'[p] = 2 /\ platform # "windows" /\ job'[p] = "clear"
         ELSE slot[p] = Writes(platform) /\ slot'[p] = 1 /\ job'[p] = Cleared(p)
      /\ \/ ClearSlot(slot[p]) /\ Note(p, {})
         \/ pac' = pac /\ Note(p, {"denied"})
      /\ platform' = platform /\ stored' = stored /\ bundle' = bundle
      /\ certFile' = certFile /\ at' = at /\ seen' = seen /\ root' = root
      /\ trusted' = trusted /\ program' = program
  BY <1>2, <1>3, PacTurn
<1>5. orphaned' = ((orphaned \/ pac' = pac) /\ \E k \in Slot : pac'[k])
  BY DEF ClearPAC
<1>6. /\ cmd'[p] = IF job'[p] = "idle" THEN "none" ELSE cmd[p]
      /\ proxy'[p] = (job'[p] # "idle" /\ proxy[p])
  <2>1. orphaned' \in BOOLEAN  BY <1>5
  <2>2. ClearSlot(slot[p]) => SetSlot(slot[p]) \/ ClearSlot(slot[p])  OBVIOUS
  <2>3. job[p] # "idle"  BY <1>2
  <2> QED BY ONLY <1>1, <1>2, <1>3, <2>1, <2>2, <2>3, PacFrame
<1>7. slot[p] \in Slot /\ pac \in [Slot -> BOOLEAN] /\ slot'[p] <= Writes(platform)
  BY <1>1, <1>4 DEF TypeOK, ProxyTypeOK, Writes
<1>8. \A k \in Slot : pac'[k] => pac[k] /\ (pac' = pac \/ k # slot[p])
  BY <1>4, <1>7 DEF ClearSlot
<1>9. StoreInv'
  BY <1>1, <1>4, <1>8 DEF StoreInv, Slot
<1>10. cmd[p] \in Run \cup {"unset-proxy", "uninstall"}
  <2>1. cmd[p] \in Cmd \cup {"none"}  BY <1>1 DEF TypeOK
  <2> QED BY <1>1, <1>2, <2>1, RunSteps DEF JobOf, Cmd
<1>11. /\ Runs(p) => job'[p] \in {"clear", "exit"}
       /\ cmd[p] = "unset-proxy" => job'[p] \in {"clear", "idle"}
       /\ cmd[p] = "uninstall" => job'[p] \in {"clear", "remove", "erase"}
  BY <1>4 DEF Cleared, Runs, Run
<1>12. OwnedInv'
  <2> SUFFICES ASSUME NEW k \in Slot, pac'[k], ~orphaned'
               PROVE  \E q \in Proc : Owns(q, k)'
    BY DEF OwnedInv
  <2>1. ~orphaned /\ pac' # pac  BY <1>5
  <2>2. pac[k] /\ k # slot[p]  BY <1>8, <2>1
  <2>3. PICK q \in Proc : Owns(q, k)  BY <1>1, <2>1, <2>2 DEF OwnedInv
  <2>4. CASE q # p  BY <1>1, <2>3, <2>4, Untouched DEF Owns, Runs
  <2>5. CASE q = p
    <3>1. Runs(p) /\ proxy[p] /\ slot[p] <= k  BY <1>2, <2>3, <2>5 DEF Owns
    <3>2. slot[p] = 1 /\ k = 2  BY <1>7, <2>2, <3>1 DEF Slot
    <3>3. platform # "windows"  BY <1>1, <2>2, <3>2 DEF StoreInv
    <3>4. slot'[p] = 2 /\ job'[p] = "clear"  BY <1>4, <3>2, <3>3 DEF Writes
    <3>5. (Runs(p))' /\ proxy'[p]  BY <1>6, <3>1, <3>4 DEF Runs
    <3> QED BY <2>5, <3>2, <3>4, <3>5 DEF Owns
  <2> QED BY <2>4, <2>5
<1>13. CASE job'[p] = "idle"
  <2>1. ~Runs(p) /\ slot'[p] = 1
    BY <1>4, <1>11, <1>13
  <2>2. ~trusted'[p]  BY <1>1, <1>4, <2>1 DEF JobOf
  <2> QED BY <1>6, <1>9, <1>12, <1>13, <2>1, <2>2, EndedKept DEF Kept
<1>14. CASE job'[p] # "idle"
  <2>1. cmd'[p] = cmd[p] /\ proxy'[p] = proxy[p] /\ ((Runs(p))' <=> Runs(p))
    <3>1. proxy[p] \in BOOLEAN  BY <1>1 DEF TypeOK
    <3> QED BY <1>6, <1>14, <3>1 DEF Runs
  <2>2. JobOf(p)'
    <3>1. job'[p] \in StepsOf(cmd[p])
      BY <1>10, <1>11, <1>14, RunSteps DEF Runs
    <3>2. job'[p] \in {"clear", "exit", "remove", "erase"}
      BY <1>10, <1>11, <1>14 DEF Runs
    <3>3. job'[p] # "clear" => slot'[p] = 1  BY <1>4
    <3>4. Runs(p) => job'[p] \in Serving  BY <1>11 DEF Serving
    <3> QED BY <1>1, <1>2, <1>4, <1>7, <2>1, <3>1, <3>2, <3>3, <3>4 DEF JobOf
  <2>3. TrustOf(p)'
    <3>1. Runs(p) /\ "lost" \notin mar'[p] => "lost" \notin mar[p]
      BY <1>1, <1>4, <1>14, <2>1, NotedOfSelf
    <3> QED BY <1>1, <1>4, <2>1, <3>1 DEF TrustOf
  <2>4. UsedOf(p)'
    <3>1. job'[p] \notin {"set", "notify", "serve"}
      BY <1>10, <1>11, <1>14 DEF Runs
    <3> QED BY <3>1 DEF UsedOf
  <2>5. UninstallOf(p)'
    <3> SUFFICES ASSUME cmd[p] = "uninstall", mar'[p] = {} PROVE UninstallOf(p)'
      BY <2>1 DEF UninstallOf
    <3>1. mar[p] = {} /\ ClearSlot(slot[p])
      BY <1>1, <1>4, <1>14, <2>1, NotedOfSelf
    <3>2. program' = {}  BY <1>1, <1>2, <1>4, <3>1 DEF UninstallOf
    <3>3. \A k \in Slot : k < slot[p] => ~pac[k]
      BY <1>1, <1>2, <3>1 DEF UninstallOf
    <3>4. \A k \in Slot : k = slot[p] \/ k < slot[p] => ~pac'[k]
      BY <1>7, <3>1, <3>3 DEF ClearSlot
    <3>5. CASE slot[p] < Writes(platform)
      <4>1. slot[p] = 1 /\ slot'[p] = 2 /\ job'[p] = "clear"  BY <1>4, <3>5
      <4> QED BY <3>2, <3>4, <4>1 DEF UninstallOf, Slot
    <3>6. CASE ~(slot[p] < Writes(platform))
      <4>1. slot[p] = Writes(platform) /\ job'[p] = Cleared(p)  BY <1>4, <3>6
      <4>2. job'[p] = IF certFile # None THEN "remove" ELSE "erase"
        BY <4>1 DEF Cleared, Runs, Run
      <4>3. platform # "windows" => \A k \in Slot : ~pac'[k]
        BY <3>4, <4>1 DEF Writes, Slot
      <4>4. platform = "windows" => \A k \in Slot : ~pac'[k]
        BY <1>1, <1>8, <3>4, <4>1 DEF Writes, Slot, StoreInv
      <4>5. ~PacOn'  BY <4>3, <4>4 DEF PacOn
      <4> QED BY <1>4, <3>2, <4>2, <4>5 DEF UninstallOf
    <3> QED BY <3>5, <3>6
  <2> QED BY <1>9, <1>12, <2>2, <2>3, <2>4, <2>5 DEF Kept, ProcOf
<1> QED BY <1>13, <1>14

\* The server's goroutine has no part in any of it.
LEMMA ListenKept ==
    ASSUME HostInv, NEW p \in Proc, Listen(p), Frame(p)
    PROVE  Kept(p)
<1>1. ProcOf(p) /\ StoreInv /\ OwnedInv
  BY DEF HostInv, ProcOf, JobInv, TrustInv, UsedInv, UninstallInv
<1>2. /\ job' = job /\ cmd' = cmd /\ proxy' = proxy /\ slot' = slot /\ trusted' = trusted
      /\ certFile' = certFile /\ at' = at /\ seen' = seen /\ root' = root
      /\ anchor' = anchor /\ stored' = stored /\ bundle' = bundle
      /\ platform' = platform /\ pac' = pac /\ program' = program /\ mar' = mar
      /\ orphaned' = orphaned
  BY DEF Listen, KeepOrphan, caVars, caFiles, caProc, storeVars
<1>3. ProcOf(p)'
  BY <1>1, <1>2 DEF ProcOf, JobOf, TrustOf, UsedOf, UninstallOf, Runs, PacOn
<1>4. StoreInv'  BY <1>1, <1>2, SameStoreInv
<1>5. OwnedInv'  BY <1>1, <1>2 DEF OwnedInv, Owns, Runs
<1> QED BY <1>3, <1>4, <1>5 DEF Kept

-----------------------------------------------------------------------------
(* The theorems *)

LEMMA InitInv == Init => HostInv
<1> SUFFICES ASSUME Init PROVE HostInv  OBVIOUS
<1>1. TypeOK  BY InitType
<1>2. \A p \in Proc : job[p] = "idle" /\ cmd[p] = "none" /\ ~proxy[p] /\ ~trusted[p]
                      /\ slot[p] = 1 /\ ~Runs(p)
  BY DEF Init, Runs, Run
<1>3. JobInv
  <2>1. 1 <= Writes(platform)  BY DEF Writes
  <2> QED BY <1>2, <2>1, RunSteps DEF JobInv, JobOf
<1>4. StoreInv  BY FS_EmptySet DEF Init, StoreInit, ProxyInit, StoreInv, Slot
<1>5. TrustInv /\ UsedInv /\ UninstallInv
  BY <1>2 DEF TrustInv, TrustOf, UsedInv, UsedOf, UninstallInv, UninstallOf
<1>6. OwnedInv  BY DEF Init, ProxyInit, OwnedInv
<1> QED BY <1>1, <1>3, <1>4, <1>5, <1>6 DEF HostInv

LEMMA FrameHolds ==
    ASSUME TypeOK, JobInv, NEW p \in Proc,
           (\E c \in may.commands[p] : Begin(p, c)) \/ Act(p) \/ Kill(p)
    PROVE  Frame(p)
<1>1. may.commands[p] \subseteq Cmd  BY DEF TypeOK
<1> QED BY <1>1, BeginFrame, ActFrame, KillFrame

LEMMA ActKept ==
    ASSUME HostInv, NEW p \in Proc, Frame(p),
           (\E c \in may.commands[p] : Begin(p, c)) \/ Act(p) \/ Kill(p)
    PROVE  Kept(p)
<1>1. may.commands[p] \subseteq Cmd  BY DEF HostInv, TypeOK
<1>2. CASE \E c \in may.commands[p] : Begin(p, c)  BY <1>1, <1>2, BeginKept
<1>3. CASE Act(p)
  BY <1>3, LoadKept, InstallActions, UninstallActions, RunKept, ListenKept, SetKept,
     ClearKept, ForgetKept, ProgramKept DEF Act
<1>4. CASE Kill(p)  BY <1>4, ForgetKept
<1> QED BY <1>2, <1>3, <1>4

LEMMA HostStep == HostInv /\ [Next]_vars => HostInv'
<1> SUFFICES ASSUME HostInv, [Next]_vars PROVE HostInv'  OBVIOUS
<1>1. CASE Next
  <2>1. PICK p \in Proc :
          /\ (\E c \in may.commands[p] : Begin(p, c)) \/ Act(p) \/ Kill(p)
          /\ UNCHANGED may
    BY <1>1 DEF Next
  <2>2. TypeOK /\ JobInv  BY DEF HostInv
  <2>3. Frame(p)  BY <2>1, <2>2, FrameHolds
  <2>4. TypeOK'  BY <2>1, <2>2, <2>3, FrameType
  <2>5. ProcOf(p)' /\ StoreInv' /\ OwnedInv'  BY <2>1, <2>3, ActKept DEF Kept
  <2>6. \A q \in Proc : ProcOf(q)
    BY DEF HostInv, ProcOf, JobInv, TrustInv, UsedInv, UninstallInv
  <2>7. \A q \in Proc : ProcOf(q)'
    BY <2>2, <2>3, <2>5, <2>6, OtherKept
  <2> QED BY <2>4, <2>5, <2>7
          DEF HostInv, ProcOf, JobInv, TrustInv, UsedInv, UninstallInv
<1>2. CASE UNCHANGED vars
  <2>1. /\ job' = job /\ cmd' = cmd /\ proxy' = proxy /\ slot' = slot /\ trusted' = trusted
        /\ certFile' = certFile /\ at' = at /\ seen' = seen /\ root' = root
        /\ anchor' = anchor /\ stored' = stored /\ bundle' = bundle
        /\ platform' = platform /\ pac' = pac /\ program' = program /\ mar' = mar
        /\ orphaned' = orphaned /\ server' = server /\ faults' = faults /\ may' = may
        /\ UNCHANGED caVars /\ UNCHANGED storeVars
    BY <1>2 DEF vars, runVars, caVars, caFiles, caProc, storeVars
  <2>2. TypeOK'
    BY <2>1, SameCA, SameStore, SamePac DEF HostInv, TypeOK
  <2>3. JobInv' /\ TrustInv'
    BY <2>1 DEF HostInv, JobInv, JobOf, TrustInv, TrustOf, Runs
  <2>4. StoreInv' /\ OwnedInv'
    BY <2>1 DEF HostInv, StoreInv, OwnedInv, Owns, Runs
  <2>5. UsedInv' /\ UninstallInv'
    BY <2>1 DEF HostInv, UsedInv, UsedOf, UninstallInv, UninstallOf, PacOn
  <2> QED BY <2>2, <2>3, <2>4, <2>5 DEF HostInv
<1> QED BY <1>1, <1>2

\* The inductive invariant: types, the steps of each command, what each process
\* knows of root.crt and of the trust store, who is to clear each slot of the
\* proxy setting, and how far an uninstall has come.
THEOREM HostInvariant == Spec => []HostInv
<1>1. Init => HostInv  BY InitInv
<1>2. HostInv /\ [Next]_vars => HostInv'  BY HostStep
<1> QED BY <1>1, <1>2, PTL DEF Spec

\* Every variable keeps its type, whichever commands run beside each other.
THEOREM HostTypes == Spec => []TypeOK
<1>1. HostInv => TypeOK  BY DEF HostInv
<1> QED BY <1>1, HostInvariant, PTL

\* runProxy after InstallCert returned nil: the certificate it signs with is in
\* the trust store unless another process took it out of there or replaced the
\* CA, for all four ways to install it and whether it was there before or not.
THEOREM HostServedIsTrusted == Spec => []ServedIsTrusted
<1>1. HostInv => ServedIsTrusted
  BY DEF HostInv, JobInv, JobOf, TrustInv, TrustOf, ServedIsTrusted
<1> QED BY <1>1, HostInvariant, PTL

\* A PAC setting always has a process on its way to the deferred ClearPAC, slot
\* by slot, when nobody was killed, no command failed and set-proxy was not used.
THEOREM HostNoOrphanedProxy == Spec => []NoOrphanedProxy
<1>1. HostInv => NoOrphanedProxy
  BY DEF HostInv, OwnedInv, Owns, NoOrphanedProxy, PacOn
<1> QED BY <1>1, HostInvariant, PTL

\* A process that serves after SetPAC did all its commands has every slot of the
\* desktop set to it, as long as no other process wrote one.
THEOREM HostServedIsUsed == Spec => []ServedIsUsed
<1>1. HostInv => ServedIsUsed
  <2> SUFFICES ASSUME HostInv, NEW p \in Proc, job[p] = "serve", proxy[p],
                      mar[p] \cap {"denied", "pac"} = {}
               PROVE  PacActive(platform)
    BY DEF ServedIsUsed
  <2>1. \A k \in 1 .. Writes(platform) : pac[k]  BY DEF HostInv, UsedInv, UsedOf
  <2>2. platform = "darwin" => 1 \in 1 .. Writes(platform)  BY DEF Writes
  <2> QED BY <2>1, <2>2 DEF PacActive
<1> QED BY <1>1, HostInvariant, PTL

\* app.Uninstall comes to the removal of its directory with everything else
\* gone, when each of its steps worked and nobody else was at work.
THEOREM HostUninstallIsComplete == Spec => UninstallIsComplete
<1>1. HostInv => \A p \in Proc : EraseFiles(p) /\ mar[p] = {} /\ faults' = faults =>
          /\ program = {} /\ ~PacOn
          /\ certFile' = None /\ keyFile' = None
          /\ platform # "trust" /\ certFile # None => bundle = {}
  <2> SUFFICES ASSUME HostInv, NEW p \in Proc, EraseFiles(p), mar[p] = {},
                      faults' = faults
               PROVE  /\ program = {} /\ ~PacOn
                      /\ certFile' = None /\ keyFile' = None
                      /\ platform # "trust" /\ certFile # None => bundle = {}
    OBVIOUS
  <2>1. job[p] = "erase" /\ job[p] \in StepsOf(cmd[p]) /\ cmd[p] \in Cmd \cup {"none"}
    BY DEF EraseFiles, HostInv, JobInv, JobOf, TypeOK
  <2>2. cmd[p] = "uninstall"  BY <2>1, RunSteps DEF Cmd
  <2>3. faults \in Nat  BY DEF HostInv, TypeOK
  <2>4. certFile' = None /\ keyFile' = None
    BY <2>3 DEF EraseFiles, Denied, Fault
  <2> QED BY <2>1, <2>2, <2>4 DEF HostInv, UninstallInv, UninstallOf
<1> QED BY <1>1, HostInvariant, PTL DEF UninstallIsComplete

-----------------------------------------------------------------------------
(* The CA on a machine where it may also be removed *)

Erasing == \E p \in Proc : EraseFiles(p)

\* Whatever command a process runs, it gets at its pair as CertAuthority says.
LEMMA HostCAStep == [Next]_vars => [CANext \/ Erasing]_caVars
<1> SUFFICES ASSUME Next PROVE CANext \/ Erasing \/ UNCHANGED caVars
  BY DEF vars
<1>1. PICK p \in Proc :
        (\E c \in may.commands[p] : Begin(p, c)) \/ Act(p) \/ Kill(p)
  BY DEF Next
<1>2. CASE \E c \in may.commands[p] : Begin(p, c)
  BY <1>2 DEF Begin, CANext
<1>3. CASE Kill(p)  BY <1>3 DEF Kill, Forget, CANext
<1>4. CASE LoadOrGenerate(p)  BY <1>4 DEF LoadOrGenerate, CANext
<1>5. CASE CheckInstalled(p) \/ Apply(p) \/ UpdateStore(p) \/ Confirm(p) \/ InstallDenied(p)
  BY <1>5 DEF CheckInstalled, Apply, UpdateStore, Confirm, InstallDenied, AfterInstall,
              CANext
<1>6. CASE Untrust(p) \/ UntrustDenied(p) \/ Refresh(p) \/ RefreshDenied(p)
  BY <1>6 DEF Untrust, UntrustDenied, Refresh, RefreshDenied, AfterUninstall
<1>7. CASE StartServer(p) \/ Listen(p) \/ Notify(p) \/ ShutDown(p)
  BY <1>7 DEF StartServer, Listen, Notify, ShutDown
<1>8. CASE SetPAC(p) \/ ClearPAC(p)  BY <1>8 DEF SetPAC, ClearPAC, PacStep
<1>9. CASE Exit(p)  BY <1>9 DEF Exit, Forget, CANext
<1>10. CASE Install(p) \/ DeleteProgram(p)  BY <1>10 DEF Install, DeleteProgram
<1>11. CASE EraseFiles(p)  BY <1>11 DEF Erasing
<1> QED BY <1>1, <1>2, <1>3, <1>4, <1>5, <1>6, <1>7, <1>8, <1>9, <1>10, <1>11 DEF Act

\* runProxy and install-cert start, load, generate and save as module
\* CertAuthority has it, and only uninstall does anything else to the files.
THEOREM HostRunsCertAuthority == Spec => [][CANext \/ Erasing]_caVars
<1> QED BY HostCAStep, PTL DEF Spec

\* A process that has a certificate has its key, even when an uninstall removes
\* the two files while it reads or writes them.
THEOREM HostKeyMatches == Spec => []SigningKeyMatches
<1>1. Init => SigningKeyMatches  BY DEF Init, CAInit, SigningKeyMatches
<1>2. TypeOK /\ SigningKeyMatches /\ [Next]_vars => SigningKeyMatches'
  <2> SUFFICES ASSUME TypeOK, SigningKeyMatches, [CANext \/ Erasing]_caVars
               PROVE  SigningKeyMatches'
    BY HostCAStep
  <2>1. CASE CANext  BY <2>1, CAKeepsMatch DEF CANext, TypeOK
  <2>2. CASE Erasing \/ UNCHANGED caVars
    BY <2>2 DEF Erasing, EraseFiles, caVars, caProc, SigningKeyMatches
  <2> QED BY <2>1, <2>2
<1> QED BY <1>1, <1>2, HostTypes, PTL DEF Spec

\* A pair that is on disk with nobody about to replace it is given up by an
\* uninstall and by a start that fails to read one of its files: no other start,
\* no force-install and no other command does it.
THEOREM HostKeepsPair ==
    Spec => [][Settled => \/ Settled' /\ certFile' = certFile
                          \/ (\E p \in Proc : ReadFailed(p)) \/ Erasing]_caVars
<1>1. TypeOK /\ [Next]_vars =>
        [Settled => \/ Settled' /\ certFile' = certFile
                    \/ (\E p \in Proc : ReadFailed(p)) \/ Erasing]_caVars
  <2> SUFFICES ASSUME TypeOK, [CANext \/ Erasing]_caVars
               PROVE  [Settled => \/ Settled' /\ certFile' = certFile
                                  \/ (\E p \in Proc : ReadFailed(p)) \/ Erasing]_caVars
    BY HostCAStep
  <2>1. CASE CANext  BY <2>1, SettledStep DEF CANext, TypeOK
  <2> QED BY <2>1
<1> QED BY <1>1, HostTypes, PTL DEF Spec
=============================================================================
