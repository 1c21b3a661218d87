-------------------------------- MODULE Host --------------------------------
(***************************************************************************)
(* The machine that snirect is installed on, and several processes of it:  *)
(* `snirect` itself (runProxy in internal/cmd/run.go from the CA on) and   *)
(* the commands install-cert, uninstall-cert, set-proxy, unset-proxy,      *)
(* install and uninstall (internal/cmd, internal/app).  They share the CA  *)
(* files (CertAuthority), the trust store (TrustStore), the desktop's      *)
(* proxy setting (SystemProxy), the port and the installed program, and    *)
(* nothing keeps two of them from running at once.                         *)
(*                                                                         *)
(* A process is "idle" or at a step of its command:                        *)
(*   "load"                         NewCertificateManager                  *)
(*   "check", "apply", "update",    installCertPlatform                    *)
(*   "confirm"                                                             *)
(*   "remove", "refresh"            uninstallCertPlatform                  *)
(*   "listen"                       runProxy is about to start the server  *)
(*   "set", "clear"                 SetPAC, ClearPAC                       *)
(*   "notify", "serve", "exit"      the end of runProxy                    *)
(*   "copy", "unit"                 app.Install                            *)
(*   "delete", "erase"              app.Uninstall                          *)
(***************************************************************************)
EXTENDS TrustStore, SystemProxy

CONSTANTS
    Scenario,   \* bound: which commands run beside each other, with or without
                \* the system proxy, on which platforms, after an earlier run
                \* that saved a CA or not
    MaxFaults   \* bound: commands of the system that fail, processes killed

\* `snirect` with ca_install = never, auto (the default) or always.
Run == {"never", "auto", "always"}

Cmd == Run \cup {"install-cert", "uninstall-cert", "set-proxy", "unset-proxy",
                 "install", "uninstall"}

ASSUME HostAssumption ==
    /\ Scenario \subseteq [commands : [Proc -> SUBSET Cmd],
                           proxies : SUBSET BOOLEAN, platforms : SUBSET Platform,
                           saved : BOOLEAN]
    /\ MaxFaults \in Nat

VARIABLES
    may,        \* the scenario, fixed
    job, cmd,   \* process -> its step, its command
    proxy,      \* process -> does it set the system proxy? (set_proxy, -s)
    slot,       \* process -> the slot of SetPAC or ClearPAC it writes next
    trusted,    \* process -> did InstallCert return without an error?
    server,     \* process -> "off", "starting", "listening" or "failed"
    program,    \* which of the binary and the service are installed
    faults,     \* how often something failed (history)
    mar,        \* process -> what went wrong or changed under it (history)
    orphaned    \* may the proxy setting have lost its owner? (history)

runVars  == <<job, cmd, proxy, slot, trusted, server>>
vars     == <<may, caVars, platform, storeVars, pac, runVars, program, faults, mar,
              orphaned>>

Step == {"idle", "load", "check", "apply", "update", "confirm", "remove",
         "refresh", "listen", "set", "clear", "notify", "serve", "exit",
         "copy", "unit", "delete", "erase"}

\* Every variable has its type.
TypeOK ==
    /\ may \in Scenario
    /\ CATypeOK /\ StoreTypeOK /\ ProxyTypeOK
    /\ job \in [Proc -> Step]
    /\ cmd \in [Proc -> Cmd \cup {"none"}]
    /\ proxy \in [Proc -> BOOLEAN] /\ slot \in [Proc -> Slot]
    /\ trusted \in [Proc -> BOOLEAN]
    /\ server \in [Proc -> {"off", "starting", "listening", "failed"}]
    /\ program \subseteq {"binary", "service"}
    /\ faults \in Nat
    /\ mar \in [Proc -> SUBSET {"denied", "lost", "grown", "pac"}]
    /\ orphaned \in BOOLEAN

Init ==
    /\ may \in Scenario
    /\ CAInit(may.saved) /\ StoreInit /\ ProxyInit
    /\ platform \in may.platforms
    /\ job = [p \in Proc |-> "idle"] /\ cmd = [p \in Proc |-> "none"]
    /\ proxy = [p \in Proc |-> FALSE] /\ slot = [p \in Proc |-> 1]
    /\ trusted = [p \in Proc |-> FALSE]
    /\ server = [p \in Proc |-> "off"]
    /\ program = {}
    /\ faults = 0 /\ mar = [p \in Proc |-> {}]
    /\ orphaned = FALSE

Runs(p) == cmd[p] \in Run
PacOn == \E k \in Slot : pac[k]

-----------------------------------------------------------------------------
(* Bookkeeping *)

\* What a step does to the processes beside it.
Disturbance ==
    (IF \/ certFile' # certFile \/ anchor' # anchor
        \/ ~(bundle \subseteq bundle') THEN {"lost"} ELSE {})
    \cup (IF ~(bundle' \subseteq bundle) \/ ~(program' \subseteq program)
          THEN {"grown"} ELSE {})
    \cup (IF pac' # pac THEN {"pac"} ELSE {})

\* What is noted of a process, as far as the properties ask for it.
Relevant(c) ==
    IF c \in Run THEN {"denied", "lost", "pac"}
    ELSE IF c = "uninstall" THEN {"denied", "lost", "grown", "pac"} ELSE {}

Note(p, own) ==
    mar' = [q \in Proc |-> IF job'[q] = "idle" THEN {}
                           ELSE (mar[q] \cup IF q = p THEN own ELSE Disturbance)
                                \cap Relevant(cmd'[q])]

Fault(b) ==
    /\ b => faults < MaxFaults
    /\ faults' = IF b THEN faults + 1 ELSE faults

\* A command of the system fails, or a process does.
Fine(p) == Fault(FALSE) /\ Note(p, {})
Denied(p) == Fault(TRUE) /\ Note(p, {"denied"})

GoTo(p, s) == job' = [job EXCEPT ![p] = s]

\* The end of a command, or what follows a part of it.
End(p) == GoTo(p, "idle")

\* An idle process has no command.
KeepRun ==
    /\ cmd' = [p \in Proc |-> IF job'[p] = "idle" THEN "none" ELSE cmd[p]]
    /\ proxy' = [p \in Proc |-> job'[p] # "idle" /\ proxy[p]]
    /\ UNCHANGED server
KeepOrphan == UNCHANGED orphaned
OnlyJob == UNCHANGED <<platform, pac, slot, program>> /\ KeepRun /\ KeepOrphan

-----------------------------------------------------------------------------
(* Starting a command, and the CA *)

First(c) ==
    CASE c \in Run \cup {"install-cert"} -> "load"
      [] c = "uninstall-cert" -> "remove"
      [] c = "set-proxy" -> "set"
      [] c = "unset-proxy" -> "clear"
      [] c = "install" -> "copy"
      [] c = "uninstall" -> "delete"

Begin(p, c) ==
    /\ job[p] = "idle"
    /\ GoTo(p, First(c))
    /\ cmd' = [cmd EXCEPT ![p] = c]
    /\ \E s \in IF c \in Run THEN may.proxies ELSE {FALSE} :
          proxy' = [proxy EXCEPT ![p] = s]
    /\ IF First(c) = "load" THEN NewCertificateManager(p) ELSE UNCHANGED caVars
    /\ UNCHANGED <<platform, storeVars, pac, slot, trusted, server, program>>
    /\ Fine(p) /\ KeepOrphan

\* The switch over ca_install; SetupCA installs.
AfterLoad(p) ==
    IF cmd[p] = "never" THEN "listen"
    ELSE IF cmd[p] = "always" THEN "remove" ELSE "check"

LoadOrGenerate(p) ==
    /\ job[p] = "load"
    /\ CAStep(p)
    /\ GoTo(p, IF at'[p] = "ready" THEN AfterLoad(p) ELSE "load")
    /\ UNCHANGED <<storeVars, trusted>>
    /\ OnlyJob /\ Fine(p)

-----------------------------------------------------------------------------
(* installCertPlatform *)

\* runProxy warns of an error and goes on; install-cert reports it.
AfterInstall(p, success) ==
    /\ trusted' = [trusted EXCEPT ![p] = success /\ Runs(p)]
    /\ IF Runs(p)
       THEN GoTo(p, "listen") /\ UNCHANGED caVars
       ELSE End(p) /\ Stop(p)

CheckInstalled(p) ==
    /\ job[p] = "check"
    /\ IF IsCertInstalled THEN AfterInstall(p, TRUE)
       ELSE GoTo(p, "apply") /\ UNCHANGED <<caVars, trusted>>
    /\ UNCHANGED storeVars
    /\ OnlyJob /\ Fine(p)

Apply(p) ==
    /\ job[p] = "apply"
    /\ \/ StoreAnchor /\ GoTo(p, "confirm") /\ UNCHANGED <<caVars, trusted>>
       \/ WriteAnchor /\ GoTo(p, "update") /\ UNCHANGED <<caVars, trusted>>
       \/ (AddToKeychain \/ AddToRootStore) /\ AfterInstall(p, TRUE)
    /\ OnlyJob /\ Fine(p)

\* update-ca-certificates may succeed without a look at our directory.
UpdateStore(p) ==
    /\ job[p] = "update"
    /\ GoTo(p, "confirm")
    /\ UNCHANGED <<caVars, trusted>>
    /\ OnlyJob
    /\ \/ Extract /\ Fine(p)
       \/ UNCHANGED storeVars /\ Denied(p)

\* Mutation of Confirm: success is reported without another look.
ConfirmBlindly(p) ==
    /\ job[p] = "confirm"
    /\ AfterInstall(p, TRUE)
    /\ UNCHANGED storeVars
    /\ OnlyJob /\ Fine(p)

\* Linux looks again before it reports success.
Confirm(p) ==
    /\ job[p] = "confirm"
    /\ AfterInstall(p, IsCertInstalled)
    /\ UNCHANGED storeVars
    /\ OnlyJob /\ Fine(p)

\* sudo is refused, a tool is missing or fails, the file cannot be read.
InstallDenied(p) ==
    /\ job[p] \in {"apply", "update"}
    /\ AfterInstall(p, FALSE)
    /\ UNCHANGED storeVars
    /\ OnlyJob
    /\ IF certFile \in Authority THEN Denied(p) ELSE Fine(p)

-----------------------------------------------------------------------------
(* uninstallCertPlatform *)

\* forceInstallCertPlatform ignores the error and installs; app.Uninstall
\* warns and removes the files all the same.
AfterUninstall(p) ==
    /\ IF Runs(p) THEN GoTo(p, "check")
       ELSE IF cmd[p] = "uninstall" THEN GoTo(p, "erase") ELSE End(p)
    /\ UNCHANGED <<caVars, trusted>>

Untrust(p) ==
    /\ job[p] = "remove"
    /\ \/ RemoveAnchor /\ GoTo(p, "refresh") /\ UNCHANGED <<caVars, trusted>>
       \/ (DeleteFromKeychain \/ DeleteFromRootStore) /\ AfterUninstall(p)
    /\ OnlyJob /\ Fault(FALSE)
    /\ Note(p, IF Cardinality(bundle) > 1 THEN {"denied"} ELSE {})

\* sudo rm fails: a warning.
UntrustDenied(p) ==
    /\ job[p] = "remove" /\ (Linux => anchor # None)
    /\ IF Linux THEN GoTo(p, "refresh") /\ UNCHANGED <<caVars, trusted>>
       ELSE AfterUninstall(p)
    /\ UNCHANGED storeVars
    /\ OnlyJob /\ Denied(p)

Refresh(p) ==
    /\ job[p] = "refresh"
    /\ Extract
    /\ AfterUninstall(p)
    /\ OnlyJob /\ Fine(p)

\* The update command fails, or there is none: the bundle stays.
RefreshDenied(p) ==
    /\ job[p] = "refresh"
    /\ AfterUninstall(p)
    /\ UNCHANGED storeVars
    /\ OnlyJob /\ Denied(p)

-----------------------------------------------------------------------------
(* The server and the proxy setting *)

\* runProxy starts the server's goroutine and sleeps before it sets the proxy.
StartServer(p) ==
    /\ job[p] = "listen"
    /\ server' = [server EXCEPT ![p] = "starting"]
    /\ GoTo(p, IF proxy[p] THEN "set" ELSE "notify")
    /\ UNCHANGED <<caVars, platform, storeVars, pac, cmd, proxy, slot, trusted,
                   program>>
    /\ Fine(p) /\ KeepOrphan

\* ProxyServer.Start: one process has the port.
Listen(p) ==
    /\ server[p] = "starting"
    /\ server' = [server EXCEPT ![p] =
          IF \E q \in Proc : server[q] = "listening" THEN "failed"
          ELSE "listening"]
    /\ UNCHANGED <<caVars, platform, storeVars, pac, job, cmd, proxy, slot,
                   trusted, program, faults, mar>>
    /\ KeepOrphan

\* After SetPAC.
Set(p) == IF Runs(p) THEN "notify" ELSE "idle"

\* After ClearPAC; app.Uninstall looks for root.crt.
Cleared(p) ==
    IF Runs(p) THEN "exit"
    ELSE IF cmd[p] # "uninstall" THEN "idle"
    ELSE IF certFile # None THEN "remove" ELSE "erase"

\* The next command of SetPAC or ClearPAC; one that fails is skipped.
PacStep(p, write, after) ==
    /\ IF slot[p] < Writes(platform)
       THEN slot' = [slot EXCEPT ![p] = @ + 1] /\ UNCHANGED job
       ELSE slot' = [slot EXCEPT ![p] = 1] /\ GoTo(p, after)
    /\ \/ write /\ UNCHANGED <<caVars, platform, storeVars, trusted, program>>
               /\ KeepRun /\ Fine(p)
       \/ UNCHANGED <<caVars, platform, storeVars, pac, trusted, program>>
               /\ KeepRun /\ Denied(p)

\* set-proxy leaves a setting that no process is going to clear.
SetPAC(p) ==
    /\ job[p] = "set"
    /\ PacStep(p, SetSlot(slot[p]), Set(p))
    /\ orphaned' = (orphaned \/ (~Runs(p) /\ pac' # pac))

ClearPAC(p) ==
    /\ job[p] = "clear"
    /\ PacStep(p, ClearSlot(slot[p]), Cleared(p))
    /\ orphaned' = ((orphaned \/ pac' = pac) /\ \E k \in Slot : pac'[k])

\* From here on an interrupt is a message on a channel.
Notify(p) ==
    /\ job[p] = "notify"
    /\ GoTo(p, "serve")
    /\ UNCHANGED <<caVars, storeVars, trusted>>
    /\ OnlyJob /\ Fine(p)

\* Mutation of Leave: the deferred ClearPAC is only run after an interrupt.
LeaveForgetsProxy(p) ==
    IF proxy[p] /\ server[p] # "failed" THEN "clear" ELSE "exit"

Leave(p) == IF proxy[p] THEN "clear" ELSE "exit"

\* An interrupt, or the error of a server that could not listen.
ShutDown(p) ==
    /\ job[p] = "serve"
    /\ GoTo(p, Leave(p))
    /\ UNCHANGED <<caVars, storeVars, trusted>>
    /\ OnlyJob /\ Fine(p)

Forget(p) ==
    /\ End(p)
    /\ IF at[p] = "off" THEN UNCHANGED caVars ELSE Stop(p)
    /\ server' = [server EXCEPT ![p] = "off"]
    /\ trusted' = [trusted EXCEPT ![p] = FALSE]
    /\ slot' = [slot EXCEPT ![p] = 1]
    /\ cmd' = [cmd EXCEPT ![p] = "none"]
    /\ proxy' = [proxy EXCEPT ![p] = FALSE]
    /\ UNCHANGED <<platform, storeVars, pac, program>>
    /\ Note(p, {})

Exit(p) ==
    /\ job[p] = "exit"
    /\ Forget(p) /\ Fault(FALSE) /\ KeepOrphan

\* SIGTERM, which is not handled, an interrupt before Notify, a panic, or an
\* error that ends the command early; `systemctl stop` of app.Uninstall, too.
Kill(p) ==
    /\ job[p] # "idle"
    /\ Forget(p) /\ Fault(TRUE)
    /\ orphaned' = (orphaned \/ (PacOn /\ job[p] \in {"set", "notify", "serve", "clear"}))

-----------------------------------------------------------------------------
(* app.Install and app.Uninstall *)

Install(p) ==
    /\ \/ /\ job[p] = "copy" /\ GoTo(p, "unit")
          /\ program' = program \cup {"binary"}
       \/ /\ job[p] = "unit" /\ End(p)
          /\ program' = program \cup {"service"}
    /\ UNCHANGED <<caVars, platform, storeVars, pac, slot, trusted>>
    /\ KeepRun /\ Fine(p) /\ KeepOrphan

\* What cannot be removed is warned about.
DeleteProgram(p) ==
    /\ job[p] = "delete"
    /\ GoTo(p, "clear")
    /\ program' \in SUBSET program
    /\ UNCHANGED <<caVars, platform, storeVars, pac, slot, trusted>>
    /\ KeepRun /\ KeepOrphan
    /\ IF program' = {} THEN Fine(p) ELSE Denied(p)

\* os.RemoveAll of the directory with the configuration and the CA files; what
\* it cannot remove is warned about.
EraseFiles(p) ==
    /\ job[p] = "erase"
    /\ certFile' \in {None, certFile} /\ keyFile' \in {None, keyFile}
    /\ End(p)
    /\ UNCHANGED <<made, caProc, storeVars, trusted>>
    /\ OnlyJob
    /\ IF certFile' = None /\ keyFile' = None THEN Fine(p) ELSE Denied(p)

Act(p) ==
    \/ LoadOrGenerate(p)
    \/ CheckInstalled(p) \/ Apply(p) \/ UpdateStore(p) \/ Confirm(p)
    \/ InstallDenied(p)
    \/ Untrust(p) \/ UntrustDenied(p) \/ Refresh(p) \/ RefreshDenied(p)
    \/ StartServer(p) \/ Listen(p)
    \/ SetPAC(p) \/ ClearPAC(p)
    \/ Notify(p) \/ ShutDown(p) \/ Exit(p)
    \/ Install(p) \/ DeleteProgram(p) \/ EraseFiles(p)

Next == \E p \in Proc :
    /\ \/ \E c \in may.commands[p] : Begin(p, c)
       \/ Act(p)
       \/ Kill(p)
    /\ UNCHANGED may

Spec == Init /\ [][Next]_vars

-----------------------------------------------------------------------------
\* A process that serves after InstallCert succeeded signs with a CA that the
\* system trusts, unless meanwhile another process replaced the CA or its
\* anchor, or took something out of the trust store.
ServedIsTrusted == \A p \in Proc :
    server[p] = "listening" /\ trusted[p] /\ "lost" \notin mar[p]
        => root[p] \in bundle

\* A proxy setting that points to us is some process's to clear, unless
\* set-proxy made it, its owner was killed or a command to clear it failed.
NoOrphanedProxy ==
    PacOn => orphaned \/ \E p \in Proc :
        Runs(p) /\ proxy[p] /\ job[p] \in {"set", "notify", "serve", "clear"}

\* The desktop uses a process that was told to set the proxy and serves, unless
\* a command failed or another process wrote the setting: that is all that
\* protects it when a second instance fails to listen and cleans up.
ServedIsUsed == \A p \in Proc :
    job[p] = "serve" /\ proxy[p] /\ mar[p] \cap {"denied", "pac"} = {}
        => PacActive(platform)

\* snirect uninstall, when nothing of it failed and no other process was at
\* work beside it, leaves no program, no proxy setting, no CA file and, except
\* for what `trust anchor` stored and for a CA whose root.crt was gone before,
\* no trusted CA (app.Uninstall).
UninstallIsComplete ==
    [][\A p \in Proc : EraseFiles(p) /\ mar[p] = {} /\ faults' = faults =>
          /\ program = {} /\ ~PacOn
          /\ certFile' = None /\ keyFile' = None
          /\ platform # "trust" /\ certFile # None => bundle = {}]_vars
=============================================================================
