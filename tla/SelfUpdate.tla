----------------------------- MODULE SelfUpdate -----------------------------
(***************************************************************************)
(* How snirect updates itself and its rules: the first part of runProxy in *)
(* internal/cmd/run.go, internal/cmd/update.go, fetch_rules.go and         *)
(* reset-config, and the parts of internal/update/manager.go that they     *)
(* call, over crashes and failed file operations and by several processes  *)
(* at once.                                                                *)
(*                                                                         *)
(* A process p goes through                                                *)
(*   "start"   HasPendingUpdate        "check"  ShouldCheckUpdate          *)
(*   "perform" PerformSelfUpdate       "ask"    CheckForUpdate             *)
(*   "unmark"  after its Rename        "fetch"  downloading to memory      *)
(*   "exec"    starting the new        "write"  in os.WriteFile            *)
(*             binary                  "chmod", "mark"                     *)
(*   "rules"   ShouldCheckRules        "stamp"  UpdateCheckTimestamp of    *)
(*   "rulesGet", "rulesWrite",                  `snirect update`           *)
(*   "rulesStamp"  FetchRules          "serve"  the rest of runProxy       *)
(*   "reset"   ensureFile of `snirect reset-config`, which writes the      *)
(*             rules that snirect comes with                               *)
(* A crash can come between any two of them.  All checks and updates are   *)
(* switched on; a failed time stamp, which makes a check come too soon, is *)
(* left out, and so is Windows, where nothing is renamed.                  *)
(***************************************************************************)
EXTENDS Naturals

CONSTANTS
    Proc,       \* processes of snirect
    Command,    \* process -> the commands it runs
    MaxVersion, \* bound: releases
    MaxFaults,  \* bound: crashes and failed file operations
    None

Commands == {"run", "update", "fetch-rules", "reset-config"}

ASSUME SelfUpdateAssumption ==
    /\ Command \in [Proc -> SUBSET Commands]
    /\ MaxVersion \in Nat \ {0} /\ MaxFaults \in Nat
    /\ None \notin [ver : Nat, whole : BOOLEAN, exec : BOOLEAN]

VARIABLES
    bin,        \* the installed binary; release 0 is a mixture of two
    dl,         \* the downloaded one in the directory `updates`, or None
    marked,     \* is there a file .self_update?
    due,        \* is .update_check missing or older than the interval?
    rules,      \* rules.toml: "whole" or "partial"
    rulesDue,   \* is .rules_check missing or older than the interval?
    latest,     \* the newest release
    pc, cmd,    \* process -> where it is, the command it runs
    ver,        \* process -> the version it runs
    want,       \* process -> the version it downloads
    out,        \* process -> where the file is now that it writes: "dl", "bin",
                \* "gone" or "none"
    faults,     \* how often something failed (history)
    spoilt      \* the ways in which a file may have been spoilt (history)

files    == <<bin, dl, marked, due, rules, rulesDue>>
procVars == <<pc, cmd, ver, want, out>>
history  == <<faults, spoilt>>
vars     == <<files, latest, procVars, history>>

Version == 1 .. MaxVersion
File == [ver : {0} \cup Version, whole : BOOLEAN, exec : BOOLEAN]

Place == {"off", "start", "perform", "unmark", "exec", "rules", "rulesGet",
          "rulesWrite", "rulesStamp", "check", "ask", "fetch", "write", "chmod",
          "mark", "stamp", "reset", "serve"}

\* Every variable has its type.
TypeOK ==
    /\ bin \in File /\ dl \in File \cup {None}
    /\ marked \in BOOLEAN /\ due \in BOOLEAN /\ rulesDue \in BOOLEAN
    /\ rules \in {"whole", "partial"}
    /\ latest \in Version
    /\ pc \in [Proc -> Place] /\ cmd \in [Proc -> Commands]
    /\ ver \in [Proc -> {0} \cup Version] /\ want \in [Proc -> Version]
    /\ out \in [Proc -> {"none", "dl", "bin", "gone"}]
    /\ faults \in Nat /\ spoilt \subseteq {"download", "chmod", "rules"}

Init ==
    /\ bin = [ver |-> 1, whole |-> TRUE, exec |-> TRUE]
    /\ dl = None /\ marked = FALSE
    /\ due = TRUE /\ rules = "whole" /\ rulesDue = TRUE
    /\ latest = 1
    /\ pc = [p \in Proc |-> "off"] /\ cmd = [p \in Proc |-> "run"]
    /\ ver = [p \in Proc |-> 1] /\ want = [p \in Proc |-> 1]
    /\ out = [p \in Proc |-> "none"]
    /\ faults = 0 /\ spoilt = {}

GoTo(p, l) == pc' = [pc EXCEPT ![p] = l]

\* A failed or finished step: `snirect run` goes on, the other commands end.
GoOn(p) == GoTo(p, IF cmd[p] = "run" THEN "serve" ELSE "off")

Usable(f) == f.whole /\ f.exec

\* A file that is open for writing cannot be executed.
Runnable == Usable(bin) /\ \A p \in Proc : out[p] # "bin"

Fault == faults < MaxFaults /\ faults' = faults + 1

\* Does another process write the file that p writes?
Shared(p) == \E q \in Proc \ {p} : out[q] = out[p]

-----------------------------------------------------------------------------
(* The operator, the clock and the releases *)

\* Nothing asks whether rules are due before `snirect fetch-rules`.
First(c) == CASE c = "run"          -> "start"
              [] c = "update"       -> "check"
              [] c = "fetch-rules"  -> "rulesGet"
              [] c = "reset-config" -> "reset"

Start(p, c) ==
    /\ pc[p] = "off" /\ Runnable
    /\ cmd' = [cmd EXCEPT ![p] = c]
    /\ ver' = [ver EXCEPT ![p] = bin.ver]
    /\ GoTo(p, First(c))
    /\ UNCHANGED <<files, latest, want, out, history>>

Exit(p) ==
    /\ pc[p] = "serve"
    /\ GoTo(p, "off")
    /\ UNCHANGED <<files, latest, cmd, ver, want, out, history>>

Crash(p) ==
    /\ pc[p] \notin {"off", "serve"}
    /\ Fault
    /\ GoTo(p, "off")
    /\ out' = [out EXCEPT ![p] = "none"]
    /\ UNCHANGED <<files, latest, cmd, ver, want, spoilt>>

Release ==
    /\ latest < MaxVersion
    /\ latest' = latest + 1
    /\ UNCHANGED <<files, procVars, history>>

\* An interval runs out.
UpdateFallsDue ==
    /\ ~due /\ due' = TRUE
    /\ UNCHANGED <<bin, dl, marked, rules, rulesDue, latest, procVars, history>>

RulesFallDue ==
    /\ ~rulesDue /\ rulesDue' = TRUE
    /\ UNCHANGED <<bin, dl, marked, due, rules, latest, procVars, history>>

-----------------------------------------------------------------------------
(* PerformSelfUpdate *)

HasPendingUpdate(p) ==
    /\ pc[p] = "start"
    /\ GoTo(p, IF marked THEN "perform" ELSE "rules")
    /\ UNCHANGED <<files, latest, cmd, ver, want, out, history>>

\* The mark is gone meanwhile, nothing was downloaded, or the binary cannot be
\* replaced: a mark stays.
PerformFails(p) ==
    /\ pc[p] = "perform"
    /\ \/ (~marked \/ dl = None) /\ UNCHANGED faults
       \/ dl # None /\ Fault
    /\ GoTo(p, "rules")
    /\ UNCHANGED <<files, latest, cmd, ver, want, out, spoilt>>

\* Another process may have removed the mark, or begun to write the file again,
\* after p looked; those who write it now write the installed binary.
Rename(p) ==
    /\ pc[p] = "perform" /\ dl # None
    /\ bin' = dl /\ dl' = None
    /\ out' = [q \in Proc |-> CASE out[q] = "dl"  -> "bin"
                                [] out[q] = "bin" -> "gone"
                                [] OTHER          -> out[q]]
    /\ GoTo(p, "unmark")
    /\ UNCHANGED <<marked, due, rules, rulesDue, latest, cmd, ver, want, history>>

\* The error of Remove is not looked at.
Unmark(p) ==
    /\ pc[p] = "unmark"
    /\ \/ marked' = FALSE /\ UNCHANGED faults
       \/ UNCHANGED marked /\ Fault
    /\ GoTo(p, "exec")
    /\ UNCHANGED <<bin, dl, due, rules, rulesDue, latest, cmd, ver, want, out, spoilt>>

\* The new process takes the place of p.
Exec(p) ==
    /\ pc[p] = "exec"
    /\ IF Runnable THEN GoTo(p, "start") /\ ver' = [ver EXCEPT ![p] = bin.ver]
                   ELSE GoTo(p, "rules") /\ UNCHANGED ver
    /\ UNCHANGED <<files, latest, cmd, want, out, history>>

-----------------------------------------------------------------------------
(* FetchRules *)

\* History: c tells that the files of `what` may be spoilt.
NoteSpoilt(what, c) == spoilt' = spoilt \cup (IF c THEN {what} ELSE {})

ShouldCheckRules(p) ==
    /\ pc[p] = "rules"
    /\ GoTo(p, IF rulesDue THEN "rulesGet" ELSE "check")
    /\ UNCHANGED <<files, latest, cmd, ver, want, out, history>>

\* runProxy goes on to the check for an update, whatever FetchRules returned.
AfterRules(p) == GoTo(p, IF cmd[p] = "run" THEN "check" ELSE "off")

\* The download failed, or what came are no rules.
SkipRules(p) ==
    /\ pc[p] = "rulesGet"
    /\ AfterRules(p)
    /\ UNCHANGED <<files, latest, cmd, ver, want, out, history>>

\* Are the rules not due, or does another process write or stamp them?  `snirect
\* run` asked before its download, fetch-rules and reset-config do not ask.
RulesTaken(p) ==
    ~rulesDue \/ \E q \in Proc \ {p} : pc[q] \in {"rulesWrite", "rulesStamp"}

\* What os.WriteFile starts with: the file is truncated.
TruncateRules(p) ==
    /\ rules' = "partial"
    /\ NoteSpoilt("rules", RulesTaken(p))
    /\ GoTo(p, "rulesWrite")
    /\ UNCHANGED <<bin, dl, marked, due, latest, cmd, ver, want, out, faults>>

\* Mutation of FetchRules: the time is stamped first.
FetchRulesStamped(p) ==
    /\ pc[p] = "rulesGet"
    /\ TruncateRules(p)
    /\ rulesDue' = FALSE

FetchRules(p) ==
    /\ pc[p] = "rulesGet"
    /\ TruncateRules(p)
    /\ UNCHANGED rulesDue

ResetRules(p) ==
    /\ pc[p] = "reset"
    /\ TruncateRules(p)
    /\ UNCHANGED rulesDue

\* A process that wrote the file whole, and alone, has undone what was spoilt.
WriteRules(p) ==
    LET alone == \A q \in Proc \ {p} : pc[q] # "rulesWrite" IN
    /\ pc[p] = "rulesWrite"
    /\ \/ /\ rules' = "whole" \/ (~alone /\ UNCHANGED rules)
          /\ spoilt' = IF alone THEN spoilt \ {"rules"} ELSE spoilt
          /\ GoTo(p, IF cmd[p] = "reset-config" THEN "off" ELSE "rulesStamp")
          /\ UNCHANGED faults
       \/ AfterRules(p) /\ Fault /\ UNCHANGED <<rules, spoilt>>
    /\ UNCHANGED <<bin, dl, marked, due, rulesDue, latest, cmd, ver, want, out>>

StampRules(p) ==
    /\ pc[p] = "rulesStamp"
    /\ rulesDue' = FALSE
    /\ AfterRules(p)
    /\ UNCHANGED <<bin, dl, marked, due, rules, latest, cmd, ver, want, out, history>>

-----------------------------------------------------------------------------
(* The check for an update and its download *)

\* `snirect update` does not ask.
ShouldCheckUpdate(p) ==
    /\ pc[p] = "check"
    /\ IF cmd[p] = "run" /\ ~due THEN GoOn(p) ELSE GoTo(p, "ask")
    /\ UNCHANGED <<files, latest, cmd, ver, want, out, history>>

\* `snirect run` stamps the time whatever the answer.
UpdateCheckTimestamp(p) == due' = IF cmd[p] = "run" THEN FALSE ELSE due

\* No answer, or no newer release.
NoUpdate(p) ==
    /\ pc[p] = "ask"
    /\ UpdateCheckTimestamp(p)
    /\ GoOn(p)
    /\ UNCHANGED <<bin, dl, marked, rules, rulesDue, latest, cmd, ver, want, out, history>>

UpdateFound(p) ==
    /\ pc[p] = "ask"
    /\ ver[p] < latest
    /\ want' = [want EXCEPT ![p] = latest]
    /\ UpdateCheckTimestamp(p)
    /\ GoTo(p, "fetch")
    /\ UNCHANGED <<bin, dl, marked, rules, rulesDue, latest, cmd, ver, out, history>>

FetchFails(p) ==
    /\ pc[p] = "fetch"
    /\ GoOn(p)
    /\ UNCHANGED <<files, latest, cmd, ver, want, out, history>>

\* A download that another process may still rename or write.
InUse(p) == marked \/ \E q \in Proc \ {p} : pc[q] \in {"perform", "write", "chmod", "mark"}

\* What WriteFile starts from: a file that exists keeps its mode, a new one cannot
\* be executed; it may become a mixture, if another process writes another release.
Truncated(p) ==
    LET mixed == \E q \in Proc \ {p} : out[q] = "dl" /\ want[q] # want[p]
    IN  [ver : {want[p]} \cup (IF mixed THEN {0} ELSE {}), whole : {FALSE},
         exec : {dl # None /\ dl.exec}]

\* Mutation of BeginWrite: the mark is set before the download is there.
BeginWriteMarked(p) ==
    /\ pc[p] = "fetch"
    /\ dl' \in Truncated(p) /\ marked' = TRUE
    /\ out' = [out EXCEPT ![p] = "dl"]
    /\ NoteSpoilt("download", InUse(p))
    /\ GoTo(p, "write")
    /\ UNCHANGED <<bin, due, rules, rulesDue, latest, cmd, ver, want, faults>>

BeginWrite(p) ==
    /\ pc[p] = "fetch"
    /\ dl' \in Truncated(p)
    /\ out' = [out EXCEPT ![p] = "dl"]
    /\ NoteSpoilt("download", InUse(p))
    /\ GoTo(p, "write")
    /\ UNCHANGED <<bin, marked, due, rules, rulesDue, latest, cmd, ver, want, faults>>

\* The file is whole, unless another process has truncated it meanwhile.
Written(p, f) == {[f EXCEPT !.whole = w] : w \in IF Shared(p) THEN BOOLEAN ELSE {f.ver # 0}}

EndWrite(p) ==
    /\ pc[p] = "write"
    /\ out' = [out EXCEPT ![p] = "none"]
    /\ \/ /\ IF out[p] = "dl"  THEN dl'  \in Written(p, dl)  ELSE UNCHANGED dl
          /\ IF out[p] = "bin" THEN bin' \in Written(p, bin) ELSE UNCHANGED bin
          /\ GoTo(p, "chmod")
          /\ UNCHANGED faults
       \/ GoOn(p) /\ Fault /\ UNCHANGED <<dl, bin>>
    /\ UNCHANGED <<marked, due, rules, rulesDue, latest, cmd, ver, want, spoilt>>

Chmod(p) ==
    /\ pc[p] = "chmod" /\ dl # None
    /\ dl' = [dl EXCEPT !.exec = TRUE]
    /\ GoTo(p, "mark")
    /\ UNCHANGED <<bin, marked, due, rules, rulesDue, latest, cmd, ver, want, out, history>>

\* `snirect run` does not look at the error, `snirect update` ends.
ChmodFails(p) ==
    /\ pc[p] = "chmod"
    /\ \/ dl = None /\ UNCHANGED faults
       \/ dl # None /\ Fault
    /\ NoteSpoilt("chmod", cmd[p] = "run" /\ dl # None)
    /\ GoTo(p, IF cmd[p] = "run" THEN "mark" ELSE "off")
    /\ UNCHANGED <<files, latest, cmd, ver, want, out>>

\* Mutation of MarkForSelfUpdate: nobody marks the download.
MarkForgotten(p) ==
    /\ pc[p] = "mark"
    /\ GoTo(p, IF cmd[p] = "run" THEN "serve" ELSE "stamp")
    /\ UNCHANGED <<files, latest, cmd, ver, want, out, history>>

MarkForSelfUpdate(p) ==
    /\ pc[p] = "mark"
    /\ marked' = TRUE
    /\ GoTo(p, IF cmd[p] = "run" THEN "serve" ELSE "stamp")
    /\ UNCHANGED <<bin, dl, due, rules, rulesDue, latest, cmd, ver, want, out, history>>

\* `snirect run` goes on, `snirect update` ends; the file may be there.
MarkFails(p) ==
    /\ pc[p] = "mark" /\ Fault
    /\ marked' \in {marked, TRUE}
    /\ GoOn(p)
    /\ UNCHANGED <<bin, dl, due, rules, rulesDue, latest, cmd, ver, want, out, spoilt>>

StampUpdate(p) ==
    /\ pc[p] = "stamp"
    /\ due' = FALSE
    /\ GoTo(p, "off")
    /\ UNCHANGED <<bin, dl, marked, rules, rulesDue, latest, cmd, ver, want, out, history>>

-----------------------------------------------------------------------------
\* What a process does by itself, if the network gives answers.
Proceed(p) ==
    \/ HasPendingUpdate(p) \/ PerformFails(p) \/ Rename(p) \/ Unmark(p) \/ Exec(p)
    \/ ShouldCheckRules(p) \/ ResetRules(p) \/ WriteRules(p) \/ StampRules(p)
    \/ ShouldCheckUpdate(p)
    \/ EndWrite(p) \/ Chmod(p) \/ ChmodFails(p)
    \/ MarkForSelfUpdate(p) \/ MarkFails(p) \/ StampUpdate(p)

\* What it does once a download has failed, or brought nothing new, or succeeded.
Refused(p)  == SkipRules(p) \/ NoUpdate(p) \/ FetchFails(p)
Answered(p) == FetchRules(p) \/ UpdateFound(p) \/ BeginWrite(p)

Next ==
    \/ \E p \in Proc :
          \/ \E c \in Command[p] : Start(p, c)
          \/ Exit(p) \/ Crash(p)
          \/ Proceed(p)
          \/ Refused(p) \/ Answered(p)
    \/ Release \/ UpdateFallsDue \/ RulesFallDue

Spec == Init /\ [][Next]_vars

-----------------------------------------------------------------------------
(* Properties *)

\* Whatever else is interrupted or fails, the installed binary can be run: the
\* mark is set after the download and the file is replaced by Rename.  It breaks
\* only through a download begun over one that is marked or that another process
\* writes or renames, or through a chmod whose failure `snirect run` ignores.
UsableUnlessSpoilt == spoilt \cap {"download", "chmod"} = {} => Usable(bin)

\* rules.toml is cut short by a crash or a failed write only while the next start
\* is going to fetch it again, since the time is stamped after the write; unless
\* two processes wrote it at a time, or the write was begun although the rules
\* were not due, as `snirect fetch-rules` and reset-config do.
RulesAreRefetched ==
    rules = "partial" /\ "rules" \notin spoilt /\ (\A p \in Proc : pc[p] # "rulesWrite")
        => rulesDue

\* A release gets installed, whatever failed on the way: a mark that was left
\* behind, or a download without one, does not stop the next; unless the
\* installed binary is broken.
ReleaseArrives == \A v \in Version : latest >= v ~> bin.ver >= v \/ ~Usable(bin)

(***************************************************************************)
(* What makes the first two hold.  While nothing is spoilt, downloads take *)
(* turns, nobody writes what is marked, and who is about to rename finds a  *)
(* download that can be run, or none.                                      *)
(***************************************************************************)
Downloading(p) == pc[p] \in {"write", "chmod", "mark"}
Pending == marked \/ \E p \in Proc : pc[p] = "perform"
Sound == spoilt \cap {"download", "chmod"} = {}

WritersWrite == \A p \in Proc :
    /\ out[p] # "none" => pc[p] = "write"
    /\ out[p] = "dl"   => dl # None

DownloadsTakeTurns ==
    /\ \A p, q \in Proc : Downloading(p) /\ Downloading(q) => p = q
    /\ \A p \in Proc : Downloading(p) => ~Pending

DownloadsReady ==
    /\ \A p \in Proc : out[p] \in {"none", "dl"}
    /\ Pending /\ dl # None => Usable(dl)
    /\ \A p \in Proc :
          /\ Downloading(p)    => dl # None
          /\ pc[p] = "write" => out[p] = "dl" /\ dl.ver # 0
          /\ pc[p] = "chmod" => dl.whole
          /\ pc[p] = "mark"  => Usable(dl)

BinaryInv == Sound => DownloadsTakeTurns /\ DownloadsReady /\ Usable(bin)

Refetching(p) == pc[p] \in {"rulesWrite", "rulesStamp"}

RulesInv ==
    \/ "rules" \in spoilt
    \/ /\ \A p \in Proc : pc[p] = "rulesWrite" =>
             rulesDue /\ \A q \in Proc \ {p} : ~Refetching(q)
       /\ (\E p \in Proc : pc[p] = "rulesStamp") => rules = "whole"
       /\ RulesAreRefetched

\* The inductive invariant of the two.
IInv ==
    /\ TypeOK /\ WritersWrite
    /\ BinaryInv /\ RulesInv

\* manager.go:449, "a mark file indicating a self-update is pending", and
\* cmd/update.go:19, "Downloads the latest version of snirect from GitHub releases
\* and installs it": what is installed in the end is a whole binary.
InstalledIsWhole == (\A p \in Proc : out[p] = "none") => bin.whole
=============================================================================
