--------------------------- MODULE SelfUpdateProofs ---------------------------
(* The invariants of SelfUpdate, proved for every number of processes,       *)
(* releases and faults, and for every choice of commands; and that Fetch     *)
(* implements it and its requests release their connections.                 *)
EXTENDS Fetch, TLAPS

USE SelfUpdateAssumption DEF Version, Place, Commands, files, procVars, history, vars

\* No file is None.
LEMMA NoneIsNoFile == None \notin File
  BY DEF File

\* Every step keeps the types.
LEMMA TypeStep ==
    ASSUME TypeOK, WritersWrite, [Next]_vars
    PROVE  TypeOK'
<1>1. ASSUME NEW p \in Proc, NEW c \in Command[p], Start(p, c) PROVE TypeOK'
  BY <1>1 DEF TypeOK, File, Start, First, GoTo
<1>2. ASSUME NEW p \in Proc, Exit(p) PROVE TypeOK'
  BY <1>2 DEF TypeOK, File, Exit, GoTo
<1>3. ASSUME NEW p \in Proc, Crash(p) PROVE TypeOK'
  BY <1>3 DEF TypeOK, File, Crash, GoTo, Fault
<1>4. ASSUME NEW p \in Proc, HasPendingUpdate(p) PROVE TypeOK'
  BY <1>4 DEF TypeOK, File, HasPendingUpdate, GoTo
<1>5. ASSUME NEW p \in Proc, PerformFails(p) PROVE TypeOK'
  BY <1>5 DEF TypeOK, File, PerformFails, GoTo, Fault
<1>6. ASSUME NEW p \in Proc, Rename(p) PROVE TypeOK'
  BY <1>6 DEF TypeOK, File, Rename, GoTo
<1>7. ASSUME NEW p \in Proc, Unmark(p) PROVE TypeOK'
  <2>1. marked' \in BOOLEAN
    BY <1>7, Zenon DEF TypeOK, Unmark
  <2>2. faults' \in Nat
    BY <1>7 DEF TypeOK, Unmark, Fault
  <2> QED  BY <1>7, <2>1, <2>2 DEF TypeOK, Unmark, GoTo
<1>8. ASSUME NEW p \in Proc, Exec(p) PROVE TypeOK'
  BY <1>8 DEF TypeOK, File, Exec, GoTo, Runnable
<1>9. ASSUME NEW p \in Proc, WriteRules(p) PROVE TypeOK'
  <2>1. rules' \in {"whole", "partial"} /\ faults' \in Nat
    BY <1>9 DEF TypeOK, WriteRules, Fault
  <2>2. spoilt' \subseteq {"download", "chmod", "rules"}
    BY <1>9 DEF TypeOK, WriteRules
  <2>3. pc' \in [Proc -> Place]
    BY <1>9 DEF TypeOK, WriteRules, AfterRules, GoTo
  <2> QED  BY <1>9, <2>1, <2>2, <2>3 DEF TypeOK, WriteRules
<1>10. ASSUME NEW p \in Proc, StampRules(p) PROVE TypeOK'
  BY <1>10 DEF TypeOK, File, StampRules, AfterRules, GoTo
<1>11. ASSUME NEW p \in Proc, EndWrite(p) PROVE TypeOK'
  <2>1. \A f \in File : Written(p, f) \subseteq File
    BY DEF Written, File
  <2>2. dl' \in File \cup {None} /\ bin' \in File
    BY <1>11, <2>1 DEF TypeOK, WritersWrite, EndWrite
  <2>3. faults' \in Nat /\ pc' \in [Proc -> Place]
    BY <1>11 DEF TypeOK, EndWrite, Fault, GoOn, GoTo
  <2> QED  BY <1>11, <2>2, <2>3 DEF TypeOK, EndWrite
<1>12. ASSUME NEW p \in Proc, Chmod(p) PROVE TypeOK'
  BY <1>12 DEF TypeOK, File, Chmod, GoTo
<1>13. ASSUME NEW p \in Proc, ChmodFails(p) PROVE TypeOK'
  BY <1>13 DEF TypeOK, File, ChmodFails, GoTo, Fault, NoteSpoilt
<1>14. ASSUME NEW p \in Proc, MarkFails(p) PROVE TypeOK'
  <2>1. marked' \in BOOLEAN
    BY <1>14, Zenon DEF TypeOK, MarkFails
  <2> QED  BY <1>14, <2>1 DEF TypeOK, MarkFails, GoTo, Fault, GoOn
<1>15. ASSUME NEW p \in Proc, MarkForSelfUpdate(p) PROVE TypeOK'
  BY <1>15 DEF TypeOK, File, MarkForSelfUpdate, GoTo
<1>16. ASSUME NEW p \in Proc, StampUpdate(p) PROVE TypeOK'
  BY <1>16 DEF TypeOK, File, StampUpdate, GoTo
<1>17. ASSUME NEW p \in Proc, SkipRules(p) PROVE TypeOK'
  BY <1>17 DEF TypeOK, File, SkipRules, AfterRules, GoTo
<1>18. ASSUME NEW p \in Proc, FetchRules(p) \/ ResetRules(p) PROVE TypeOK'
  BY <1>18 DEF TypeOK, File, FetchRules, ResetRules, TruncateRules, GoTo,
               NoteSpoilt
<1>19. ASSUME NEW p \in Proc, NoUpdate(p) PROVE TypeOK'
  BY <1>19 DEF TypeOK, File, NoUpdate, UpdateCheckTimestamp, GoTo, GoOn
<1>20. ASSUME NEW p \in Proc, UpdateFound(p) PROVE TypeOK'
  BY <1>20 DEF TypeOK, File, UpdateFound, UpdateCheckTimestamp, GoTo
<1>21. ASSUME NEW p \in Proc, FetchFails(p) PROVE TypeOK'
  BY <1>21 DEF TypeOK, File, FetchFails, GoTo, GoOn
<1>22. ASSUME NEW p \in Proc, BeginWrite(p) PROVE TypeOK'
  BY <1>22 DEF TypeOK, File, BeginWrite, GoTo, Truncated, InUse, NoteSpoilt
<1>23. CASE Release
  BY <1>23 DEF TypeOK, File, Release
<1>24. CASE UpdateFallsDue
  BY <1>24 DEF TypeOK, File, UpdateFallsDue
<1>25. CASE RulesFallDue
  BY <1>25 DEF TypeOK, File, RulesFallDue
<1>26. CASE UNCHANGED vars
  BY <1>26 DEF TypeOK, File
<1>27. ASSUME NEW p \in Proc, ShouldCheckRules(p) PROVE TypeOK'
  BY <1>27 DEF TypeOK, File, ShouldCheckRules, GoTo
<1>28. ASSUME NEW p \in Proc, ShouldCheckUpdate(p) PROVE TypeOK'
  BY <1>28 DEF TypeOK, File, ShouldCheckUpdate, GoTo, GoOn
<1> QED  BY <1>1, <1>2, <1>3, <1>4, <1>5, <1>6, <1>7, <1>8, <1>9, <1>10, <1>11, <1>12, <1>13,
       <1>14, <1>15, <1>16, <1>17, <1>18, <1>19, <1>20, <1>21, <1>22, <1>23, <1>24, <1>25, <1>26,
       <1>27, <1>28
       DEF Next, Proceed, Refused, Answered

\* Every step keeps to it that only who is in WriteFile holds a file open.
LEMMA WritersStep ==
    ASSUME TypeOK, WritersWrite, [Next]_vars
    PROVE  WritersWrite'
<1>1. ASSUME NEW p \in Proc, NEW c \in Command[p], Start(p, c) PROVE WritersWrite'
  BY <1>1 DEF TypeOK, WritersWrite, Start, First, GoTo
<1>2. ASSUME NEW p \in Proc, Exit(p) PROVE WritersWrite'
  BY <1>2 DEF TypeOK, WritersWrite, Exit, GoTo
<1>3. ASSUME NEW p \in Proc, Crash(p) PROVE WritersWrite'
  BY <1>3 DEF TypeOK, WritersWrite, Crash, GoTo, Fault
<1>4. ASSUME NEW p \in Proc, HasPendingUpdate(p) PROVE WritersWrite'
  BY <1>4 DEF TypeOK, WritersWrite, HasPendingUpdate, GoTo
<1>5. ASSUME NEW p \in Proc, PerformFails(p) PROVE WritersWrite'
  BY <1>5 DEF TypeOK, WritersWrite, PerformFails, GoTo, Fault
<1>6. ASSUME NEW p \in Proc, Rename(p) PROVE WritersWrite'
  BY <1>6 DEF TypeOK, WritersWrite, Rename, GoTo
<1>7. ASSUME NEW p \in Proc, Unmark(p) PROVE WritersWrite'
  BY <1>7 DEF TypeOK, WritersWrite, Unmark, GoTo, Fault
<1>8. ASSUME NEW p \in Proc, Exec(p) PROVE WritersWrite'
  BY <1>8 DEF TypeOK, WritersWrite, Exec, GoTo, Runnable
<1>9. ASSUME NEW p \in Proc, WriteRules(p) PROVE WritersWrite'
  BY <1>9 DEF TypeOK, WritersWrite, WriteRules, AfterRules, GoTo, Fault
<1>10. ASSUME NEW p \in Proc, StampRules(p) PROVE WritersWrite'
  BY <1>10 DEF TypeOK, WritersWrite, StampRules, AfterRules, GoTo
<1>11. ASSUME NEW p \in Proc, EndWrite(p) PROVE WritersWrite'
  <2>1. ASSUME NEW q \in Proc, out'[q] = "dl" PROVE dl' # None
    <3>1. dl \in File
      BY <1>11, <2>1 DEF TypeOK, WritersWrite, EndWrite
    <3>2. dl' \in File
      BY <1>11, <3>1 DEF EndWrite, Written, File
    <3> QED  BY <3>2, NoneIsNoFile
  <2> QED  BY <1>11, <2>1 DEF TypeOK, WritersWrite, EndWrite, GoTo, GoOn
<1>12. ASSUME NEW p \in Proc, Chmod(p) PROVE WritersWrite'
  <2>1. dl' \in File
    BY <1>12 DEF TypeOK, Chmod, File
  <2> QED  BY <1>12, <2>1, NoneIsNoFile DEF TypeOK, WritersWrite, Chmod, GoTo
<1>13. ASSUME NEW p \in Proc, ChmodFails(p) PROVE WritersWrite'
  BY <1>13 DEF TypeOK, WritersWrite, ChmodFails, GoTo, Fault, NoteSpoilt
<1>14. ASSUME NEW p \in Proc, MarkFails(p) PROVE WritersWrite'
  BY <1>14 DEF TypeOK, WritersWrite, MarkFails, GoTo, Fault, GoOn
<1>15. ASSUME NEW p \in Proc, MarkForSelfUpdate(p) PROVE WritersWrite'
  BY <1>15 DEF TypeOK, WritersWrite, MarkForSelfUpdate, GoTo
<1>16. ASSUME NEW p \in Proc, StampUpdate(p) PROVE WritersWrite'
  BY <1>16 DEF TypeOK, WritersWrite, StampUpdate, GoTo
<1>17. ASSUME NEW p \in Proc, SkipRules(p) PROVE WritersWrite'
  BY <1>17 DEF TypeOK, WritersWrite, SkipRules, AfterRules, GoTo
<1>18. ASSUME NEW p \in Proc, FetchRules(p) \/ ResetRules(p) PROVE WritersWrite'
  BY <1>18 DEF TypeOK, WritersWrite, FetchRules, ResetRules, TruncateRules, GoTo,
               NoteSpoilt
<1>19. ASSUME NEW p \in Proc, NoUpdate(p) PROVE WritersWrite'
  BY <1>19 DEF TypeOK, WritersWrite, NoUpdate, GoTo, GoOn
<1>20. ASSUME NEW p \in Proc, UpdateFound(p) PROVE WritersWrite'
  BY <1>20 DEF TypeOK, WritersWrite, UpdateFound, GoTo
<1>21. ASSUME NEW p \in Proc, FetchFails(p) PROVE WritersWrite'
  BY <1>21 DEF TypeOK, WritersWrite, FetchFails, GoTo, GoOn
<1>22. ASSUME NEW p \in Proc, BeginWrite(p) PROVE WritersWrite'
  <2>1. dl' # None
    <3>1. dl' \in File
      BY <1>22 DEF BeginWrite, Truncated, File, TypeOK
    <3> QED  BY <3>1, NoneIsNoFile
  <2> QED  BY <1>22, <2>1 DEF TypeOK, WritersWrite, BeginWrite, GoTo
<1>23. CASE Release
  BY <1>23 DEF TypeOK, WritersWrite, Release
<1>24. CASE UpdateFallsDue
  BY <1>24 DEF TypeOK, WritersWrite, UpdateFallsDue
<1>25. CASE RulesFallDue
  BY <1>25 DEF TypeOK, WritersWrite, RulesFallDue
<1>26. CASE UNCHANGED vars
  BY <1>26 DEF TypeOK, WritersWrite
<1>27. ASSUME NEW p \in Proc, ShouldCheckRules(p) PROVE WritersWrite'
  BY <1>27 DEF TypeOK, WritersWrite, ShouldCheckRules, GoTo
<1>28. ASSUME NEW p \in Proc, ShouldCheckUpdate(p) PROVE WritersWrite'
  BY <1>28 DEF TypeOK, WritersWrite, ShouldCheckUpdate, GoTo, GoOn
<1> QED  BY <1>1, <1>2, <1>3, <1>4, <1>5, <1>6, <1>7, <1>8, <1>9, <1>10, <1>11, <1>12, <1>13,
       <1>14, <1>15, <1>16, <1>17, <1>18, <1>19, <1>20, <1>21, <1>22, <1>23, <1>24, <1>25, <1>26,
       <1>27, <1>28
       DEF Next, Proceed, Refused, Answered

\* While nothing is spoilt, every step keeps downloads taking turns, what is pending
\* usable, and the installed binary.
LEMMA BinaryStep ==
    ASSUME TypeOK, WritersWrite, BinaryInv, [Next]_vars
    PROVE  BinaryInv'
<1> DEFINE Quiet(p) ==
             (\E c \in Command[p] : Start(p, c)) \/ Exit(p) \/ PerformFails(p) \/
             Exec(p) \/ WriteRules(p) \/ StampRules(p) \/ StampUpdate(p) \/
             ShouldCheckRules(p) \/ ShouldCheckUpdate(p) \/ SkipRules(p) \/
             FetchRules(p) \/ ResetRules(p) \/ NoUpdate(p) \/ UpdateFound(p) \/ FetchFails(p)
<1>1. ASSUME (\E p \in Proc : Quiet(p)) \/ Release \/ UpdateFallsDue \/ RulesFallDue \/ UNCHANGED vars
      PROVE  BinaryInv'
  <2>1. UNCHANGED <<bin, dl, marked, out>> /\ (Sound' => Sound)
    BY <1>1 DEF Sound, Start, Exit, PerformFails, Exec, WriteRules, StampRules, StampUpdate,
    ShouldCheckRules, ShouldCheckUpdate, UpdateCheckTimestamp, SkipRules, FetchRules, ResetRules,
    TruncateRules, NoUpdate, UpdateFound, FetchFails, Release, UpdateFallsDue, RulesFallDue, NoteSpoilt
  <2>2. \A q \in Proc : pc'[q] \in {"perform", "write", "chmod", "mark"} => pc'[q] = pc[q]
    <3>1. ASSUME NEW p \in Proc, Quiet(p)
          PROVE  \E l \in Place \ {"perform", "write", "chmod", "mark"} : pc' = [pc EXCEPT ![p] = l]
      BY <3>1 DEF GoTo, GoOn, AfterRules, Start, First, Exit, PerformFails, Exec, WriteRules, StampRules,
        StampUpdate, ShouldCheckRules, ShouldCheckUpdate, UpdateCheckTimestamp, SkipRules, FetchRules,
        ResetRules, TruncateRules, NoUpdate, UpdateFound, FetchFails
    <3>2. CASE Release \/ UpdateFallsDue \/ RulesFallDue \/ UNCHANGED vars
      BY <3>2 DEF Release, UpdateFallsDue, RulesFallDue
    <3> QED  BY <1>1, <3>1, <3>2 DEF TypeOK
  <2> QED  BY <2>1, <2>2 DEF BinaryInv, DownloadsTakeTurns, DownloadsReady, Downloading,
                              Pending, Usable
<1>2. ASSUME NEW p \in Proc, Crash(p) PROVE BinaryInv'
  BY <1>2 DEF BinaryInv, TypeOK, File, Downloading, Pending, Sound, WritersWrite,
         DownloadsTakeTurns, DownloadsReady, Usable, Crash, GoTo, Fault
<1>3. ASSUME NEW p \in Proc, HasPendingUpdate(p) PROVE BinaryInv'
  BY <1>3 DEF BinaryInv, TypeOK, File, Downloading, Pending, Sound, WritersWrite,
         DownloadsTakeTurns, DownloadsReady, Usable, HasPendingUpdate, GoTo
<1>4. ASSUME NEW p \in Proc, Rename(p) PROVE BinaryInv'
  BY <1>4 DEF BinaryInv, TypeOK, File, Downloading, Pending, Sound, WritersWrite,
         DownloadsTakeTurns, DownloadsReady, Usable, Rename, GoTo
<1>5. ASSUME NEW p \in Proc, Unmark(p) PROVE BinaryInv'
  BY <1>5 DEF BinaryInv, TypeOK, File, Downloading, Pending, Sound, WritersWrite,
         DownloadsTakeTurns, DownloadsReady, Usable, Unmark, GoTo, Fault
<1>6. ASSUME NEW p \in Proc, EndWrite(p) PROVE BinaryInv'
  <2> SUFFICES ASSUME Sound PROVE DownloadsTakeTurns' /\ DownloadsReady' /\ Usable(bin')
    BY <1>6 DEF BinaryInv, EndWrite, Sound
  <2>1. out[p] = "dl" /\ bin' = bin /\ dl \in File /\ dl.ver # 0
    BY <1>6 DEF BinaryInv, DownloadsReady, Downloading, EndWrite, TypeOK
  <2>2. ~Shared(p)
    BY <1>6 DEF BinaryInv, DownloadsReady, DownloadsTakeTurns, Downloading, EndWrite,
           Shared, WritersWrite
  <2>3. DownloadsTakeTurns'
    BY <1>6 DEF BinaryInv, TypeOK, DownloadsTakeTurns, Downloading, Pending, EndWrite, GoTo, GoOn
  <2>4. pc'[p] = "chmod" => dl'.whole
    <3>1. dl' \in Written(p, dl) \/ pc'[p] # "chmod"
      BY <1>6, <2>1 DEF EndWrite, GoTo, GoOn, TypeOK
    <3>2. Written(p, dl) = {[dl EXCEPT !.whole = TRUE]}
      BY <2>1, <2>2 DEF Written, File
    <3> QED  BY <2>1, <3>1, <3>2 DEF File
  <2>5. ~Pending'
    BY <1>6 DEF BinaryInv, DownloadsTakeTurns, Downloading, Pending, EndWrite, TypeOK, GoTo, GoOn
  <2>6. dl' # None /\ \A q \in Proc \ {p} : pc'[q] = pc[q] /\ ~Downloading(q)
    <3>1. dl' \in File
      BY <1>6, <2>1 DEF EndWrite, Written, File
    <3>2. \A q \in Proc \ {p} : pc'[q] = pc[q] /\ ~Downloading(q)
      BY <1>6 DEF BinaryInv, DownloadsTakeTurns, Downloading, EndWrite, GoTo, GoOn, TypeOK
    <3> QED  BY <3>1, <3>2, NoneIsNoFile
  <2>7. pc'[p] \in {"chmod", "serve", "off"} /\ \A q \in Proc : out'[q] \in {"none", "dl"}
    BY <1>6 DEF EndWrite, GoTo, GoOn, TypeOK, BinaryInv, DownloadsReady
  <2>8. DownloadsReady'
    BY <2>4, <2>5, <2>6, <2>7 DEF DownloadsReady, Downloading
  <2> QED  BY <1>6, <2>1, <2>3, <2>8 DEF BinaryInv, Usable
<1>7. ASSUME NEW p \in Proc, Chmod(p) PROVE BinaryInv'
  <2> SUFFICES ASSUME Sound PROVE DownloadsTakeTurns' /\ DownloadsReady' /\ Usable(bin')
    BY <1>7 DEF BinaryInv, Chmod, Sound
  <2>1. dl \in File /\ dl' \in File /\ dl'.ver = dl.ver /\ dl'.whole = dl.whole /\ dl'.exec
    BY <1>7 DEF TypeOK, Chmod, File
  <2>2. DownloadsTakeTurns' /\ ~Pending' /\ Usable(bin')
    BY <1>7 DEF BinaryInv, TypeOK, DownloadsTakeTurns, Downloading, Pending, Chmod, GoTo
  <2>3. DownloadsReady'
    BY <1>7, <2>1, <2>2, NoneIsNoFile DEF BinaryInv, TypeOK, DownloadsTakeTurns,
           DownloadsReady, Downloading, Usable, Chmod, GoTo
  <2> QED  BY <2>2, <2>3
<1>8. ASSUME NEW p \in Proc, ChmodFails(p) PROVE BinaryInv'
  BY <1>8 DEF BinaryInv, TypeOK, File, Downloading, Pending, Sound, WritersWrite,
         DownloadsTakeTurns, DownloadsReady, Usable, ChmodFails, GoTo, Fault, NoteSpoilt
<1>9. ASSUME NEW p \in Proc, MarkFails(p) PROVE BinaryInv'
  BY <1>9 DEF BinaryInv, TypeOK, File, Downloading, Pending, Sound, WritersWrite,
         DownloadsTakeTurns, DownloadsReady, Usable, MarkFails, GoTo, Fault, GoOn
<1>10. ASSUME NEW p \in Proc, MarkForSelfUpdate(p) PROVE BinaryInv'
  BY <1>10 DEF BinaryInv, TypeOK, File, Downloading, Pending, Sound, WritersWrite,
         DownloadsTakeTurns, DownloadsReady, Usable, MarkForSelfUpdate, GoTo
<1>11. ASSUME NEW p \in Proc, BeginWrite(p) PROVE BinaryInv'
  <2> SUFFICES ASSUME Sound, ~InUse(p) PROVE DownloadsTakeTurns' /\ DownloadsReady' /\ Usable(bin')
    BY <1>11 DEF BinaryInv, BeginWrite, NoteSpoilt, Sound
  <2>1. \A q \in Proc : ~Downloading(q)
    BY <1>11 DEF BeginWrite, InUse, Downloading
  <2>2. dl' # None /\ dl'.ver # 0
    <3>1. \A q \in Proc : out[q] # "dl"
      BY <2>1 DEF WritersWrite, Downloading
    <3>2. dl' \in [ver : {want[p]}, whole : {FALSE}, exec : BOOLEAN]
      BY <1>11, <3>1 DEF BeginWrite, Truncated, TypeOK, File
    <3>3. dl' \in File /\ dl'.ver = want[p] /\ want[p] \in Version
      BY <1>11, <3>2 DEF TypeOK, File, BeginWrite
    <3> QED  BY <3>3, NoneIsNoFile
  <2>3. ~Pending'
    BY <1>11 DEF BeginWrite, InUse, Pending, GoTo, TypeOK
  <2>4. DownloadsTakeTurns' /\ Usable(bin')
    BY <1>11, <2>1, <2>3 DEF BinaryInv, DownloadsTakeTurns, Downloading, BeginWrite, GoTo, TypeOK
  <2>5. DownloadsReady'
    BY <1>11, <2>1, <2>2, <2>3 DEF BinaryInv, DownloadsReady, Downloading, BeginWrite, GoTo, TypeOK
  <2> QED  BY <2>4, <2>5
<1> QED
  BY <1>1, <1>2, <1>3, <1>4, <1>5, <1>6, <1>7, <1>8, <1>9, <1>10, <1>11 DEF Next, Proceed, Refused, Answered

\* Every step keeps what RulesAreRefetched rests on.
LEMMA RulesStep ==
    ASSUME TypeOK, RulesInv, [Next]_vars
    PROVE  RulesInv'
<1> DEFINE Quiet(p) ==
             (\E c \in Command[p] : Start(p, c)) \/ Exit(p) \/ HasPendingUpdate(p) \/
             PerformFails(p) \/ Rename(p) \/ Unmark(p) \/ Exec(p) \/ EndWrite(p) \/
             Chmod(p) \/ ChmodFails(p) \/ MarkFails(p) \/ MarkForSelfUpdate(p) \/
             StampUpdate(p) \/ ShouldCheckRules(p) \/ ShouldCheckUpdate(p) \/ SkipRules(p) \/ NoUpdate(p) \/ UpdateFound(p) \/
             FetchFails(p) \/ BeginWrite(p)
<1>1. ASSUME (\E p \in Proc : Quiet(p)) \/ Release \/ UpdateFallsDue \/ UNCHANGED vars
      PROVE  RulesInv'
  <2>1. UNCHANGED <<rules, rulesDue>> /\ ("rules" \in spoilt => "rules" \in spoilt')
    BY <1>1 DEF Start, Exit, HasPendingUpdate, PerformFails, Rename, Unmark, Exec, EndWrite,
    Chmod, ChmodFails, MarkFails, MarkForSelfUpdate, StampUpdate, ShouldCheckRules, ShouldCheckUpdate, UpdateCheckTimestamp, SkipRules, NoUpdate,
    UpdateFound, FetchFails, BeginWrite, Release, UpdateFallsDue, NoteSpoilt
  <2>2. \A q \in Proc : pc[q] = pc'[q] \/ ~(Refetching(q) \/ Refetching(q)')
    <3>1. ASSUME NEW p \in Proc, Quiet(p)
          PROVE  /\ ~Refetching(p)
                 /\ \E l \in Place \ {"rulesWrite", "rulesStamp"} : pc' = [pc EXCEPT ![p] = l]
      BY <3>1 DEF Refetching, GoTo, GoOn, AfterRules, Start, First, Exit, HasPendingUpdate, PerformFails, Rename,
        Unmark, Exec, EndWrite, Chmod, ChmodFails, MarkFails, MarkForSelfUpdate, StampUpdate,
        ShouldCheckRules, ShouldCheckUpdate, UpdateCheckTimestamp, SkipRules, NoUpdate, UpdateFound, FetchFails, BeginWrite
    <3>2. CASE Release \/ UpdateFallsDue \/ UNCHANGED vars
      BY <3>2 DEF Release, UpdateFallsDue
    <3> QED  BY <1>1, <3>1, <3>2 DEF TypeOK, Refetching
  <2> QED  BY <2>1, <2>2 DEF RulesInv, Refetching, RulesAreRefetched
<1>2. ASSUME NEW p \in Proc, Crash(p) PROVE RulesInv'
  <2>1. \A q \in Proc : pc'[q] = IF q = p THEN "off" ELSE pc[q]
    BY <1>2 DEF Crash, GoTo, TypeOK
  <2>2. UNCHANGED <<rules, rulesDue, spoilt>>
    BY <1>2 DEF Crash
  <2> SUFFICES ASSUME "rules" \notin spoilt PROVE RulesInv'
    BY <2>2 DEF RulesInv
  <2>3. \A q \in Proc : /\ Refetching(q)' => Refetching(q)
                        /\ pc'[q] = "rulesWrite" => pc[q] = "rulesWrite"
                        /\ pc'[q] = "rulesStamp" => pc[q] = "rulesStamp"
    BY <2>1 DEF Refetching
  <2>4. rules = "partial" => rulesDue
    <3>1. \A q \in Proc : pc[q] = "rulesWrite" => rulesDue
      BY Zenon DEF RulesInv
    <3>2. rules = "partial" /\ (\A q \in Proc : pc[q] # "rulesWrite") => rulesDue
      BY Zenon DEF RulesInv, RulesAreRefetched
    <3> QED  BY <3>1, <3>2
  <2> QED  BY <2>2, <2>3, <2>4 DEF RulesInv, RulesAreRefetched
<1>3. ASSUME NEW p \in Proc, WriteRules(p) PROVE RulesInv'
  <2>1. \A q \in Proc : q # p => pc'[q] = pc[q]
    BY <1>3 DEF WriteRules, AfterRules, GoTo, TypeOK
  <2>2. UNCHANGED rulesDue /\ pc[p] = "rulesWrite"
    BY <1>3 DEF WriteRules
  <2>3. pc'[p] # "rulesWrite"
    BY <1>3 DEF WriteRules, AfterRules, GoTo, TypeOK
  <2> DEFINE alone == \A q \in Proc \ {p} : pc[q] # "rulesWrite"
  <2>4. CASE "rules" \notin spoilt
    <3>1. rulesDue /\ \A q \in Proc \ {p} : ~Refetching(q)
      BY <2>2, <2>4, Zenon DEF RulesInv
    <3>2. pc'[p] = "rulesStamp" => rules' = "whole"
      BY <1>3, <3>1 DEF WriteRules, AfterRules, GoTo, TypeOK, Refetching
    <3> QED  BY <2>1, <2>2, <2>3, <3>1, <3>2 DEF RulesInv, Refetching, RulesAreRefetched
  <2>5. CASE "rules" \in spoilt /\ "rules" \notin spoilt'
    <3>1. rules' = "whole" /\ alone
      BY <1>3, <2>5 DEF WriteRules
    <3>2. \A q \in Proc : pc'[q] # "rulesWrite"
      BY <2>1, <2>3, <3>1
    <3> QED  BY <3>1, <3>2 DEF RulesInv, RulesAreRefetched
  <2> QED  BY <2>4, <2>5 DEF RulesInv
<1>4. ASSUME NEW p \in Proc, StampRules(p) PROVE RulesInv'
  BY <1>4 DEF RulesInv, TypeOK, Refetching, RulesAreRefetched, StampRules, AfterRules, GoTo
<1>5. ASSUME NEW p \in Proc, FetchRules(p) \/ ResetRules(p) PROVE RulesInv'
  <2>1. /\ UNCHANGED rulesDue /\ rules' = "partial"
        /\ NoteSpoilt("rules", RulesTaken(p))
        /\ \A q \in Proc : pc'[q] = IF q = p THEN "rulesWrite" ELSE pc[q]
    BY <1>5 DEF FetchRules, ResetRules, TruncateRules, GoTo, TypeOK
  <2> SUFFICES ASSUME "rules" \notin spoilt' PROVE RulesInv'
    BY DEF RulesInv
  <2>2. rulesDue /\ \A q \in Proc \ {p} : ~Refetching(q)
    BY <2>1 DEF NoteSpoilt, RulesTaken, Refetching
  <2> QED  BY <2>1, <2>2 DEF RulesInv, Refetching, RulesAreRefetched
<1>6. CASE RulesFallDue
  BY <1>6 DEF RulesInv, TypeOK, Refetching, RulesAreRefetched, RulesFallDue
<1> QED
  BY <1>1, <1>2, <1>3, <1>4, <1>5, <1>6 DEF Next, Proceed, Refused, Answered

-----------------------------------------------------------------------------
\* The inductive invariant holds in every state.
THEOREM UpdateInvariant == Spec => []IInv
<1>1. Init => IInv
  <2> SUFFICES ASSUME Init PROVE IInv
    OBVIOUS
  <2>1. TypeOK /\ WritersWrite
    <3>1. marked \in BOOLEAN /\ due \in BOOLEAN /\ rulesDue \in BOOLEAN
      BY Zenon DEF Init
    <3>2. bin \in File /\ latest \in Version
      BY DEF Init, File
    <3> QED  BY <3>1, <3>2 DEF Init, TypeOK, WritersWrite
  <2>2. BinaryInv
    BY DEF Init, BinaryInv, Sound, DownloadsTakeTurns, DownloadsReady, Downloading, Pending, Usable
  <2>3. RulesInv
    BY DEF Init, RulesInv, Refetching, RulesAreRefetched
  <2> QED  BY <2>1, <2>2, <2>3 DEF IInv
<1>2. IInv /\ [Next]_vars => IInv'
  BY TypeStep, WritersStep, BinaryStep, RulesStep DEF IInv
<1> QED  BY <1>1, <1>2, PTL DEF Spec

\* As long as no download was begun over one that is marked or in use, and no
\* failed chmod was ignored, the installed binary can be run.
THEOREM BinarySafe == Spec => []UsableUnlessSpoilt
<1>1. IInv => UsableUnlessSpoilt
  BY DEF IInv, BinaryInv, Sound, UsableUnlessSpoilt
<1> QED  BY <1>1, UpdateInvariant, PTL

\* A rules.toml that is cut short is going to be fetched again, unless the write
\* that left it so was begun although the rules were not due, or beside another.
THEOREM RulesSafe == Spec => []RulesAreRefetched
<1>1. IInv => RulesAreRefetched
  BY DEF IInv, RulesInv, RulesAreRefetched
<1> QED  BY <1>1, UpdateInvariant, PTL

-----------------------------------------------------------------------------
(* Fetch *)

USE FetchAssumption

\* Every step of Fetch is one of SelfUpdate, or invisible there.
LEMMA FetchStep == [FetchNext]_fetchVars => [Next]_vars
<1> SUFFICES ASSUME FetchNext PROVE [Next]_vars
  BY DEF fetchVars
<1>1. CASE \E p \in Proc : Getting(p)
  BY <1>1 DEF Getting
<1>2. CASE \E p \in Proc : FetchRefused(p) \/ FetchAnswered(p)
  BY <1>2, Zenon DEF Next, FetchRefused, FetchAnswered
<1>3. CASE \E p \in Proc : (\E c \in Command[p] : Start(p, c)) /\ UNCHANGED get
  BY <1>3, Zenon DEF Next
<1>4. CASE \E p \in Proc : (Exit(p) \/ Crash(p) \/ Proceed(p)) /\ Bodies(p)
  BY <1>4, Zenon DEF Next
<1>5. CASE (Release \/ UpdateFallsDue \/ RulesFallDue) /\ UNCHANGED get
  BY <1>5, Zenon DEF Next
<1> QED  BY <1>1, <1>2, <1>3, <1>4, <1>5, Zenon DEF FetchNext

\* Following the downloads request by request changes nothing for the rest: what
\* is proved of SelfUpdate holds of Fetch.
THEOREM FetchImplementsSelfUpdate == FetchSpec => Spec
<1>1. FetchInit => Init
  BY DEF FetchInit
<1> QED  BY <1>1, FetchStep, PTL DEF FetchSpec, Spec

-----------------------------------------------------------------------------
\* A step of p leaves the other processes where they are.
LEMMA OthersStay ==
    ASSUME TypeOK, NEW p \in Proc, NEW q \in Proc, p # q,
           (\E c \in Command[p] : Start(p, c)) \/ Exit(p) \/ Crash(p) \/ Proceed(p)
           \/ Refused(p) \/ Answered(p)
    PROVE  pc'[q] = pc[q]
<1> USE DEF TypeOK, GoTo, GoOn
<1>1. CASE (\E c \in Command[p] : Start(p, c)) \/ Exit(p) \/ Crash(p)
  BY <1>1 DEF Start, Exit, Crash
<1>2. CASE HasPendingUpdate(p) \/ PerformFails(p) \/ Rename(p) \/ Unmark(p) \/ Exec(p)
  BY <1>2 DEF HasPendingUpdate, PerformFails, Rename, Unmark, Exec
<1>3. CASE ShouldCheckRules(p) \/ ResetRules(p) \/ WriteRules(p) \/ StampRules(p)
           \/ ShouldCheckUpdate(p)
  BY <1>3 DEF ShouldCheckRules, ResetRules, TruncateRules, WriteRules, StampRules,
              AfterRules, ShouldCheckUpdate
<1>4. CASE EndWrite(p) \/ Chmod(p) \/ ChmodFails(p)
  BY <1>4 DEF EndWrite, Chmod, ChmodFails
<1>5. CASE MarkForSelfUpdate(p) \/ MarkFails(p) \/ StampUpdate(p)
  BY <1>5 DEF MarkForSelfUpdate, MarkFails, StampUpdate
<1>6. CASE Refused(p)
  BY <1>6 DEF Refused, SkipRules, AfterRules, NoUpdate, FetchFails
<1>7. CASE Answered(p)
  BY <1>7 DEF Answered, FetchRules, TruncateRules, UpdateFound, BeginWrite
<1> QED  BY <1>1, <1>2, <1>3, <1>4, <1>5, <1>6, <1>7 DEF Proceed

\* When the calls return, the deferred Close calls leave nothing open but what
\* was forgotten.
LEMMA BodiesClosed ==
    ASSUME FetchIInv, NEW p \in Proc, Bodies(p), ~Connected(p) \/ pc'[p] = "off",
           \A q \in Proc \ {p} : pc'[q] = pc[q]
    PROVE  FetchIInv'
<1>1. get' = [get EXCEPT ![p] = IF pc'[p] = "off" THEN Idle ELSE CloseBodies(get[p])]
  BY DEF Bodies
<1>2. \/ get'[p] = Idle
      \/ get'[p] = [step |-> "none", hops |-> 0, answers |-> 0,
                    sockets |-> get[p].dropped, dropped |-> get[p].dropped]
  <2>1. ~Connected(p) => get[p].sockets - get[p].answers = get[p].dropped
    BY DEF FetchIInv, FetchTypeOK, SocketsCounted
  <2> QED  BY <1>1, <2>1 DEF FetchIInv, FetchTypeOK, CloseBodies, Idle
<1>3. \A q \in Proc \ {p} : get'[q] = get[q]
  BY <1>1 DEF FetchIInv, FetchTypeOK
<1>4. FetchTypeOK'
  <2>1. get'[p] \in [step : Step, hops : Nat, answers : Nat, sockets : Int, dropped : Nat]
    BY <1>2 DEF Idle, Step, FetchIInv, FetchTypeOK
  <2> QED  BY <1>1, <2>1 DEF FetchIInv, FetchTypeOK
<1>5. SocketsCounted'
  <2> SUFFICES ASSUME NEW q \in Proc
               PROVE  /\ get'[q].step # "none" => Gets(q)'
                      /\ get'[q].step = "none" => get'[q].answers = 0
                      /\ get'[q].sockets = get'[q].answers + get'[q].dropped
                                           + (IF Connected(q)' THEN 1 ELSE 0)
    BY DEF SocketsCounted
  <2>1. CASE q = p
    <3>1. get[p].dropped \in Nat
      BY DEF FetchIInv, FetchTypeOK
    <3> QED  BY <1>2, <2>1, <3>1 DEF Idle, Connected
  <2>2. CASE q # p
    <3>1. get'[q] = get[q] /\ pc'[q] = pc[q]
      BY <1>3, <2>2
    <3> QED  BY <3>1 DEF FetchIInv, SocketsCounted, Connected, Gets
  <2> QED  BY <2>1, <2>2
<1> QED  BY <1>4, <1>5 DEF FetchIInv

\* A step of a request keeps the count.
LEMMA GettingCounts ==
    ASSUME FetchIInv, NEW p \in Proc, Getting(p)
    PROVE  FetchIInv'
<1> DEFINE R == [step : Step, hops : Nat, answers : Nat, sockets : Int, dropped : Nat]
           Good(h) == /\ h.step # "none"
                      /\ h.sockets = h.answers + h.dropped
                           + (IF h.step \in {"handshake", "verify", "send"} THEN 1 ELSE 0)
<1>0. UNCHANGED pc /\ Gets(p)
  BY DEF Getting, vars, procVars
<1>1. /\ get \in [Proc -> R] /\ get[p] \in R
      /\ get[p].step = "none" => get[p].answers = 0
      /\ get[p].sockets = get[p].answers + get[p].dropped + (IF Connected(p) THEN 1 ELSE 0)
  BY DEF FetchIInv, FetchTypeOK, SocketsCounted
<1>2. /\ get' = [get EXCEPT ![p] = get'[p]]
      /\ get'[p] \in R
      /\ Good(get'[p])
  <2> USE DEF Connected, Step
  <2>1. CASE Dial(p)
    BY <1>1, <2>1 DEF Dial
  <2>2. CASE Handshake(p)
    BY <1>1, <2>2 DEF Handshake
  <2>3. CASE VerifyCert(p)
    BY <1>1, <2>3 DEF VerifyCert
  <2>4. CASE Send(p)
    BY <1>1, <2>4 DEF Send
  <2>5. CASE Redirect(p)
    BY <1>1, <2>5 DEF Redirect
  <2>6. CASE ReadAll(p)
    BY <1>1, <2>6 DEF ReadAll
  <2> QED  BY <2>1, <2>2, <2>3, <2>4, <2>5, <2>6 DEF Getting
<1> QED
  BY <1>0, <1>2 DEF FetchIInv, FetchTypeOK, SocketsCounted, Connected, Gets

\* Every step keeps the count.
LEMMA FetchInvStep ==
    ASSUME TypeOK, FetchIInv, [FetchNext]_fetchVars
    PROVE  FetchIInv'
<1>1. CASE UNCHANGED fetchVars
  BY <1>1 DEF fetchVars, vars, procVars, FetchIInv, FetchTypeOK, SocketsCounted, Connected, Gets
<1>2. ASSUME NEW p \in Proc, Getting(p) PROVE FetchIInv'
  BY <1>2, GettingCounts
<1>3. ASSUME NEW p \in Proc, FetchRefused(p) \/ FetchAnswered(p) PROVE FetchIInv'
  <2>1. Bodies(p) /\ (Refused(p) \/ Answered(p))
    BY <1>3, Zenon DEF FetchRefused, FetchAnswered
  <2>2. ~Connected(p)
    <3>1. Gets(p) => get[p].step \in {"ok", "error"}
      BY <1>3 DEF FetchRefused, FetchAnswered
    <3> QED  BY <3>1 DEF Connected, FetchIInv, SocketsCounted
  <2>3. \A q \in Proc \ {p} : pc'[q] = pc[q]
    BY <2>1, OthersStay, Zenon
  <2> QED  BY <2>1, <2>2, <2>3, BodiesClosed
<1>4. ASSUME NEW p \in Proc, (\E c \in Command[p] : Start(p, c)) /\ UNCHANGED get
      PROVE  FetchIInv'
  <2>1. pc[p] = "off"
    BY <1>4 DEF Start
  <2>2. \A q \in Proc \ {p} : pc'[q] = pc[q]
    BY <1>4, OthersStay, Zenon
  <2>3. get[p].step = "none"
    BY <2>1 DEF FetchIInv, SocketsCounted, Gets
  <2> QED  BY <1>4, <2>2, <2>3 DEF FetchIInv, FetchTypeOK, SocketsCounted, Connected, Gets
<1>5. ASSUME NEW p \in Proc, (Exit(p) \/ Crash(p) \/ Proceed(p)) /\ Bodies(p)
      PROVE  FetchIInv'
  <2>1. \A q \in Proc \ {p} : pc'[q] = pc[q]
    BY <1>5, OthersStay, Zenon
  <2>2. CASE pc'[p] = "off"
    BY <1>5, <2>1, <2>2, BodiesClosed
  <2>3. CASE pc'[p] # "off"
    <3>1. Exit(p) \/ Proceed(p)
      BY <1>5, <2>3 DEF Crash, GoTo, TypeOK
    <3>2. ~Gets(p)
      BY <3>1 DEF Gets, Exit, Proceed, HasPendingUpdate, PerformFails, Rename, Unmark, Exec,
         ShouldCheckRules, ResetRules, WriteRules, StampRules, ShouldCheckUpdate, EndWrite, Chmod,
         ChmodFails, MarkForSelfUpdate, MarkFails, StampUpdate
    <3> QED  BY <1>5, <2>1, <3>2, BodiesClosed DEF Connected, FetchIInv, SocketsCounted
  <2> QED  BY <2>2, <2>3
<1>6. CASE (Release \/ UpdateFallsDue \/ RulesFallDue) /\ UNCHANGED get
  <2>1. UNCHANGED pc
    BY <1>6 DEF Release, UpdateFallsDue, RulesFallDue, procVars
  <2> QED  BY <1>6, <2>1 DEF FetchIInv, FetchTypeOK, SocketsCounted, Connected, Gets
<1> QED  BY <1>1, <1>2, <1>3, <1>4, <1>5, <1>6, Zenon DEF FetchNext

\* Whichever step of a request fails, and however many redirects it followed, a
\* download that returns leaves no connection open but those whose handshake
\* failed, for every number of processes and redirects.
THEOREM FetchReleasesConnections == FetchSpec => []ConnsReleased
<1>1. FetchInit => FetchIInv
  BY DEF FetchInit, FetchIInv, FetchTypeOK, SocketsCounted, Idle, Step, Connected
<1>2. IInv => TypeOK
  BY DEF IInv
<1>3. FetchIInv => ConnsReleased
  BY DEF FetchIInv, FetchTypeOK, SocketsCounted, ConnsReleased, Connected
<1> QED
  BY <1>1, <1>2, <1>3, FetchInvStep, FetchImplementsSelfUpdate, UpdateInvariant, PTL
     DEF FetchSpec
=============================================================================
