------------------------------- MODULE Fetch -------------------------------
(***************************************************************************)
(* SelfUpdate with its downloads followed request by request: Client.Get   *)
(* of internal/upstream/client.go, and CheckForUpdate and downloadToMemory *)
(* of internal/update/manager.go, which call it.                           *)
(*                                                                         *)
(* A download goes through                                                 *)
(*   "none"      not begun                                                 *)
(*   "handshake" dialled                 "answer"   a response is there    *)
(*   "verify"    TLS is there            "redirect" it leads elsewhere     *)
(*   "send"      verified                "ok", "error"  about to return    *)
(* Its steps come between those of the other process, the clock and        *)
(* crashes.  The rate limiter only waits and is left out.                  *)
(***************************************************************************)
EXTENDS SelfUpdate, Integers

CONSTANTS
    Detailed,     \* bound: processes whose downloads are followed
    MaxRedirects, \* maxRedirects (10 in the code)
    MaxDropped    \* bound: failed handshakes of a process

ASSUME FetchAssumption ==
    Detailed \subseteq Proc /\ MaxRedirects \in Nat /\ MaxDropped \in Nat

VARIABLE
    get \* process -> its download: the step, redirects followed, responses that a
        \* deferred Close waits for, open connections, and connections that nobody
        \* is going to close

fetchVars == <<vars, get>>

Idle == [step |-> "none", hops |-> 0, answers |-> 0, sockets |-> 0, dropped |-> 0]

FetchInit == Init /\ get = [p \in Proc |-> Idle]

Gets(p) == p \in Detailed /\ pc[p] \in {"rulesGet", "ask", "fetch"}

-----------------------------------------------------------------------------
(* Client.Get *)

\* A wrong URL, no address, or no connection: the error comes before there is a
\* connection.  (Invalidate is in module DnsCache.)
Dial(p) ==
    /\ get[p].step \in {"none", "redirect"}
    /\ \/ get' = [get EXCEPT ![p].step = "handshake", ![p].sockets = @ + 1]
       \/ get' = [get EXCEPT ![p].step = "error"]

\* When it fails nobody closes the connection.
Handshake(p) ==
    /\ get[p].step = "handshake"
    /\ \/ get' = [get EXCEPT ![p].step = "verify"]
       \/ /\ get[p].dropped < MaxDropped
          /\ get' = [get EXCEPT ![p].step = "error", ![p].dropped = @ + 1]

\* Mutation of VerifyCert: a refused connection is not closed.
VerifyCertLeaks(p) ==
    /\ get[p].step = "verify"
    /\ \/ get' = [get EXCEPT ![p].step = "send"]
       \/ get' = [get EXCEPT ![p].step = "error"]

VerifyCert(p) ==
    /\ get[p].step = "verify"
    /\ \/ get' = [get EXCEPT ![p].step = "send"]
       \/ get' = [get EXCEPT ![p].step = "error", ![p].sockets = @ - 1]

Send(p) ==
    /\ get[p].step = "send"
    /\ \/ get' = [get EXCEPT ![p].step = "answer", ![p].answers = @ + 1]
       \/ get' = [get EXCEPT ![p].step = "error", ![p].sockets = @ - 1]

-----------------------------------------------------------------------------
(* The callers *)

\* Mutation of Redirect: the response is closed at once, the redirect not counted.
RedirectUncounted(p) ==
    /\ get[p].step = "answer" /\ pc[p] # "ask"
    /\ get' = [get EXCEPT ![p].step = "redirect",
                          ![p].answers = @ - 1, ![p].sockets = @ - 1]

\* downloadToMemory follows it; CheckForUpdate does not.
Redirect(p) ==
    /\ get[p].step = "answer" /\ pc[p] # "ask"
    /\ get' = [get EXCEPT ![p].step = IF get[p].hops < MaxRedirects THEN "redirect"
                                                                   ELSE "error",
                          ![p].hops = @ + 1]

\* The whole body came, or the status or the body was wrong.
ReadAll(p) ==
    /\ get[p].step = "answer"
    /\ \E s \in {"ok", "error"} : get' = [get EXCEPT ![p].step = s]

Getting(p) ==
    /\ Gets(p)
    /\ Dial(p) \/ Handshake(p) \/ VerifyCert(p) \/ Send(p) \/ Redirect(p) \/ ReadAll(p)
    /\ UNCHANGED vars

\* The deferred calls run: they close the responses, which close their connections.
CloseBodies(g) ==
    [Idle EXCEPT !.sockets = g.sockets - g.answers, !.dropped = g.dropped]

\* A process that ends takes its connections with it.
Bodies(p) ==
    get' = [get EXCEPT ![p] = IF pc'[p] = "off" THEN Idle ELSE CloseBodies(@)]

\* What came may still be of no use.
FetchRefused(p) ==
    /\ Gets(p) => get[p].step \in {"ok", "error"}
    /\ Refused(p)
    /\ Bodies(p)

FetchAnswered(p) ==
    /\ Gets(p) => get[p].step = "ok"
    /\ Answered(p)
    /\ Bodies(p)

-----------------------------------------------------------------------------
FetchNext ==
    \/ \E p \in Proc :
          \/ Getting(p)
          \/ FetchRefused(p) \/ FetchAnswered(p)
          \/ (\E c \in Command[p] : Start(p, c)) /\ UNCHANGED get
          \/ (Exit(p) \/ Crash(p) \/ Proceed(p)) /\ Bodies(p)
    \/ (Release \/ UpdateFallsDue \/ RulesFallDue) /\ UNCHANGED get

\* The step of a download fails, or servers redirect it too often.
Fails(p) == Getting(p) /\ get'[p].step = "error"

(***************************************************************************)
(* Fairness.  Processes run; the operator starts `snirect run` again and   *)
(* again ("Restart to apply"); the interval runs out; every call to the    *)
(* network returns (there is a deadline for Dial only); the network does   *)
(* not fail for ever, and a server that answers again and again has a      *)
(* release at last.                                                        *)
(***************************************************************************)
FetchFairness ==
    /\ WF_fetchVars(UpdateFallsDue /\ UNCHANGED get)
    /\ <>[][\A p \in Detailed : ~Fails(p)]_fetchVars
    /\ \A p \in Proc :
          WF_fetchVars(Proceed(p) /\ Bodies(p)) /\ WF_fetchVars(FetchRefused(p))
    /\ \A p \in Detailed : WF_fetchVars(Getting(p))
    /\ \A p \in {q \in Proc : "run" \in Command[q]} :
          /\ SF_fetchVars(Start(p, "run") /\ UNCHANGED get)
          /\ WF_fetchVars(Exit(p) /\ Bodies(p))
          /\ \A l \in {"ask", "fetch"} : SF_fetchVars(FetchAnswered(p) /\ pc[p] = l)

FetchSpec == FetchInit /\ [][FetchNext]_fetchVars /\ FetchFairness

-----------------------------------------------------------------------------
(* Properties *)

\* No request leaves a connection behind: whichever of its steps failed, and
\* however many redirects the download followed, each is closed once the download
\* returns; except those whose TLS handshake failed, which client.go:142 forgets.
ConnsReleased ==
    \A p \in Proc : get[p].step = "none" => get[p].sockets = get[p].dropped

\* What makes it hold: every open connection waits for a deferred Close, is
\* forgotten, or is in use by a request that has no response yet.
Connected(p) == get[p].step \in {"handshake", "verify", "send"}

SocketsCounted == \A p \in Proc :
    /\ get[p].step # "none" => Gets(p)
    /\ get[p].step = "none" => get[p].answers = 0
    /\ get[p].sockets = get[p].answers + get[p].dropped + (IF Connected(p) THEN 1 ELSE 0)

Step == {"none", "handshake", "verify", "send", "answer", "redirect", "ok", "error"}

FetchTypeOK ==
    get \in [Proc -> [step : Step, hops : Nat, answers : Nat, sockets : Int, dropped : Nat]]

FetchIInv == FetchTypeOK /\ SocketsCounted

\* A download returns, although servers may redirect it in a circle.
DownloadReturns == \A p \in Detailed : Gets(p) ~> ~Gets(p)
=============================================================================
