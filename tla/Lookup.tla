------------------------------- MODULE Lookup -------------------------------
(***************************************************************************)
(* How the resolver's queries are made: exchangeParallel of                *)
(* internal/dns/resolver_std.go with its goroutines and its channel, and   *)
(* queryDNS, resolveStandard and resolveFastest of resolver_base.go on top *)
(* of it.  Each step of Resolver that stands for a query is taken here     *)
(* when the goroutines have come to that result; the other steps are those *)
(* of Resolver.                                                            *)
(*                                                                         *)
(* An exchange ex[p][x] of goroutine p for the record type x:              *)
(*   phase   "none", "run", or its result for queryDNS: "records", "failed" *)
(*   up      server -> "asking" while its goroutine runs, then what it sent *)
(*           ("good": a reply with records, "bad": one with an error code  *)
(*           or with none, "error"), or "skipped"                          *)
(*   buf     resCh          closed   is it closed?                         *)
(*   late    did the context time out before exchangeParallel returned?    *)
(***************************************************************************)
EXTENDS Resolver, Sequences

CONSTANTS
    Upstream,   \* name servers
    MaxTestIPs, \* Preference.MaxTestIPs
    Followed,   \* goroutines whose queries are followed; the others make each in
                \* the one step that Resolver has for it
    MaxAsked,   \* bound: goroutines that look for the address of a name, or
                \* hold an address, when another begins to
    Detailed    \* bound: the record types whose exchange is followed server by
                \* server; the others, which share nothing with it, only end

ASSUME LookupAssumption ==
    /\ MaxTestIPs \in Nat \ {0}
    /\ Upstream # {} /\ IsFiniteSet(Upstream)
    /\ Followed \subseteq Proc /\ MaxAsked \in Nat \ {0}
    /\ Detailed \subseteq {"AAAA", "A"}

VARIABLES
    ns,         \* the name servers that newBackend could parse
    ex,         \* goroutine -> record type -> its exchange
    look,       \* goroutine -> record type -> the lookup goroutine of
                \* resolveFastest: "none", "sent" or "skipped"
    found,      \* goroutine -> lookupCh: sets of addresses as they were sent
    gone        \* goroutine -> has its caller's context ended?

lookupVars == <<ns, ex, look, found, gone>>
allVars    == <<vars, lookupVars>>

Type == {"AAAA", "A"}
Family(x) == IF x = "AAAA" THEN IP6 ELSE IP4
Result == {"good", "bad", "error"}

Exchange == [phase : {"none", "run", "records", "failed"},
             up : [ns -> {"asking", "skipped"} \cup Result],
             buf : Seq(Result), closed : BOOLEAN, late : BOOLEAN]

\* Every variable has its type, a channel never holds more than its size, and
\* no query is under way for a goroutine that has gone on: resolveFastest does
\* not leave before both its lookups have ended (wgLookup.Wait).
LookupTypeOK ==
    /\ ns \subseteq Upstream /\ ns # {}
    /\ ex \in [Proc -> [Type -> Exchange]]
    /\ look \in [Proc -> [Type -> {"none", "sent", "skipped"}]]
    /\ found \in [Proc -> Seq(SUBSET IP)]
    /\ gone \in [Proc -> BOOLEAN]
    /\ \A p \in Proc : Len(found[p]) <= 2
    /\ \A p \in Proc, x \in Type :
          /\ Len(ex[p][x].buf) <= Cardinality(ns)
          /\ ex[p][x].phase # "none" => p \in Followed /\ loc[p] \in {"q6", "q4", "fast"}

New(phase, state) ==
    [phase |-> phase, up |-> [u \in ns |-> state], buf |-> <<>>,
     closed |-> FALSE, late |-> FALSE]

\* newBackend leaves out the servers it cannot parse.
LookupInit ==
    /\ Init
    /\ ns \in (SUBSET Upstream) \ {{}}
    /\ ex = [p \in Proc |-> [x \in Type |-> New("none", "skipped")]]
    /\ look = [p \in Proc |-> [x \in Type |-> "none"]]
    /\ found = [p \in Proc |-> <<>>]
    /\ gone = [p \in Proc |-> FALSE]

\* The exchange becomes e; the caller and its lookup goroutines do not move.
Becomes(p, x, e) ==
    /\ ex' = [ex EXCEPT ![p][x] = e]
    /\ UNCHANGED <<vars, ns, look, found, gone>>

-----------------------------------------------------------------------------
(* exchangeParallel *)

Parallel(x) == Cardinality(ns) > 1 /\ x \in Detailed

Wanted(p, x) ==
    \/ loc[p] = "q6" /\ x = "AAAA"
    \/ loc[p] = "q4" /\ x = "A"
    \/ loc[p] = "fast" /\ look[p][x] = "none"

\* What an earlier exchange left behind has a channel of its own.
Ask(p, x) ==
    /\ Wanted(p, x) /\ ex[p][x].phase = "none"
    /\ Becomes(p, x, New("run", IF Parallel(x) THEN "asking" ELSE "skipped"))

Over(p, x) == ex[p][x].phase \in {"records", "failed"}

\* Nobody reads the channel any more, but its goroutines may still run.
Finished(e, result) ==
    [e EXCEPT !.phase = IF result = "good" THEN "records" ELSE "failed",
              !.up = [u \in ns |-> IF @[u] = "asking" THEN "asking" ELSE "skipped"],
              !.buf = <<>>, !.late = FALSE]

\* Timed out, or cancelled when Exchange returned.
Done(e) == e.late \/ e.phase # "run"

\* How many results were received.
Got(e) == Cardinality({u \in ns : e.up[u] \in Result}) - Len(e.buf)

\* A single server is asked directly: no goroutine, no context.
Direct(p, x) ==
    /\ ex[p][x].phase = "run" /\ ~Parallel(x)
    /\ \E r \in Result : Becomes(p, x, Finished(ex[p][x], r))

\* An upstream's Exchange returns, with an error after its timeout at the
\* latest, and its goroutine sends what it returned.
Send(p, x, u) ==
    /\ ex[p][x].phase = "run" /\ ex[p][x].up[u] = "asking"
    /\ \E r \in Result :
          Becomes(p, x, [ex[p][x] EXCEPT !.up[u] = r, !.buf = Append(@, r)])

\* Mutation of Skip: a result may be dropped while it is waited for.
SkipAnyTime(p, x, u) ==
    /\ ex[p][x].up[u] = "asking"
    /\ Becomes(p, x, [ex[p][x] EXCEPT !.up[u] = "skipped"])

\* With the context done, select may take that case instead; or nobody reads
\* what is sent.
Skip(p, x, u) ==
    /\ ex[p][x].up[u] = "asking"
    /\ Done(ex[p][x])
    /\ Becomes(p, x, [ex[p][x] EXCEPT !.up[u] = "skipped"])

CloseChannel(p, x) ==
    /\ ~ex[p][x].closed /\ Parallel(x)
    /\ \A u \in ns : ex[p][x].up[u] # "asking"
    /\ Becomes(p, x, [ex[p][x] EXCEPT !.closed = TRUE])

\* Mutation of Receive: the first result decides.
ReceiveFirst(p, x) ==
    LET e == ex[p][x] IN
    /\ e.phase = "run" /\ e.buf # <<>>
    /\ Becomes(p, x, Finished(e, Head(e.buf)))

\* The first reply decides, usable or not; an error only counts.
Receive(p, x) ==
    LET e    == ex[p][x]
        r    == Head(e.buf)
        read == [e EXCEPT !.buf = Tail(@)]
    IN
    /\ e.phase = "run" /\ e.buf # <<>>
    /\ Becomes(p, x, IF r = "error" /\ Got(read) < Cardinality(ns) THEN read
                     ELSE Finished(read, r))

\* On a closed channel the receiver only goes round its loop until select
\* takes this case.
ContextDone(p, x) ==
    /\ ex[p][x].phase = "run" /\ ex[p][x].late
    /\ Becomes(p, x, Finished(ex[p][x], "error"))

Timeout(p, x) ==
    /\ ex[p][x].phase = "run" /\ ~ex[p][x].late /\ Parallel(x)
    /\ Becomes(p, x, [ex[p][x] EXCEPT !.late = TRUE])

-----------------------------------------------------------------------------
(* queryDNS, lookupType and resolveStandard *)

Used(p, x) == ex' = [ex EXCEPT ![p][x].phase = "none"]

\* The query has a result, and Resolver's step is the one for it.
Query(p, x, step) ==
    /\ Over(p, x)
    /\ step
    /\ (ans'[p] # None) <=> (ex[p][x].phase = "records")
    /\ Used(p, x)
    /\ UNCHANGED <<ns, look, found, gone>>

Standard(p) == Query(p, "AAAA", QueryAAAA(p)) \/ Query(p, "A", QueryA(p))

-----------------------------------------------------------------------------
(* resolveFastest *)

\* Mutation of Report: a lookup that failed ends without sending.
ReportOnlySuccess(p, x) ==
    /\ loc[p] = "fast" /\ Over(p, x)
    /\ \/ /\ ex[p][x].phase = "records"
          /\ look' = [look EXCEPT ![p][x] = "sent"]
          /\ \E ips \in (SUBSET Family(x)) \ {{}} :
                found' = [found EXCEPT ![p] = Append(@, ips)]
       \/ /\ gone[p] \/ ex[p][x].phase = "failed"
          /\ look' = [look EXCEPT ![p][x] = "skipped"]
          /\ UNCHANGED found
    /\ Used(p, x)
    /\ UNCHANGED <<vars, ns, gone>>

\* A lookup goroutine sends what queryDNS returned, or finds ctx done.
Report(p, x) ==
    /\ loc[p] = "fast" /\ Over(p, x)
    /\ \/ /\ look' = [look EXCEPT ![p][x] = "sent"]
          /\ \E ips \in SUBSET Family(x) :
                /\ (ips # {}) <=> (ex[p][x].phase = "records")
                /\ found' = [found EXCEPT ![p] = Append(@, ips)]
       \/ /\ gone[p]
          /\ look' = [look EXCEPT ![p][x] = "skipped"]
          /\ UNCHANGED found
    /\ Used(p, x)
    /\ UNCHANGED <<vars, ns, gone>>

CallerGone(p) ==
    /\ loc[p] = "fast" /\ ~gone[p]
    /\ gone' = [gone EXCEPT ![p] = TRUE]
    /\ UNCHANGED <<vars, ns, ex, look, found>>

\* The first MaxTestIPs addresses, in the order in which they were sent.
ToTest(sent) == {c \in SUBSET (sent[1] \cup sent[2]) :
    /\ c # {} /\ Cardinality(c) <= MaxTestIPs
    /\ sent[1] \subseteq c \/ c \subseteq sent[1]
    /\ Cardinality(c) = MaxTestIPs \/ c = sent[1] \cup sent[2]}

LeaveFastest(p) ==
    /\ look' = [look EXCEPT ![p] = [x \in Type |-> "none"]]
    /\ found' = [found EXCEPT ![p] = <<>>]
    /\ gone' = [gone EXCEPT ![p] = FALSE]
    /\ UNCHANGED <<ns, ex>>

\* Both answers are here; every address is dialled and every dial awaited, and
\* the fastest of those that answered is chosen.
Fastest(p) ==
    /\ loc[p] = "fast" /\ Len(found[p]) = 2
    /\ \/ /\ FastestFound(p)
          /\ \E c \in ToTest(found[p]) : ans'[p].ip \in c
       \/ FastestGaveUp(p)
    /\ LeaveFastest(p)

\* Mutation of Cancelled: it does not wait for the lookups.
CancelledEarly(p) ==
    /\ gone[p]
    /\ FastestCancelled(p)
    /\ LeaveFastest(p)

\* wgLookup.Wait comes before the return.
Cancelled(p) ==
    /\ gone[p] /\ \A x \in Type : look[p][x] # "none"
    /\ FastestCancelled(p)
    /\ LeaveFastest(p)

-----------------------------------------------------------------------------
Exchanging(p, x) ==
    \/ Ask(p, x) \/ Direct(p, x) \/ CloseChannel(p, x) \/ Receive(p, x)
    \/ ContextDone(p, x) \/ Report(p, x)
    \/ \E u \in ns : Send(p, x, u) \/ Skip(p, x, u)

\* The steps of Resolver that make no query.
Plain(p) ==
    /\ \/ PreferenceHit(p) \/ PreferenceMiss(p) \/ StorePreference(p)
       \/ CacheHit(p) \/ CacheMiss(p) \/ TouchEntry(p)
       \/ SystemAnswers(p) \/ SystemFails(p) \/ StoreSystem(p)
       \/ InvalidatePref(p) \/ FinishInvalidate(p)
    /\ UNCHANGED lookupVars

LookupStep(p) ==
    \/ Plain(p) \/ Standard(p) \/ Fastest(p) \/ Cancelled(p)
    \/ \E x \in Type : Exchanging(p, x)

\* The goroutines that are not followed.
StepUnfollowed(p) == Step(p) /\ UNCHANGED lookupVars

Occupied(p) == loc[p] \notin {"idle", "inv", "unlock"}

\* The callers, the clock and the clean-up.  Close, which neither the lookups
\* nor the caches notice, is left to Resolver.
Around ==
    /\ \/ \E p \in Proc, h \in Name : ResolveToAddress(p, h)
       \/ /\ Cardinality({p \in Proc : Occupied(p)}) < MaxAsked
          /\ \E p \in Proc, h \in Name : ResolveName(p, h)
       \/ \E p \in Proc : Return(p) \/ DialFails(p)
       \/ CleanCache \/ Tick
    /\ UNCHANGED lookupVars

LookupNext ==
    \/ Around
    \/ \E p \in Followed :
          \/ LookupStep(p) \/ CallerGone(p)
          \/ \E x \in Type : Timeout(p, x)
    \/ \E p \in Proc \ Followed : StepUnfollowed(p)

(***************************************************************************)
(* Fairness: as in Resolver; the goroutines of a lookup run until they     *)
(* return, each Exchange has a deadline of its own, and a select whose     *)
(* cases stay ready takes each of them some time.                          *)
(***************************************************************************)
LookupFairness ==
    /\ \A p \in Followed : SF_allVars(LookupStep(p))
    /\ \A p \in Proc \ Followed : SF_allVars(StepUnfollowed(p))
    /\ SF_allVars(CleanCache /\ UNCHANGED lookupVars)

LookupSpec == LookupInit /\ [][LookupNext]_allVars /\ LookupFairness

-----------------------------------------------------------------------------
\* Whoever waits for a result has a goroutine that is still going to send one:
\* resolveFastest, which receives exactly two (resolver_base.go:351), unless its
\* caller has gone, and the receiver of exchangeParallel until its time is up.
NoLostWakeup == \A p \in Followed :
    /\ loc[p] = "fast" /\ ~gone[p] /\ Len(found[p]) < 2 =>
          \E x \in Type : look[p][x] = "none"
    /\ \A x \in Type :
          Parallel(x) /\ ex[p][x].phase = "run" /\ ~ex[p][x].late =>
             ex[p][x].buf # <<>> \/ \E u \in ns : ex[p][x].up[u] = "asking"

\* resolver_std.go:30-31: the first successful reply, or an error if all
\* upstreams fail.  Within its time a query fails only because of a reply that
\* has no records, or because every server failed.
FailsStep == \A p \in Proc, x \in Type :
    Parallel(x) /\ ex[p][x].phase = "run" /\ ex'[p][x].phase = "failed" =>
        \/ ex[p][x].late
        \/ \E u \in ns : ex[p][x].up[u] = "bad"
        \/ \A u \in ns : ex[p][x].up[u] = "error"

FailsOnlyForAReason == [][FailsStep]_allVars

\* The break in exchangeParallel leaves its select and not its loop: on a
\* closed and empty channel it would spin for ever, were its context not done.
ReceiverCanReturn == \A p \in Proc, x \in Type :
    ex[p][x].phase = "run" /\ ex[p][x].closed /\ ex[p][x].buf = <<>>
        => ex[p][x].late
=============================================================================
