---------------------------- MODULE LookupProofs ----------------------------
(***************************************************************************)
(* Proofs about Lookup, for every number of goroutines and name servers:   *)
(* with its queries taken apart the resolver does nothing that Resolver    *)
(* does not, and the goroutines of exchangeParallel use their channel well.*)
(***************************************************************************)
EXTENDS Lookup, ResolverProofs

USE LookupAssumption

-----------------------------------------------------------------------------
(* Lookup implements Resolver *)

\* A step of an exchange is nothing to Resolver.
LEMMA ExchangingStutters ==
    ASSUME NEW p \in Proc, NEW x \in Type, Exchanging(p, x)
    PROVE  UNCHANGED vars
BY DEF Exchanging, Ask, Direct, CloseChannel, Receive, ContextDone, Report,
       Send, Skip, Becomes

LEMMA LookupStepIsStep ==
    ASSUME NEW p \in Proc, LookupStep(p)
    PROVE  Step(p) \/ UNCHANGED vars
<1>1. CASE Plain(p)
  BY <1>1 DEF Plain, Step
<1>2. CASE Standard(p)
  BY <1>2 DEF Standard, Query, Step
<1>3. CASE Fastest(p) \/ Cancelled(p)
  BY <1>3 DEF Fastest, Cancelled, Step
<1>4. CASE \E x \in Type : Exchanging(p, x)
  BY <1>4, ExchangingStutters
<1> QED BY <1>1, <1>2, <1>3, <1>4 DEF LookupStep

LEMMA LookupNextIsNext == [LookupNext]_allVars => [Next]_vars
<1> SUFFICES ASSUME [LookupNext]_allVars PROVE [Next]_vars
  OBVIOUS
<1>1. CASE Around
  BY <1>1 DEF Around, Next
<1>2. ASSUME NEW p \in Followed, LookupStep(p) PROVE [Next]_vars
  BY <1>2, LookupStepIsStep DEF Next
<1>3. ASSUME NEW p \in Followed, CallerGone(p) PROVE [Next]_vars
  BY <1>3 DEF CallerGone
<1>4. ASSUME NEW p \in Followed, NEW x \in Type, Timeout(p, x) PROVE [Next]_vars
  BY <1>4 DEF Timeout, Becomes
<1>5. ASSUME NEW p \in Proc \ Followed, StepUnfollowed(p) PROVE [Next]_vars
  BY <1>5 DEF StepUnfollowed, Next
<1>6. CASE UNCHANGED allVars
  BY <1>6 DEF allVars
<1> QED BY <1>1, <1>2, <1>3, <1>4, <1>5, <1>6 DEF LookupNext

\* With every query made by its goroutines, channels and timeouts, the resolver
\* does nothing that Resolver's one step for each query does not allow: what is
\* proved of Resolver holds of it.
THEOREM LookupImplementsResolver == LookupSpec => Spec
<1>1. LookupInit => Init  BY DEF LookupInit
<1> QED BY <1>1, LookupNextIsNext, PTL DEF LookupSpec, Spec

-----------------------------------------------------------------------------
(* What an exchange says of its channel *)

Sent(e) == {u \in ns : e.up[u] \in Result}

\* While the receiver waits, the channel holds what some server sent, and every
\* result that is not an error is still there; of as many results as there are
\* servers at least one has not been received; and no server's is dropped
\* before the context is done.  Afterwards nothing is left in it.  Only a
\* finished set of senders closes it.
ChannelOK(x, e) ==
    /\ e.phase = "run" =>
          /\ Len(e.buf) <= Cardinality(Sent(e))
          /\ Cardinality(Sent(e)) < Cardinality(ns) + Len(e.buf)
          /\ \A i \in 1 .. Len(e.buf) : \E u \in ns : e.up[u] = e.buf[i]
          /\ \A u \in ns : e.up[u] \in {"good", "bad"} =>
                \E i \in 1 .. Len(e.buf) : e.buf[i] = e.up[u]
          /\ Parallel(x) /\ ~e.late => \A u \in ns : e.up[u] # "skipped"
    /\ e.phase # "run" => e.buf = <<>> /\ \A u \in ns : e.up[u] \notin Result
    /\ e.closed => Parallel(x) /\ \A u \in ns : e.up[u] # "asking"
    /\ ~Parallel(x) => \A u \in ns : e.up[u] = "skipped"

\* Where a query may be under way, and what resolveFastest's two lookups sent:
\* each of them one result, unless the caller has gone.
UnderWay(p, x) ==
    /\ p \in Followed /\ look[p][x] = "none"
    /\ \/ loc[p] = "q6" /\ x = "AAAA"
       \/ loc[p] = "q4" /\ x = "A"
       \/ loc[p] = "fast"

PlaceInv == \A p \in Proc, x \in Type :
    /\ ex[p][x].phase # "none" => UnderWay(p, x)
    /\ look[p][x] # "none" => p \in Followed /\ loc[p] = "fast"
    /\ look[p][x] = "skipped" => gone[p]

Count(l) == IF l = "sent" THEN 1 ELSE 0

FoundInv == \A p \in Proc :
    Len(found[p]) = Count(look[p]["AAAA"]) + Count(look[p]["A"])

LookupBase ==
    /\ ns \subseteq Upstream /\ ns # {}
    /\ ex \in [Proc -> [Type -> Exchange]]
    /\ look \in [Proc -> [Type -> {"none", "sent", "skipped"}]]
    /\ found \in [Proc -> Seq(SUBSET IP)]
    /\ gone \in [Proc -> BOOLEAN]

ChannelInv == \A p \in Proc, x \in Type : ChannelOK(x, ex[p][x])

LookupInv == LookupBase /\ PlaceInv /\ FoundInv /\ ChannelInv

LEMMA CountServers ==
    /\ IsFiniteSet(Upstream)
    /\ LookupBase => IsFiniteSet(ns) /\ Cardinality(ns) \in Nat \ {0}
<1>1. ASSUME LookupBase PROVE IsFiniteSet(ns)
  BY <1>1, FS_Subset DEF LookupBase
<1>2. ASSUME LookupBase PROVE Cardinality(ns) \in Nat \ {0}
  BY <1>1, <1>2, FS_CardinalityType, FS_EmptySet DEF LookupBase
<1> QED BY <1>1, <1>2

LEMMA CountSent ==
    ASSUME LookupBase, NEW e
    PROVE  /\ IsFiniteSet(Sent(e)) /\ Cardinality(Sent(e)) \in Nat
           /\ Cardinality(Sent(e)) <= Cardinality(ns)
           /\ Cardinality(Sent(e)) = Cardinality(ns) => Sent(e) = ns
<1>1. Sent(e) \subseteq ns  BY DEF Sent
<1> QED BY <1>1, CountServers, FS_Subset, FS_CardinalityType

LEMMA ExchangeFields ==
    ASSUME NEW e \in Exchange
    PROVE  /\ e.phase \in {"none", "run", "records", "failed"}
           /\ e.up \in [ns -> {"asking", "skipped"} \cup Result]
           /\ e.buf \in Seq(Result) /\ Len(e.buf) \in Nat
           /\ e.closed \in BOOLEAN /\ e.late \in BOOLEAN
BY DEF Exchange

\* A field of an exchange may be given another value of its type.
LEMMA ExchangeExcept ==
    ASSUME NEW e \in Exchange, NEW p \in {"none", "run", "records", "failed"},
           NEW up \in [ns -> {"asking", "skipped"} \cup Result],
           NEW buf \in Seq(Result), NEW l \in BOOLEAN
    PROVE  /\ [e EXCEPT !.buf = buf] \in Exchange
           /\ [e EXCEPT !.up = up, !.buf = buf] \in Exchange
           /\ [e EXCEPT !.phase = p, !.up = up, !.buf = buf, !.late = l] \in Exchange
BY DEF Exchange

-----------------------------------------------------------------------------
(* One lemma for each thing that becomes of an exchange *)

LEMMA NewOK ==
    ASSUME LookupBase, NEW x \in Type
    PROVE  LET e == New("run", IF Parallel(x) THEN "asking" ELSE "skipped")
           IN  e \in Exchange /\ ChannelOK(x, e)
<1> DEFINE e == New("run", IF Parallel(x) THEN "asking" ELSE "skipped")
<1>1. e \in Exchange  BY DEF New, Exchange
<1>2. Sent(e) = {}  BY DEF New, Sent, Result
<1>3. Cardinality(Sent(e)) = 0  BY <1>2, FS_EmptySet
<1>4. ChannelOK(x, e)
  BY <1>3, CountServers DEF New, ChannelOK, Result
<1> QED BY <1>1, <1>4

LEMMA FinishedOK ==
    ASSUME LookupBase, NEW x \in Type, NEW e \in Exchange, ChannelOK(x, e),
           NEW r \in Result
    PROVE  Finished(e, r) \in Exchange /\ ChannelOK(x, Finished(e, r))
<1> DEFINE over == IF r = "good" THEN "records" ELSE "failed"
           left == [u \in ns |-> IF e.up[u] = "asking" THEN "asking" ELSE "skipped"]
           d == [e EXCEPT !.phase = over, !.up = left, !.buf = <<>>, !.late = FALSE]
<1>1. Finished(e, r) = d  BY DEF Finished
<1>2. left \in [ns -> {"asking", "skipped"} \cup Result]  OBVIOUS
<1>3. <<>> \in Seq(Result)  OBVIOUS
<1>4. d \in Exchange
  <2> HIDE DEF left
  <2> QED BY <1>2, <1>3, ExchangeExcept
<1>5. /\ d.phase \in {"records", "failed"} /\ d.buf = <<>>
      /\ d.closed = e.closed /\ d.up = left
  <2> HIDE DEF left
  <2> QED BY DEF Exchange
<1>6. ChannelOK(x, d)
  BY <1>5, ExchangeFields DEF ChannelOK, Result
<1> QED BY <1>1, <1>4, <1>6, Zenon

LEMMA SendOK ==
    ASSUME LookupBase, NEW x \in Type, NEW e \in Exchange, ChannelOK(x, e),
           NEW u \in ns, e.phase = "run", e.up[u] = "asking", NEW r \in Result
    PROVE  LET d == [e EXCEPT !.up[u] = r, !.buf = Append(@, r)]
           IN  d \in Exchange /\ ChannelOK(x, d)
<1> DEFINE d == [e EXCEPT !.up[u] = r, !.buf = Append(@, r)]
           up == [e.up EXCEPT ![u] = r]
           buf == Append(e.buf, r)
<1>1. d \in Exchange
  <2>1. d = [e EXCEPT !.up = up, !.buf = buf]  OBVIOUS
  <2>2. up \in [ns -> {"asking", "skipped"} \cup Result]  BY ExchangeFields
  <2>3. buf \in Seq(Result)  BY ExchangeFields
  <2> HIDE DEF up, buf, d
  <2> QED BY <2>1, <2>2, <2>3, ExchangeExcept
<1>2. /\ d.phase = "run" /\ d.closed = e.closed /\ d.late = e.late
      /\ d.up = [e.up EXCEPT ![u] = r] /\ d.buf = Append(e.buf, r)
  BY DEF Exchange
<1> HIDE DEF d
<1>3. Sent(d) = Sent(e) \cup {u} /\ u \notin Sent(e)
  BY <1>2, ExchangeFields DEF Sent, Result
<1>4. Cardinality(Sent(d)) = Cardinality(Sent(e)) + 1
  BY <1>3, CountSent, FS_AddElement
<1>5. /\ Len(d.buf) = Len(e.buf) + 1 /\ d.buf[Len(d.buf)] = r
      /\ \A i \in 1 .. Len(e.buf) : d.buf[i] = e.buf[i]
  BY <1>2, ExchangeFields
<1>6. \A i \in 1 .. Len(d.buf) : \E v \in ns : d.up[v] = d.buf[i]
  <2> TAKE i \in 1 .. Len(d.buf)
  <2>1. CASE i = Len(d.buf)
    BY <2>1, <1>2, <1>5, ExchangeFields
  <2>2. CASE i \in 1 .. Len(e.buf)
    <3>1. PICK v \in ns : e.up[v] = e.buf[i]  BY <2>2 DEF ChannelOK
    <3>2. e.buf[i] \in Result  BY <2>2, ExchangeFields
    <3> QED BY <3>1, <3>2, <2>2, <1>2, <1>5, ExchangeFields DEF Result
  <2> QED BY <2>1, <2>2, <1>5, ExchangeFields
<1>7. \A v \in ns : d.up[v] \in {"good", "bad"} =>
         \E i \in 1 .. Len(d.buf) : d.buf[i] = d.up[v]
  <2> TAKE v \in ns
  <2> HAVE d.up[v] \in {"good", "bad"}
  <2>1. CASE v = u
    BY <2>1, <1>2, <1>5, ExchangeFields
  <2>2. CASE v # u
    <3>1. e.up[v] = d.up[v]  BY <2>2, <1>2, ExchangeFields
    <3>2. PICK i \in 1 .. Len(e.buf) : e.buf[i] = e.up[v]
      BY <3>1 DEF ChannelOK
    <3> QED BY <3>1, <3>2, <1>5, ExchangeFields
  <2> QED BY <2>1, <2>2
<1>8. ChannelOK(x, d)
  <2>1. /\ Len(d.buf) <= Cardinality(Sent(d))
        /\ Cardinality(Sent(d)) < Cardinality(ns) + Len(d.buf)
    BY <1>4, <1>5, CountSent, CountServers, ExchangeFields DEF ChannelOK
  <2>2. Parallel(x) /\ ~d.late => \A v \in ns : d.up[v] # "skipped"
    BY <1>2, ExchangeFields DEF ChannelOK, Result
  <2>3. ~e.closed /\ Parallel(x)  BY DEF ChannelOK
  <2> QED BY <1>2, <1>6, <1>7, <2>1, <2>2, <2>3 DEF ChannelOK
<1> QED BY <1>1, <1>8 DEF d

LEMMA SkipOK ==
    ASSUME LookupBase, NEW x \in Type, NEW e \in Exchange, ChannelOK(x, e),
           NEW u \in ns, e.up[u] = "asking", Done(e)
    PROVE  LET d == [e EXCEPT !.up[u] = "skipped"]
           IN  d \in Exchange /\ ChannelOK(x, d)
<1> DEFINE d == [e EXCEPT !.up[u] = "skipped"]
<1>1. d \in Exchange  BY ExchangeFields DEF Exchange
<1>2. /\ d.phase = e.phase /\ d.closed = e.closed /\ d.late = e.late
      /\ d.up = [e.up EXCEPT ![u] = "skipped"] /\ d.buf = e.buf
  BY DEF Exchange
<1> HIDE DEF d
<1>3. Sent(d) = Sent(e)
  BY <1>2, ExchangeFields DEF Sent, Result
<1>4. ASSUME d.phase = "run"
      PROVE  /\ \A i \in 1 .. Len(d.buf) : \E v \in ns : d.up[v] = d.buf[i]
             /\ \A v \in ns : d.up[v] \in {"good", "bad"} =>
                   \E i \in 1 .. Len(d.buf) : d.buf[i] = d.up[v]
  <2>1. \A v \in ns : e.up[v] \in Result => d.up[v] = e.up[v]
    BY <1>2, ExchangeFields DEF Result
  <2>2. \A i \in 1 .. Len(e.buf) : e.buf[i] \in Result
    BY ExchangeFields
  <2>3. \A i \in 1 .. Len(e.buf) : \E v \in ns : d.up[v] = e.buf[i]
    <3> TAKE i \in 1 .. Len(e.buf)
    <3>1. PICK v \in ns : e.up[v] = e.buf[i]  BY <1>2, <1>4 DEF ChannelOK
    <3> QED BY <3>1, <2>1, <2>2
  <2>4. \A v \in ns : d.up[v] \in {"good", "bad"} => e.up[v] = d.up[v]
    BY <1>2, ExchangeFields
  <2> QED BY <1>2, <1>4, <2>3, <2>4 DEF ChannelOK
<1>5. ChannelOK(x, d)
  BY <1>2, <1>3, <1>4, ExchangeFields DEF ChannelOK, Done, Result
<1> QED BY <1>1, <1>5 DEF d

LEMMA CloseOK ==
    ASSUME LookupBase, NEW x \in Type, NEW e \in Exchange, ChannelOK(x, e),
           Parallel(x), \A u \in ns : e.up[u] # "asking"
    PROVE  LET d == [e EXCEPT !.closed = TRUE]
           IN  d \in Exchange /\ ChannelOK(x, d)
BY DEF Exchange, ChannelOK, Sent

LEMMA LateOK ==
    ASSUME LookupBase, NEW x \in Type, NEW e \in Exchange, ChannelOK(x, e)
    PROVE  LET d == [e EXCEPT !.late = TRUE]
           IN  d \in Exchange /\ ChannelOK(x, d)
BY DEF Exchange, ChannelOK, Sent

LEMMA UsedOK ==
    ASSUME LookupBase, NEW x \in Type, NEW e \in Exchange, ChannelOK(x, e),
           e.phase # "run"
    PROVE  LET d == [e EXCEPT !.phase = "none"]
           IN  d \in Exchange /\ ChannelOK(x, d)
BY DEF Exchange, ChannelOK, Sent

\* An error that is not the last result is received.
LEMMA ReceiveOK ==
    ASSUME LookupBase, NEW x \in Type, NEW e \in Exchange, ChannelOK(x, e),
           e.phase = "run", e.buf # <<>>, Head(e.buf) = "error",
           Got([e EXCEPT !.buf = Tail(@)]) < Cardinality(ns)
    PROVE  LET d == [e EXCEPT !.buf = Tail(@)]
           IN  d \in Exchange /\ ChannelOK(x, d)
<1> DEFINE d == [e EXCEPT !.buf = Tail(@)]
           buf == Tail(e.buf)
<1>1. d \in Exchange
  <2>1. d = [e EXCEPT !.buf = buf]  OBVIOUS
  <2>2. buf \in Seq(Result)  BY ExchangeFields
  <2> HIDE DEF buf, d
  <2> QED BY <2>1, <2>2, ExchangeFields, ExchangeExcept
<1>2. /\ d.phase = e.phase /\ d.closed = e.closed /\ d.late = e.late
      /\ d.up = e.up /\ d.buf = Tail(e.buf)
  BY DEF Exchange
<1>3. Got(d) < Cardinality(ns)  OBVIOUS
<1> HIDE DEF d
<1>4. Sent(d) = Sent(e) /\ Got(d) = Cardinality(Sent(d)) - Len(d.buf)
  BY <1>2 DEF Sent, Got
<1>5. /\ Len(d.buf) = Len(e.buf) - 1 /\ Len(d.buf) \in Nat
      /\ \A i \in 1 .. Len(d.buf) : i + 1 \in 1 .. Len(e.buf) /\ d.buf[i] = e.buf[i + 1]
      /\ e.buf[1] = "error"
  BY <1>2, ExchangeFields
<1>6. \A v \in ns : d.up[v] \in {"good", "bad"} =>
         \E i \in 1 .. Len(d.buf) : d.buf[i] = d.up[v]
  <2> TAKE v \in ns
  <2> HAVE d.up[v] \in {"good", "bad"}
  <2>1. PICK i \in 1 .. Len(e.buf) : e.buf[i] = e.up[v]
    BY <1>2 DEF ChannelOK
  <2>2. i # 1 /\ i \in Nat  BY <2>1, <1>2, <1>5
  <2>3. i - 1 \in 1 .. Len(d.buf) /\ (i - 1) + 1 = i
    BY <2>1, <2>2, <1>5, ExchangeFields
  <2> QED BY <2>1, <2>3, <1>2, <1>5
<1>7. ChannelOK(x, d)
  <2>1. /\ Len(d.buf) <= Cardinality(Sent(d))
        /\ Cardinality(Sent(d)) < Cardinality(ns) + Len(d.buf)
    BY <1>3, <1>4, <1>5, CountSent, CountServers, ExchangeFields DEF ChannelOK
  <2>2. \A i \in 1 .. Len(d.buf) : \E u \in ns : d.up[u] = d.buf[i]
    BY <1>2, <1>5 DEF ChannelOK
  <2> QED BY <1>2, <1>6, <2>1, <2>2 DEF ChannelOK
<1> QED BY <1>1, <1>7 DEF d

-----------------------------------------------------------------------------
(* The invariant of the lookups *)

LEMMA LookupInvInit == LookupInit => LookupInv
<1> SUFFICES ASSUME LookupInit PROVE LookupInv
  OBVIOUS
<1> DEFINE e == New("none", "skipped")
<1>1. e \in Exchange  BY DEF New, Exchange
<1>2. ex = [p \in Proc |-> [x \in Type |-> e]]  BY DEF LookupInit
<1>3. e.phase = "none" /\ \A x \in Type : ChannelOK(x, e)
  BY DEF New, ChannelOK, Result
<1> HIDE DEF e
<1>4. LookupBase
  <2>1. ns \subseteq Upstream /\ ns # {}  BY DEF LookupInit
  <2>2. ex \in [Proc -> [Type -> Exchange]]  BY <1>1, <1>2
  <2>3. <<>> \in Seq(SUBSET IP)  OBVIOUS
  <2>4. found \in [Proc -> Seq(SUBSET IP)]  BY <2>3 DEF LookupInit
  <2> QED BY <2>1, <2>2, <2>4 DEF LookupInit, LookupBase
<1>5. PlaceInv /\ ChannelInv
  BY <1>2, <1>3 DEF LookupInit, PlaceInv, ChannelInv
<1>6. FoundInv
  <2>1. \A p \in Proc : found[p] = <<>> /\ look[p]["AAAA"] = "none" /\ look[p]["A"] = "none"
    BY DEF LookupInit, Type
  <2>2. Len(<<>>) = 0  OBVIOUS
  <2> QED BY <2>1, <2>2 DEF FoundInv, Count
<1> QED BY <1>4, <1>5, <1>6 DEF LookupInv

\* What is well of an exchange stays well while the name servers are the same.
LEMMA SameServers ==
    ASSUME UNCHANGED ns
    PROVE  /\ Exchange' = Exchange
           /\ \A x, e : ChannelOK(x, e)' = ChannelOK(x, e)
BY DEF Exchange, ChannelOK, Sent, Parallel

LEMMA BecomesInv ==
    ASSUME LookupInv, NEW p \in Proc, NEW x \in Type, NEW e \in Exchange,
           ChannelOK(x, e), e.phase # "none" => UnderWay(p, x),
           Becomes(p, x, e)
    PROVE  LookupInv'
<1>1. /\ ex' = [ex EXCEPT ![p][x] = e]
      /\ ns' = ns /\ look' = look /\ found' = found /\ gone' = gone /\ loc' = loc
  BY DEF Becomes, vars
<1>2. ex \in [Proc -> [Type -> Exchange]]  BY DEF LookupInv, LookupBase
<1>3. \A q \in Proc, y \in Type :
         ex'[q][y] = IF q = p /\ y = x THEN e ELSE ex[q][y]
  BY <1>1, <1>2
<1>4. ex' \in [Proc -> [Type -> Exchange]]  BY <1>1, <1>2
<1>5. LookupBase'
  BY <1>1, <1>4, SameServers DEF LookupInv, LookupBase
<1>6. PlaceInv'
  BY <1>1, <1>3 DEF LookupInv, PlaceInv, UnderWay
<1>7. FoundInv'
  BY <1>1 DEF LookupInv, FoundInv
<1>8. ChannelInv'
  BY <1>1, <1>3, SameServers DEF LookupInv, ChannelInv
<1> QED BY <1>5, <1>6, <1>7, <1>8 DEF LookupInv

\* Steps that leave the lookups alone and move no goroutine out of a query.
LEMMA QuietInv ==
    ASSUME LookupInv, UNCHANGED lookupVars,
           \A p \in Followed : loc'[p] = loc[p] \/ loc[p] \notin {"q6", "q4", "fast"}
    PROVE  LookupInv'
<1>1. /\ ns' = ns /\ ex' = ex /\ look' = look /\ found' = found /\ gone' = gone
  BY DEF lookupVars
<1>2. LookupBase' /\ FoundInv' /\ ChannelInv'
  BY <1>1, SameServers DEF LookupInv, LookupBase, FoundInv, ChannelInv
<1>3. PlaceInv'
  BY <1>1 DEF LookupInv, PlaceInv, UnderWay
<1> QED BY <1>2, <1>3 DEF LookupInv

\* One result of queryDNS is used: the exchange is forgotten.
LEMMA UsedInv ==
    ASSUME LookupInv, NEW p \in Proc, NEW x \in Type, Over(p, x), Used(p, x),
           UNCHANGED ns
    PROVE  /\ ex' \in [Proc -> [Type -> Exchange]]
           /\ ChannelInv'
           /\ ex'[p][x].phase = "none"
           /\ \A q \in Proc, y \in Type : q # p \/ y # x => ex'[q][y] = ex[q][y]
<1> DEFINE e == [ex[p][x] EXCEPT !.phase = "none"]
<1>1. ex \in [Proc -> [Type -> Exchange]] /\ ex[p][x] \in Exchange
  BY DEF LookupInv, LookupBase
<1>2. ChannelOK(x, ex[p][x])  BY DEF LookupInv, ChannelInv
<1>3. LookupBase  BY DEF LookupInv
<1>4. ex[p][x].phase # "run"  BY DEF Over
<1>5. e \in Exchange /\ ChannelOK(x, e)  BY <1>1, <1>2, <1>3, <1>4, UsedOK
<1>6. e.phase = "none"  BY <1>1 DEF Exchange
<1>7. ex' = [ex EXCEPT ![p][x] = e]  BY DEF Used
<1> HIDE DEF e
<1>8. /\ ex' \in [Proc -> [Type -> Exchange]]
      /\ \A q \in Proc, y \in Type :
            ex'[q][y] = IF q = p /\ y = x THEN e ELSE ex[q][y]
  BY <1>1, <1>5, <1>7
<1>9. ChannelInv'
  BY <1>5, <1>8, SameServers DEF LookupInv, ChannelInv
<1> QED BY <1>6, <1>8, <1>9

LEMMA ExchangingInv ==
    ASSUME LookupInv, NEW p \in Followed, NEW x \in Type,
           Exchanging(p, x) \/ Timeout(p, x)
    PROVE  LookupInv'
<1> DEFINE e == ex[p][x]
<1>1. p \in Proc /\ e \in Exchange /\ ChannelOK(x, e) /\ LookupBase
  BY DEF LookupInv, LookupBase, ChannelInv
<1>2. e.phase # "none" => UnderWay(p, x)  BY <1>1 DEF LookupInv, PlaceInv
<1>3. \A r \in Result : Finished(e, r).phase # "none"
  BY <1>1 DEF Finished, Exchange
<1>4. CASE Ask(p, x)
  <2> DEFINE d == New("run", IF Parallel(x) THEN "asking" ELSE "skipped")
  <2>1. d \in Exchange /\ ChannelOK(x, d)  BY <1>1, NewOK
  <2>2. UnderWay(p, x)
    BY <1>1, <1>4 DEF Ask, Wanted, UnderWay, LookupInv, PlaceInv
  <2>3. Becomes(p, x, d)  BY <1>4 DEF Ask
  <2> HIDE DEF d
  <2> QED BY <1>1, <2>1, <2>2, <2>3, BecomesInv
<1>5. CASE Direct(p, x)
  <2>1. PICK r \in Result : Becomes(p, x, Finished(e, r))  BY <1>5 DEF Direct
  <2>2. e.phase = "run"  BY <1>5 DEF Direct
  <2> QED BY <1>1, <1>2, <2>1, <2>2, FinishedOK, BecomesInv
<1>6. CASE CloseChannel(p, x)
  <2> DEFINE d == [e EXCEPT !.closed = TRUE]
  <2>1. Becomes(p, x, d) /\ d \in Exchange /\ ChannelOK(x, d)
    BY <1>1, <1>6, CloseOK DEF CloseChannel
  <2>2. d.phase = e.phase  BY <1>1 DEF Exchange
  <2> HIDE DEF d
  <2> QED BY <1>1, <1>2, <2>1, <2>2, BecomesInv
<1>7. CASE Timeout(p, x)
  <2> DEFINE d == [e EXCEPT !.late = TRUE]
  <2>1. Becomes(p, x, d) /\ d \in Exchange /\ ChannelOK(x, d)
    BY <1>1, <1>7, LateOK DEF Timeout
  <2>2. d.phase = e.phase  BY <1>1 DEF Exchange
  <2> HIDE DEF d
  <2> QED BY <1>1, <1>2, <2>1, <2>2, BecomesInv
<1>8. CASE Receive(p, x)
  <2> DEFINE read == [e EXCEPT !.buf = Tail(@)]
             r == Head(e.buf)
  <2>1. e.phase = "run" /\ e.buf # <<>>  BY <1>8 DEF Receive
  <2>2. r \in Result  BY <1>1, <2>1, ExchangeFields
  <2>3. Becomes(p, x, IF r = "error" /\ Got(read) < Cardinality(ns) THEN read
                      ELSE Finished(read, r))
    BY <1>8 DEF Receive
  <2>4. CASE r = "error" /\ Got(read) < Cardinality(ns)
    <3>1. read \in Exchange /\ ChannelOK(x, read)
      BY <1>1, <2>1, <2>4, ReceiveOK
    <3>2. Becomes(p, x, read)  BY <2>3, <2>4
    <3> HIDE DEF read
    <3> QED BY <1>1, <1>2, <2>1, <3>1, <3>2, BecomesInv
  <2>5. CASE ~(r = "error" /\ Got(read) < Cardinality(ns))
    <3>1. Finished(read, r) = Finished(e, r)
      BY <1>1, <2>1, ExchangeFields DEF Finished, Exchange
    <3>2. Becomes(p, x, Finished(e, r))  BY <2>3, <2>5, <3>1
    <3> HIDE DEF read, r
    <3> QED BY <1>1, <1>2, <2>1, <2>2, <3>2, FinishedOK, BecomesInv
  <2> QED BY <2>4, <2>5
<1>9. CASE ContextDone(p, x)
  <2>1. Becomes(p, x, Finished(e, "error")) /\ e.phase = "run"
    BY <1>9 DEF ContextDone
  <2>2. "error" \in Result  BY DEF Result
  <2> QED BY <1>1, <1>2, <2>1, <2>2, FinishedOK, BecomesInv
<1>10. ASSUME NEW u \in ns, Send(p, x, u) PROVE LookupInv'
  <2>1. PICK r \in Result :
          Becomes(p, x, [e EXCEPT !.up[u] = r, !.buf = Append(@, r)])
    BY <1>10 DEF Send
  <2>2. e.phase = "run" /\ e.up[u] = "asking"  BY <1>10 DEF Send
  <2> DEFINE d == [e EXCEPT !.up[u] = r, !.buf = Append(@, r)]
  <2>3. d \in Exchange /\ ChannelOK(x, d)  BY <1>1, <2>2, SendOK
  <2> HIDE DEF d
  <2> QED BY <1>1, <1>2, <2>1, <2>2, <2>3, BecomesInv DEF d
<1>11. ASSUME NEW u \in ns, Skip(p, x, u) PROVE LookupInv'
  <2> DEFINE d == [e EXCEPT !.up[u] = "skipped"]
  <2>1. Becomes(p, x, d) /\ d \in Exchange /\ ChannelOK(x, d)
    BY <1>1, <1>11, SkipOK DEF Skip
  <2>2. d.phase = e.phase  BY <1>1 DEF Exchange
  <2> HIDE DEF d
  <2> QED BY <1>1, <1>2, <2>1, <2>2, BecomesInv
<1>12. CASE Report(p, x)
  <2>1. /\ loc[p] = "fast" /\ Over(p, x) /\ Used(p, x) /\ ns' = ns
        /\ gone' = gone /\ loc' = loc
    BY <1>12 DEF Report, vars
  <2>2. /\ ex' \in [Proc -> [Type -> Exchange]] /\ ChannelInv'
        /\ ex'[p][x].phase = "none"
        /\ \A q \in Proc, y \in Type : q # p \/ y # x => ex'[q][y] = ex[q][y]
    BY <1>1, <2>1, UsedInv
  <2>3. look[p][x] = "none"
    BY <1>1, <1>2, <2>1 DEF Over, UnderWay
  <2>4. look \in [Proc -> [Type -> {"none", "sent", "skipped"}]]
        /\ found \in [Proc -> Seq(SUBSET IP)] /\ FoundInv
    BY DEF LookupInv, LookupBase
  <2>5. /\ look' \in [Proc -> [Type -> {"none", "sent", "skipped"}]]
        /\ \A q \in Proc, y \in Type : q # p \/ y # x => look'[q][y] = look[q][y]
        /\ look'[p][x] \in {"sent", "skipped"}
        /\ look'[p][x] = "skipped" => gone[p]
    <3>1. PICK l \in {"sent", "skipped"} :
             look' = [look EXCEPT ![p][x] = l] /\ (l = "skipped" => gone[p])
      BY <1>12 DEF Report
    <3> QED BY <1>1, <2>4, <3>1
  <2>6. /\ found' \in [Proc -> Seq(SUBSET IP)]
        /\ \A q \in Proc : q # p => found'[q] = found[q]
        /\ Len(found'[p]) = Len(found[p]) + Count(look'[p][x])
    <3>1. CASE /\ look' = [look EXCEPT ![p][x] = "sent"]
               /\ \E ips \in SUBSET Family(x) : found' = [found EXCEPT ![p] = Append(@, ips)]
      <4>1. PICK ips \in SUBSET Family(x) : found' = [found EXCEPT ![p] = Append(@, ips)]
        BY <3>1
      <4>2. ips \in SUBSET IP  BY DEF Family, IP
      <4>3. /\ Append(found[p], ips) \in Seq(SUBSET IP)
            /\ Len(Append(found[p], ips)) = Len(found[p]) + 1
        BY <1>1, <2>4, <4>2
      <4>4. look'[p][x] = "sent"  BY <1>1, <2>4, <3>1
      <4> QED BY <1>1, <2>4, <4>1, <4>3, <4>4 DEF Count
    <3>2. CASE look' = [look EXCEPT ![p][x] = "skipped"] /\ found' = found
      <4>1. look'[p][x] = "skipped"  BY <1>1, <2>4, <3>2
      <4>2. Len(found[p]) \in Nat  BY <1>1, <2>4
      <4> QED BY <1>1, <2>4, <3>2, <4>1, <4>2 DEF Count
    <3> QED BY <1>12, <3>1, <3>2 DEF Report
  <2>7. LookupBase'
    BY <2>1, <2>2, <2>5, <2>6, SameServers DEF LookupInv, LookupBase
  <2>8. PlaceInv'
    BY <1>1, <2>1, <2>2, <2>5 DEF LookupInv, PlaceInv, UnderWay
  <2>9. FoundInv'
    <3> SUFFICES ASSUME NEW q \in Proc
                 PROVE  Len(found'[q]) = Count(look'[q]["AAAA"]) + Count(look'[q]["A"])
      BY DEF FoundInv
    <3>1. Len(found[q]) = Count(look[q]["AAAA"]) + Count(look[q]["A"])
      BY <2>4 DEF FoundInv
    <3>2. CASE q = p
      <4>1. Len(found'[p]) = Count(look[p]["AAAA"]) + Count(look[p]["A"]) + Count(look'[p][x])
        BY <3>1, <3>2, <2>6
      <4>2. Count(look[p][x]) = 0  BY <2>3 DEF Count
      <4>3. CASE x = "AAAA"
        <5>1. look'[p]["A"] = look[p]["A"]  BY <1>1, <2>5, <4>3 DEF Type
        <5> QED BY <3>2, <4>1, <4>2, <4>3, <5>1 DEF Count
      <4>4. CASE x = "A"
        <5>1. look'[p]["AAAA"] = look[p]["AAAA"]  BY <1>1, <2>5, <4>4 DEF Type
        <5> QED BY <3>2, <4>1, <4>2, <4>4, <5>1 DEF Count
      <4> QED BY <4>3, <4>4 DEF Type
    <3>3. CASE q # p
      BY <3>1, <3>3, <2>5, <2>6 DEF Type
    <3> QED BY <3>2, <3>3
  <2> QED BY <2>2, <2>7, <2>8, <2>9 DEF LookupInv
<1> QED
  BY <1>4, <1>5, <1>6, <1>7, <1>8, <1>9, <1>10, <1>11, <1>12 DEF Exchanging

\* A step of one goroutine moves no other.
LEMMA OneMoves ==
    ASSUME TypeOK, NEW p \in Proc, Step(p)
    PROVE  \A q \in Proc : q # p => loc'[q] = loc[q]
<1>1. loc \in [Proc -> Loc]  BY DEF TypeOK
<1>2. \E l : loc' = [loc EXCEPT ![p] = l]
  BY DEF Step, GoTo, PreferenceHit, PreferenceMiss, QueryAAAA, QueryA,
         FastestFound, FastestGaveUp, FastestCancelled, Answered, NotAnswered,
         StorePreference, CacheHit, CacheMiss, TouchEntry, SystemAnswers,
         SystemFails, StoreSystem, InvalidatePref, FinishInvalidate
<1> QED BY <1>1, <1>2

LEMMA StandardInv ==
    ASSUME LookupInv, TypeOK, NEW p \in Followed, Standard(p)
    PROVE  LookupInv'
<1>1. PICK x \in Type :
        /\ \/ x = "AAAA" /\ loc[p] = "q6"
           \/ x = "A" /\ loc[p] = "q4"
        /\ Over(p, x) /\ Used(p, x) /\ Step(p)
        /\ UNCHANGED <<ns, look, found, gone>>
  <2>1. CASE Query(p, "AAAA", QueryAAAA(p))
    <3>1. QueryAAAA(p) /\ loc[p] = "q6"  BY <2>1 DEF Query, QueryAAAA
    <3> QED BY <2>1, <3>1 DEF Query, Type, Step
  <2>2. CASE Query(p, "A", QueryA(p))
    <3>1. QueryA(p) /\ loc[p] = "q4"  BY <2>2 DEF Query, QueryA
    <3> QED BY <2>2, <3>1 DEF Query, Type, Step
  <2> QED BY <2>1, <2>2 DEF Standard
<1>2. p \in Proc  OBVIOUS
<1>3. /\ ex' \in [Proc -> [Type -> Exchange]] /\ ChannelInv'
      /\ ex'[p][x].phase = "none"
      /\ \A q \in Proc, y \in Type : q # p \/ y # x => ex'[q][y] = ex[q][y]
  BY <1>1, <1>2, UsedInv
<1>4. LookupBase' /\ FoundInv'
  BY <1>1, <1>3, SameServers DEF LookupInv, LookupBase, FoundInv
<1>5. \A q \in Proc : q # p => loc'[q] = loc[q]  BY <1>1, <1>2, OneMoves
<1>6. \A y \in Type : ex'[p][y].phase = "none" /\ look[p][y] = "none"
  <2> TAKE y \in Type
  <2>1. look[p][y] = "none"  BY <1>1, <1>2 DEF LookupInv, PlaceInv
  <2>2. CASE y # x
    BY <1>1, <1>2, <1>3, <2>2 DEF LookupInv, PlaceInv, UnderWay
  <2> QED BY <1>3, <2>1, <2>2
<1>7. PlaceInv'
  BY <1>1, <1>3, <1>5, <1>6 DEF LookupInv, PlaceInv, UnderWay
<1> QED BY <1>3, <1>4, <1>7 DEF LookupInv

LEMMA LeaveInv ==
    ASSUME LookupInv, TypeOK, NEW p \in Followed, Step(p), LeaveFastest(p),
           \A x \in Type : look[p][x] # "none"
    PROVE  LookupInv'
<1>1. p \in Proc  OBVIOUS
<1>2. /\ look' = [look EXCEPT ![p] = [x \in Type |-> "none"]]
      /\ found' = [found EXCEPT ![p] = <<>>]
      /\ gone' = [gone EXCEPT ![p] = FALSE]
      /\ ns' = ns /\ ex' = ex
  BY DEF LeaveFastest
<1>3. /\ look \in [Proc -> [Type -> {"none", "sent", "skipped"}]]
      /\ found \in [Proc -> Seq(SUBSET IP)] /\ gone \in [Proc -> BOOLEAN]
  BY DEF LookupInv, LookupBase
<1>4. /\ \A q \in Proc : q # p => look'[q] = look[q] /\ found'[q] = found[q]
      /\ found'[p] = <<>> /\ \A x \in Type : look'[p][x] = "none"
  BY <1>1, <1>2, <1>3
<1>5. LookupBase'
  <2>1. <<>> \in Seq(SUBSET IP)  OBVIOUS
  <2>2. found' \in [Proc -> Seq(SUBSET IP)]  BY <1>2, <1>3, <2>1
  <2>3. look' \in [Proc -> [Type -> {"none", "sent", "skipped"}]]  BY <1>2, <1>3
  <2>4. gone' \in [Proc -> BOOLEAN]  BY <1>2, <1>3
  <2> QED BY <1>2, <2>2, <2>3, <2>4, SameServers DEF LookupInv, LookupBase
<1>6. ChannelInv'
  BY <1>2, SameServers DEF LookupInv, ChannelInv
<1>7. PlaceInv'
  <2>1. \A q \in Proc : q # p => loc'[q] = loc[q]  BY <1>1, OneMoves
  <2>2. \A x \in Type : ex[p][x].phase = "none"
    BY <1>1 DEF LookupInv, PlaceInv, UnderWay
  <2> QED BY <1>2, <1>4, <2>1, <2>2 DEF LookupInv, PlaceInv, UnderWay
<1>8. FoundInv'
  <2> SUFFICES ASSUME NEW q \in Proc
               PROVE  Len(found'[q]) = Count(look'[q]["AAAA"]) + Count(look'[q]["A"])
    BY DEF FoundInv
  <2>1. CASE q = p
    <3>1. Len(<<>>) = 0  OBVIOUS
    <3> QED BY <1>4, <2>1, <3>1 DEF Count, Type
  <2>2. CASE q # p
    BY <1>4, <2>2 DEF LookupInv, FoundInv
  <2> QED BY <2>1, <2>2
<1> QED BY <1>5, <1>6, <1>7, <1>8 DEF LookupInv

LEMMA LookupInvStep ==
    LookupInv /\ TypeOK /\ [LookupNext]_allVars => LookupInv'
<1> SUFFICES ASSUME LookupInv, TypeOK, [LookupNext]_allVars PROVE LookupInv'
  OBVIOUS
<1>1. CASE Around
  <2>1. UNCHANGED lookupVars  BY <1>1 DEF Around
  <2>2. ASSUME NEW q \in Proc
        PROVE  loc'[q] = loc[q] \/ loc[q] \notin {"q6", "q4", "fast"}
    <3>1. loc \in [Proc -> Loc]  BY DEF TypeOK
    <3>2. \/ \E p \in Proc, l \in Loc :
                /\ loc[p] \in {"idle", "done"}
                /\ loc' = [loc EXCEPT ![p] = l]
          \/ loc' = loc
      BY <1>1
      DEF Around, ResolveToAddress, ResolveName, Return, DialFails, CleanCache,
          Tick, GoTo, goVars, Loc
    <3> QED BY <3>1, <3>2
  <2> QED BY <2>1, <2>2, QuietInv
<1>2. ASSUME NEW p \in Followed, Plain(p) PROVE LookupInv'
  <2>1. UNCHANGED lookupVars /\ Step(p) /\ loc[p] \notin {"q6", "q4", "fast"}
    BY <1>2
    DEF Plain, Step, PreferenceHit, PreferenceMiss, StorePreference, CacheHit,
        CacheMiss, TouchEntry, SystemAnswers, SystemFails, StoreSystem,
        InvalidatePref, FinishInvalidate
  <2> QED BY <2>1, OneMoves, QuietInv
<1>3. ASSUME NEW p \in Proc \ Followed, StepUnfollowed(p) PROVE LookupInv'
  <2>1. UNCHANGED lookupVars /\ Step(p)  BY <1>3 DEF StepUnfollowed
  <2> QED BY <2>1, OneMoves, QuietInv
<1>4. ASSUME NEW p \in Followed, Standard(p) PROVE LookupInv'
  BY <1>4, StandardInv
<1>5. ASSUME NEW p \in Followed, Fastest(p) PROVE LookupInv'
  <2>1. Len(found[p]) = 2 /\ Step(p) /\ LeaveFastest(p)
    BY <1>5 DEF Fastest, Step
  <2>2. /\ Count(look[p]["AAAA"]) \in {0, 1} /\ Count(look[p]["A"]) \in {0, 1}
        /\ Count(look[p]["AAAA"]) + Count(look[p]["A"]) = 2
    <3>1. p \in Proc  OBVIOUS
    <3> QED BY <2>1, <3>1 DEF LookupInv, FoundInv, Count
  <2>3. look[p]["AAAA"] # "none" /\ look[p]["A"] # "none"
    BY <2>2 DEF Count
  <2> QED BY <2>1, <2>3, LeaveInv DEF Type
<1>6. ASSUME NEW p \in Followed, Cancelled(p) PROVE LookupInv'
  BY <1>6, LeaveInv DEF Cancelled, Step
<1>7. ASSUME NEW p \in Followed, NEW x \in Type, Exchanging(p, x) \/ Timeout(p, x)
      PROVE  LookupInv'
  BY <1>7, ExchangingInv
<1>8. ASSUME NEW p \in Followed, CallerGone(p) PROVE LookupInv'
  <2>1. /\ UNCHANGED <<ns, ex, look, found, loc>>
        /\ gone' = [gone EXCEPT ![p] = TRUE]
    BY <1>8 DEF CallerGone, vars
  <2>2. LookupBase' /\ FoundInv' /\ ChannelInv'
    BY <2>1, SameServers DEF LookupInv, LookupBase, FoundInv, ChannelInv
  <2> QED BY <2>1, <2>2 DEF LookupInv, PlaceInv, UnderWay
<1>9. CASE UNCHANGED allVars
  BY <1>9, QuietInv DEF allVars, vars
<1> QED
  BY <1>1, <1>2, <1>3, <1>4, <1>5, <1>6, <1>7, <1>8, <1>9
  DEF LookupNext, LookupStep

LEMMA LookupInvariant == LookupSpec => [](LookupInv /\ CoreInv)
<1>1. CoreInv => TypeOK  BY DEF CoreInv
<1>2. LookupInv /\ CoreInv /\ [LookupNext]_allVars => LookupInv'
  BY <1>1, LookupInvStep
<1> QED BY <1>2, LookupInvInit, LookupImplementsResolver, CoreInvariant, PTL
        DEF LookupSpec

-----------------------------------------------------------------------------
(* What follows *)

\* Every variable of the lookups has its type, the channel of an exchange holds
\* no more than one result for each name server, and no goroutine of a query is
\* left to report when resolveFastest or resolveStandard has returned.
THEOREM LookupTypes == LookupSpec => []LookupTypeOK
<1>1. ASSUME LookupInv, CoreInv PROVE LookupTypeOK
  <2>1. LookupBase  BY <1>1 DEF LookupInv
  <2>2. ASSUME NEW p \in Proc PROVE Len(found[p]) <= 2
    BY <1>1 DEF LookupInv, FoundInv, Count
  <2>3. ASSUME NEW p \in Proc, NEW x \in Type
        PROVE  Len(ex[p][x].buf) <= Cardinality(ns)
    <3>1. ex[p][x] \in Exchange /\ ChannelOK(x, ex[p][x])
      BY <1>1, <2>1 DEF LookupInv, LookupBase, ChannelInv
    <3>2. CASE ex[p][x].phase = "run"
      <4>1. Len(ex[p][x].buf) <= Cardinality(Sent(ex[p][x]))
        BY <3>1, <3>2 DEF ChannelOK
      <4> QED BY <4>1, <3>1, <2>1, CountSent, CountServers, ExchangeFields
    <3>3. CASE ex[p][x].phase # "run"
      <4>1. ex[p][x].buf = <<>>  BY <3>1, <3>3 DEF ChannelOK
      <4> QED BY <4>1, <2>1, CountServers
    <3> QED BY <3>2, <3>3
  <2>4. ASSUME NEW p \in Proc, NEW x \in Type, ex[p][x].phase # "none"
        PROVE  p \in Followed /\ loc[p] \in {"q6", "q4", "fast"}
    BY <1>1, <2>4 DEF LookupInv, PlaceInv, UnderWay
  <2> QED BY <2>1, <2>2, <2>3, <2>4 DEF LookupBase, LookupTypeOK
<1> QED BY <1>1, LookupInvariant, PTL

\* Nobody waits for a result that no goroutine is going to send: the two results
\* of resolveFastest are its two lookups', and as many servers send to the
\* receiver of an exchange as it may receive from.
THEOREM LookupNoLostWakeup == LookupSpec => []NoLostWakeup
<1>1. ASSUME LookupInv, NEW p \in Followed, loc[p] = "fast", ~gone[p],
             Len(found[p]) < 2, \A x \in Type : look[p][x] # "none"
      PROVE  FALSE
  <2>1. p \in Proc  OBVIOUS
  <2>2. look[p]["AAAA"] = "sent" /\ look[p]["A"] = "sent"
    BY <1>1, <2>1 DEF LookupInv, LookupBase, PlaceInv, Type
  <2>3. Len(found[p]) = Count(look[p]["AAAA"]) + Count(look[p]["A"])
    BY <1>1, <2>1 DEF LookupInv, FoundInv
  <2> QED BY <1>1, <2>2, <2>3 DEF Count
<1>2. ASSUME LookupInv, NEW p \in Followed, NEW x \in Type, Parallel(x),
             ex[p][x].phase = "run", ~ex[p][x].late, ex[p][x].buf = <<>>,
             \A u \in ns : ex[p][x].up[u] # "asking"
      PROVE  FALSE
  <2> DEFINE e == ex[p][x]
  <2>1. p \in Proc  OBVIOUS
  <2>2. LookupBase /\ e \in Exchange /\ ChannelOK(x, e)
    BY <1>2, <2>1 DEF LookupInv, LookupBase, ChannelInv
  <2>3. \A u \in ns : e.up[u] \in Result
    BY <1>2, <2>2, ExchangeFields DEF ChannelOK
  <2>4. Sent(e) = ns  BY <2>3 DEF Sent
  <2>5. Cardinality(Sent(e)) < Cardinality(ns) + Len(e.buf) /\ Len(e.buf) = 0
    BY <1>2, <2>2 DEF ChannelOK
  <2> QED BY <2>2, <2>4, <2>5, CountServers
<1>3. LookupInv => NoLostWakeup
  BY <1>1, <1>2 DEF NoLostWakeup
<1> QED BY <1>3, LookupInvariant, PTL

\* The receiver is never left before a closed and empty channel unless its
\* context is done: its break leaves only the select, and it would spin.
THEOREM LookupReceiverCanReturn == LookupSpec => []ReceiverCanReturn
<1>1. ASSUME LookupInv, NEW p \in Proc, NEW x \in Type, ex[p][x].phase = "run",
             ex[p][x].closed, ex[p][x].buf = <<>>, ~ex[p][x].late
      PROVE  FALSE
  <2> DEFINE e == ex[p][x]
  <2>1. LookupBase /\ e \in Exchange /\ ChannelOK(x, e)
    BY <1>1 DEF LookupInv, LookupBase, ChannelInv
  <2>2. \A u \in ns : e.up[u] \in Result
    BY <1>1, <2>1, ExchangeFields DEF ChannelOK
  <2>3. Sent(e) = ns  BY <2>2 DEF Sent
  <2>4. Cardinality(Sent(e)) < Cardinality(ns) + Len(e.buf) /\ Len(e.buf) = 0
    BY <1>1, <2>1 DEF ChannelOK
  <2> QED BY <2>1, <2>3, <2>4, CountServers
<1>2. LookupInv => ReceiverCanReturn
  BY <1>1 DEF ReceiverCanReturn
<1> QED BY <1>2, LookupInvariant, PTL

-----------------------------------------------------------------------------
(* What a step may never do *)

\* A query can only fail in a step of its own receiver.
LEMMA FailsInReceiver ==
    ASSUME LookupInv, [LookupNext]_allVars, NEW p \in Proc, NEW x \in Type,
           ex[p][x].phase = "run", ex'[p][x].phase = "failed"
    PROVE  Direct(p, x) \/ Receive(p, x) \/ ContextDone(p, x)
<1>1. ex \in [Proc -> [Type -> Exchange]]  BY DEF LookupInv, LookupBase
<1>2. ex'[p][x] # ex[p][x]  OBVIOUS
<1>3. ASSUME NEW q \in Followed, NEW y \in Type, NEW e, Becomes(q, y, e)
      PROVE  q = p /\ y = x /\ e = ex'[p][x]
  BY <1>1, <1>2, <1>3 DEF Becomes
<1>4. ASSUME NEW q \in Followed, NEW y \in Type, Over(q, y), Used(q, y)
      PROVE  FALSE
  <2>1. q \in Proc  OBVIOUS
  <2>2. ex'[p][x] = ex[p][x] \/ (q = p /\ y = x)
    BY <1>1, <1>4, <2>1 DEF Used
  <2> QED BY <1>2, <1>4, <2>2 DEF Over
<1>5. CASE Around \/ UNCHANGED allVars
  BY <1>2, <1>5 DEF Around, lookupVars, allVars
<1>6. ASSUME NEW q \in Proc \ Followed, StepUnfollowed(q) PROVE FALSE
  BY <1>2, <1>6 DEF StepUnfollowed, lookupVars
<1>7. ASSUME NEW q \in Followed,
             Plain(q) \/ Fastest(q) \/ Cancelled(q) \/ CallerGone(q)
      PROVE  FALSE
  BY <1>2, <1>7 DEF Plain, Fastest, Cancelled, CallerGone, LeaveFastest, lookupVars
<1>8. ASSUME NEW q \in Followed, Standard(q) PROVE FALSE
  BY <1>4, <1>8 DEF Standard, Query, Type
<1>9. ASSUME NEW q \in Followed, NEW y \in Type, Exchanging(q, y) \/ Timeout(q, y)
      PROVE  Direct(p, x) \/ Receive(p, x) \/ ContextDone(p, x)
  <2> DEFINE e == ex[q][y]
  <2>1. q \in Proc /\ e \in Exchange  BY <1>1
  <2>2. CASE Report(q, y)
    BY <2>2, <1>4 DEF Report
  <2>3. CASE Direct(q, y)
    <3>1. \E d : Becomes(q, y, d)  BY <2>3 DEF Direct
    <3> QED BY <2>3, <3>1, <1>3
  <2>4. CASE Receive(q, y)
    <3>1. \E d : Becomes(q, y, d)  BY <2>4 DEF Receive
    <3> QED BY <2>4, <3>1, <1>3
  <2>5. CASE ContextDone(q, y)
    <3>1. \E d : Becomes(q, y, d)  BY <2>5 DEF ContextDone
    <3> QED BY <2>5, <3>1, <1>3
  <2>6. CASE Ask(q, y)
    <3>1. e.phase = "none" /\ \E d : Becomes(q, y, d)  BY <2>6 DEF Ask
    <3> QED BY <3>1, <1>3
  <2>7. CASE CloseChannel(q, y)
    <3> DEFINE d == [e EXCEPT !.closed = TRUE]
    <3>1. Becomes(q, y, d)  BY <2>7 DEF CloseChannel
    <3>2. d.phase = e.phase  BY <2>1 DEF Exchange
    <3> HIDE DEF d
    <3> QED BY <3>1, <3>2, <1>3
  <2>8. CASE Timeout(q, y)
    <3> DEFINE d == [e EXCEPT !.late = TRUE]
    <3>1. Becomes(q, y, d)  BY <2>8 DEF Timeout
    <3>2. d.phase = e.phase  BY <2>1 DEF Exchange
    <3> HIDE DEF d
    <3> QED BY <3>1, <3>2, <1>3
  <2>9. ASSUME NEW u \in ns, Send(q, y, u) PROVE FALSE
    <3>1. PICK r \in Result :
            Becomes(q, y, [e EXCEPT !.up[u] = r, !.buf = Append(@, r)])
      BY <2>9 DEF Send
    <3> DEFINE d == [e EXCEPT !.up[u] = r, !.buf = Append(@, r)]
    <3>2. d.phase = e.phase  BY <2>1 DEF Exchange
    <3> HIDE DEF d
    <3> QED BY <3>1, <3>2, <1>3 DEF d
  <2>10. ASSUME NEW u \in ns, Skip(q, y, u) PROVE FALSE
    <3> DEFINE d == [e EXCEPT !.up[u] = "skipped"]
    <3>1. Becomes(q, y, d)  BY <2>10 DEF Skip
    <3>2. d.phase = e.phase  BY <2>1 DEF Exchange
    <3> HIDE DEF d
    <3> QED BY <3>1, <3>2, <1>3
  <2> QED
    BY <1>9, <2>2, <2>3, <2>4, <2>5, <2>6, <2>7, <2>8, <2>9, <2>10 DEF Exchanging
<1> QED
  BY <1>5, <1>6, <1>7, <1>8, <1>9 DEF LookupNext, LookupStep

LEMMA FailsStepHolds == LookupInv /\ [LookupNext]_allVars => FailsStep
<1> SUFFICES ASSUME LookupInv, [LookupNext]_allVars, NEW p \in Proc,
                    NEW x \in Type, Parallel(x), ex[p][x].phase = "run",
                    ex'[p][x].phase = "failed", ~ex[p][x].late
             PROVE  \/ \E u \in ns : ex[p][x].up[u] = "bad"
                    \/ \A u \in ns : ex[p][x].up[u] = "error"
  BY DEF FailsStep
<1> DEFINE e == ex[p][x]
           r == Head(e.buf)
           read == [e EXCEPT !.buf = Tail(@)]
<1>1. LookupBase /\ e \in Exchange /\ ChannelOK(x, e)
  BY DEF LookupInv, LookupBase, ChannelInv
<1>2. Receive(p, x)
  BY FailsInReceiver DEF Direct, ContextDone
<1>3. /\ e.buf # <<>> /\ e.buf \in Seq(Result)
      /\ Len(e.buf) \in Nat \ {0} /\ r = e.buf[1] /\ r \in Result
      /\ Len(Tail(e.buf)) = Len(e.buf) - 1
  BY <1>1, <1>2, ExchangeFields DEF Receive
<1>4. ex \in [Proc -> [Type -> Exchange]]  BY DEF LookupInv, LookupBase
<1>5. ex'[p][x] = IF r = "error" /\ Got(read) < Cardinality(ns) THEN read
                  ELSE Finished(read, r)
  BY <1>2, <1>4 DEF Receive, Becomes
<1>6. /\ read.phase = "run" /\ read.up = e.up /\ read.buf = Tail(e.buf)
      /\ Finished(read, r).phase = IF r = "good" THEN "records" ELSE "failed"
  BY <1>1 DEF Exchange, Finished
<1>7. r # "good" /\ ~(r = "error" /\ Got(read) < Cardinality(ns))
  BY <1>5, <1>6
<1>8. CASE r = "bad"
  BY <1>1, <1>3, <1>8 DEF ChannelOK
<1>9. CASE r = "error"
  <2>1. Sent(read) = Sent(e) /\ Got(read) = Cardinality(Sent(read)) - Len(read.buf)
    BY <1>6 DEF Sent, Got
  <2> HIDE DEF read
  <2>2. Len(e.buf) = 1 /\ Cardinality(Sent(e)) = Cardinality(ns)
    <3>1. ~(Cardinality(Sent(e)) - (Len(e.buf) - 1) < Cardinality(ns))
      BY <1>3, <1>6, <1>7, <1>9, <2>1
    <3>2. /\ Cardinality(Sent(e)) \in Nat /\ Cardinality(ns) \in Nat
          /\ Cardinality(Sent(e)) <= Cardinality(ns)
      BY <1>1, CountSent, CountServers
    <3>3. \A sent, servers \in Nat, left \in Nat \ {0} :
             ~(sent - (left - 1) < servers) /\ sent <= servers
                => left = 1 /\ sent = servers
      OBVIOUS
    <3>4. Len(e.buf) \in Nat \ {0}  BY <1>3
    <3> HIDE DEF e
    <3> QED BY <3>1, <3>2, <3>3, <3>4
  <2>3. \A u \in ns : e.up[u] \in Result
    BY <1>1, <2>2, CountSent DEF Sent
  <2>4. \A u \in ns : e.up[u] \notin {"good", "bad"}
    BY <1>1, <1>3, <1>9, <2>2 DEF ChannelOK
  <2> QED BY <2>3, <2>4 DEF Result
<1> QED BY <1>3, <1>7, <1>8, <1>9 DEF Result

\* Within its time a query fails only because of a reply without records, or
\* because every name server failed: the errors that were received before are
\* counted, and nothing else but an error was.
THEOREM LookupFailsOnlyForAReason == LookupSpec => FailsOnlyForAReason
<1>1. LookupInv /\ [LookupNext]_allVars => [FailsStep]_allVars
  BY FailsStepHolds
<1> QED BY <1>1, LookupInvariant, PTL DEF LookupSpec, FailsOnlyForAReason
=============================================================================
