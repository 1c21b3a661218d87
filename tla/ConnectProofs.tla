---------------------------- MODULE ConnectProofs ----------------------------
(***************************************************************************)
(* The invariants of the CONNECT handlers for any number of connections,   *)
(* any limit and any rules.  IInv of module Connect is inductive; its four *)
(* parts need nothing but themselves and the types.  The handler with its  *)
(* tunnel implements the handler of module Connect, so the theorems about  *)
(* that one hold of it, and no tunnel truncates a stream.                  *)
(***************************************************************************)
EXTENDS Tunnel, FiniteSetTheorems, TLAPS

\* A policy always has the fields that VerifyCert reads.
LEMMA SniType ==
    ASSUME NEW hello \in Host
    PROVE  DetermineSNI(hello) \in Host \cup {None}
BY ConnectAssumption DEF DetermineSNI

-----------------------------------------------------------------------------
(* Types *)

LEMMA InitTypes == ConnectInit => TypeOK
BY DEF ConnectInit, TypeOK, Stages, Side

\* A handler that runs has taken a token.
LEMMA SlotTaken ==
    ASSUME SlotsMatch, tokens \in Nat, MaxConns > 0, NEW c \in Conn, Running(c)
    PROVE  tokens - 1 \in Nat
<1> DEFINE R == {d \in Conn : Running(d)}
<1>1. IsFiniteSet(R)
    BY FS_Subset, ConnectAssumption
<1>2. Cardinality(R) # 0
    BY <1>1, FS_EmptySet
<1>. QED  BY <1>2 DEF SlotsMatch

\* Every action keeps the types.
LEMMA NextTypes == TypeOK /\ SlotsMatch /\ [ConnectNext]_connectVars => TypeOK'
<1> SUFFICES ASSUME TypeOK, SlotsMatch, [ConnectNext]_connectVars
             PROVE  TypeOK'
    OBVIOUS
<1> USE DEF TypeOK, Stages, Side, Stage, reqVars
<1>1. CASE UNCHANGED connectVars
    BY <1>1 DEF connectVars
<1>2. ASSUME NEW c \in Conn, Arrive(c) PROVE TypeOK'
    BY <1>2, ConnectAssumption DEF Arrive
<1>3. ASSUME NEW c \in Conn, Acquire(c) PROVE TypeOK'
    BY <1>3 DEF Acquire
<1>4. ASSUME NEW c \in Conn, Hijack(c) PROVE TypeOK'
    BY <1>4 DEF Hijack
<1>5. ASSUME NEW c \in Conn, NEW sides \in SUBSET Side, GiveUp(c, sides),
             stage[c] # "idle"
      PROVE  TypeOK'
    BY <1>5 DEF GiveUp
<1>6. ASSUME NEW c \in Conn, Greet(c) PROVE TypeOK'
    BY <1>5, <1>6 DEF Greet
<1>7. ASSUME NEW c \in Conn, HandshakeClient(c) PROVE TypeOK'
    <2>1. CASE GiveUp(c, {"client"})
        BY <1>5, <1>7, <2>1 DEF HandshakeClient
    <2>2. CASE ~GiveUp(c, {"client"})
        BY <1>7, <2>2, SniType DEF HandshakeClient
    <2>. QED  BY <2>1, <2>2
<1>8. ASSUME NEW c \in Conn, Resolve(c) PROVE TypeOK'
    BY <1>5, <1>8 DEF Resolve
<1>9. ASSUME NEW c \in Conn, Dial(c) PROVE TypeOK'
    BY <1>5, <1>9 DEF Dial
<1>10. ASSUME NEW c \in Conn, HandshakeRemote(c) PROVE TypeOK'
    <2>1. CASE GiveUp(c, Side)
        BY <1>5, <1>10, <2>1 DEF HandshakeRemote
    <2>2. CASE ~GiveUp(c, Side)
        BY <1>10, <2>2, ConnectAssumption DEF HandshakeRemote
    <2>. QED  BY <2>1, <2>2
<1>11. ASSUME NEW c \in Conn, VerifyServerCert(c) PROVE TypeOK'
    BY <1>5, <1>11 DEF VerifyServerCert
<1>12. ASSUME NEW c \in Conn, LeaveSelect(c) PROVE TypeOK'
    BY <1>12 DEF LeaveSelect
<1>13. ASSUME NEW c \in Conn, CloseFirst(c) PROVE TypeOK'
    BY <1>13 DEF CloseFirst
<1>14. ASSUME NEW c \in Conn, CloseSecond(c) PROVE TypeOK'
    BY <1>14 DEF CloseSecond
<1>15. ASSUME NEW c \in Conn, Release(c) PROVE TypeOK'
    <2>1. MaxConns > 0 => tokens - 1 \in Nat
        BY <1>15, SlotTaken DEF Release, Running
    <2>. QED  BY <1>15, <2>1, ConnectAssumption DEF Release
<1>. QED
    BY <1>1, <1>2, <1>3, <1>4, <1>6, <1>7, <1>8, <1>9, <1>10, <1>11, <1>12,
       <1>13, <1>14, <1>15 DEF ConnectNext

-----------------------------------------------------------------------------
(* Slots *)

\* The handlers that run are finitely many, so they can be counted.
LEMMA RunningFinite == IsFiniteSet({c \in Conn : Running(c)})
BY FS_Subset, ConnectAssumption

\* The slots stay matched by a step of one handler that keeps it running and
\* leaves the semaphore alone.
LEMMA SlotsStay ==
    ASSUME SlotsMatch, UNCHANGED tokens,
           \A d \in Conn : Running(d)' = Running(d)
    PROVE  SlotsMatch'
<1>1. {d \in Conn : Running(d)}' = {d \in Conn : Running(d)}
    OBVIOUS
<1>. QED  BY <1>1 DEF SlotsMatch

\* Every action keeps the slots matched.
LEMMA NextSlots ==
    TypeOK /\ SlotsMatch /\ [ConnectNext]_connectVars => SlotsMatch'
<1> SUFFICES ASSUME TypeOK, SlotsMatch, [ConnectNext]_connectVars
             PROVE  SlotsMatch'
    OBVIOUS
<1> DEFINE R == {d \in Conn : Running(d)}
<1> USE ConnectAssumption
<1>1. CASE UNCHANGED connectVars
    BY <1>1, SlotsStay DEF connectVars, Running, SlotsMatch
<1>2. ASSUME NEW c \in Conn, Acquire(c) PROVE SlotsMatch'
    <2>1. R' = R \cup {c} /\ c \notin R
        BY <1>2 DEF Acquire, Stage, Running, TypeOK, Stages
    <2>2. MaxConns > 0 => Cardinality(R') = Cardinality(R) + 1
        BY <2>1, FS_AddElement, RunningFinite
    <2>. QED  BY <1>2, <2>2 DEF Acquire, SlotsMatch, TypeOK
<1>3. ASSUME NEW c \in Conn, Release(c) PROVE SlotsMatch'
    <2>1. R' = R \ {c} /\ c \in R
        BY <1>3 DEF Release, Stage, Running, TypeOK, Stages
    <2>2. MaxConns > 0 => Cardinality(R') = Cardinality(R) - 1
        BY <2>1, FS_RemoveElement, RunningFinite
    <2>. QED  BY <1>3, <2>2 DEF Release, SlotsMatch, TypeOK
<1>4. ASSUME NEW c \in Conn,
             \/ Arrive(c) \/ Hijack(c) \/ Greet(c)
             \/ HandshakeClient(c) \/ Resolve(c) \/ Dial(c)
             \/ HandshakeRemote(c) \/ VerifyServerCert(c)
             \/ LeaveSelect(c) \/ CloseFirst(c) \/ CloseSecond(c)
      PROVE  SlotsMatch'
    <2>1. /\ UNCHANGED tokens
          /\ \A d \in Conn : Running(d)' = Running(d)
        BY <1>4 DEF Arrive, Hijack, Greet, HandshakeClient, Resolve, Dial,
            HandshakeRemote, VerifyServerCert, LeaveSelect, CloseFirst,
            CloseSecond, GiveUp, Stage, Running, TypeOK, Stages
    <2>. QED  BY <2>1, SlotsStay
<1>. QED  BY <1>1, <1>2, <1>3, <1>4 DEF ConnectNext

-----------------------------------------------------------------------------
(* Sockets *)

\* Every action closes what it must and nothing else.
LEMMA NextSockets ==
    TypeOK /\ SocketsReleased /\ [ConnectNext]_connectVars => SocketsReleased'
<1> SUFFICES ASSUME TypeOK, SocketsReleased, [ConnectNext]_connectVars
             PROVE  SocketsReleased'
    OBVIOUS
<1> USE DEF TypeOK, Stages, Side, Stage, SocketsReleased
<1>1. CASE UNCHANGED connectVars
    BY <1>1 DEF connectVars
<1>2. ASSUME NEW c \in Conn,
             Arrive(c) \/ Acquire(c) \/ LeaveSelect(c) \/ Release(c)
      PROVE  SocketsReleased'
    BY <1>2 DEF Arrive, Acquire, LeaveSelect, Release
<1>3. ASSUME NEW c \in Conn, Hijack(c) \/ CloseFirst(c) \/ CloseSecond(c)
      PROVE  SocketsReleased'
    BY <1>3 DEF Hijack, CloseFirst, CloseSecond
<1>4. ASSUME NEW c \in Conn, GiveUp(c, {"client"}),
             stage[c] \in {"greet", "hello", "resolve", "dial"}
      PROVE  SocketsReleased'
    BY <1>4 DEF GiveUp
<1>5. ASSUME NEW c \in Conn, GiveUp(c, Side), stage[c] \in {"remote", "verify"}
      PROVE  SocketsReleased'
    BY <1>5 DEF GiveUp
<1>6. ASSUME NEW c \in Conn,
             Greet(c) \/ HandshakeClient(c) \/ Resolve(c) \/ Dial(c)
      PROVE  SocketsReleased'
    BY <1>4, <1>6 DEF Greet, HandshakeClient, Resolve, Dial
<1>7. ASSUME NEW c \in Conn, HandshakeRemote(c) \/ VerifyServerCert(c)
      PROVE  SocketsReleased'
    BY <1>5, <1>7 DEF HandshakeRemote, VerifyServerCert
<1>. QED  BY <1>1, <1>2, <1>3, <1>6, <1>7 DEF ConnectNext

-----------------------------------------------------------------------------
(* Certificates *)

\* What VerifyCert accepts is right in every respect the settings ask for.
LEMMA AcceptedIsVouched ==
    ASSUME TypeOK, NEW c \in Conn, stage[c] = "verify", Verified(c)
    PROVE  Vouched(c)
<1> DEFINE policy == PolicyOf(HostOf(c))
<1>1. CASE SkipVerify \/ ~policy.enabled
    BY <1>1 DEF Vouched
<1>2. CASE ~SkipVerify /\ policy.enabled
    <2>1. /\ cert[c] # None
          /\ Sec.checkValidity => cert[c].inTime
          /\ Sec.validateChain => cert[c].trusted /\ cert[c].eku # "other"
          /\ Sec.checkEKU => cert[c].eku = "server"
        BY <1>2 DEF Verified, VerifyCert, VerifyCertificateChain, HasServerAuthEKU
    <2>2. policy.allowed # {} => \E p \in policy.allowed :
              p = HostOf(c) \/ (~Sec.allowedStrict /\ <<p, HostOf(c)>> \in Matches)
        BY <1>2 DEF Verified, VerifyCert, MatchAllowedPattern
    <2>3. policy.allowed = {} => \E n \in {HostOf(c), sni[c]} \ {None} :
              MatchHostname(cert[c], n, policy)
        <3>1. HostOf(c) # None
            BY CertPolicyAssumption DEF TypeOK, HostOf, Request
        <3>. QED  BY <1>2, <3>1 DEF Verified, VerifyCert
    <2>4. ASSUME NEW n, MatchHostname(cert[c], n, policy)
          PROVE  \/ \E d \in cert[c].names : <<d, n>> \in Covers
                 \/ \E d \in Presented(cert[c]) :
                       \/ n \in Wild /\ <<n, d>> \in Matches
                       \/ ~policy.strict /\ Site[n] # None /\ Site[n] = Site[d]
        BY <2>4 DEF MatchHostname, LooselyMatch
    <2>. QED  BY <1>2, <2>1, <2>2, <2>3, <2>4 DEF Vouched
<1>. QED  BY <1>1, <1>2

\* Every action keeps it so that only vouched connections are relayed.
LEMMA NextVouched ==
    TypeOK /\ RelayedOnlyIfVouched /\ [ConnectNext]_connectVars
        => RelayedOnlyIfVouched'
<1> SUFFICES ASSUME TypeOK, RelayedOnlyIfVouched, [ConnectNext]_connectVars,
                    NEW d \in Conn,
                    stage'[d] \in {"relay", "close1", "close2"}, Intercepted(d)'
             PROVE  Vouched(d)'
    BY DEF RelayedOnlyIfVouched
<1> DEFINE Same == req'[d] = req[d] /\ sni'[d] = sni[d] /\ cert'[d] = cert[d]
<1> USE DEF TypeOK, Stages
<1>1. ASSUME Same
      PROVE  /\ Intercepted(d)
             /\ Vouched(d) => Vouched(d)'
    BY <1>1 DEF Intercepted, Vouched, HostOf
<1>2. ASSUME stage[d] \in {"relay", "close1", "close2"}, Same
      PROVE  Vouched(d)'
    BY <1>1, <1>2 DEF RelayedOnlyIfVouched
<1>3. CASE UNCHANGED connectVars
    BY <1>2, <1>3 DEF connectVars
<1>4. ASSUME NEW c \in Conn,
             \/ Arrive(c) \/ Acquire(c) \/ Hijack(c) \/ Greet(c)
             \/ HandshakeClient(c) \/ Resolve(c) \/ HandshakeRemote(c)
             \/ Release(c)
      PROVE  Vouched(d)'
    <2>1. stage'[c] \notin {"relay", "close1", "close2"}
        BY <1>4 DEF Arrive, Acquire, Hijack, Greet, HandshakeClient, Resolve,
            HandshakeRemote, Release, GiveUp, Stage
    <2>2. c # d
        BY <2>1
    <2>3. stage'[d] = stage[d] /\ Same
        BY <1>4, <2>2 DEF Arrive, Acquire, Hijack, Greet, HandshakeClient, Resolve,
            HandshakeRemote, Release, GiveUp, Stage, reqVars
    <2>. QED  BY <1>2, <2>3
<1>5. ASSUME NEW c \in Conn, LeaveSelect(c) \/ CloseFirst(c) \/ CloseSecond(c)
      PROVE  Vouched(d)'
    BY <1>2, <1>5 DEF LeaveSelect, CloseFirst, CloseSecond, Stage, reqVars
<1>6. ASSUME NEW c \in Conn, Dial(c)
      PROVE  Vouched(d)'
    <2>1. Same
        BY <1>6 DEF Dial, GiveUp, reqVars
    <2>2. stage[d] \in {"relay", "close1", "close2"}
        BY <1>1, <1>6, <2>1 DEF Dial, GiveUp, Stage
    <2>. QED  BY <1>2, <2>1, <2>2
<1>7. ASSUME NEW c \in Conn, VerifyServerCert(c)
      PROVE  Vouched(d)'
    <2>1. Same
        BY <1>7 DEF VerifyServerCert, GiveUp, reqVars
    <2>2. CASE c = d
        <3>1. stage[c] = "verify" /\ Verified(c)
            BY <1>7, <2>2 DEF VerifyServerCert, GiveUp, Stage
        <3>. QED  BY <1>1, <2>1, <2>2, <3>1, AcceptedIsVouched
    <2>3. CASE c # d
        BY <1>2, <1>7, <2>1, <2>3 DEF VerifyServerCert, GiveUp, Stage
    <2>. QED  BY <2>2, <2>3
<1>. QED  BY <1>3, <1>4, <1>5, <1>6, <1>7 DEF ConnectNext

-----------------------------------------------------------------------------
(* Theorems *)

\* The four parts hold at the start.
LEMMA InitIInv == ConnectInit => IInv
<1> SUFFICES ASSUME ConnectInit PROVE IInv
    OBVIOUS
<1>1. {c \in Conn : Running(c)} = {}
    BY DEF ConnectInit, Running
<1>2. Cardinality({c \in Conn : Running(c)}) = 0
    BY <1>1, FS_EmptySet
<1>3. SlotsMatch
    BY <1>2, ConnectAssumption DEF ConnectInit, SlotsMatch
<1>. QED
    BY <1>3, InitTypes DEF ConnectInit, IInv, SocketsReleased, Side,
        RelayedOnlyIfVouched

\* IInv holds in every state of the handlers, whatever the number of clients,
\* the limit, the rules, the settings and the certificates.
THEOREM ConnectSafe == ConnectSpec => []IInv
<1>1. IInv /\ [ConnectNext]_connectVars => IInv'
    BY NextTypes, NextSlots, NextSockets, NextVouched DEF IInv
<1>. QED  BY InitIInv, <1>1, PTL DEF ConnectSpec

\* The semaphore of handleConnect counts its running handlers: no early return
\* keeps a token or gives one back twice.
THEOREM SlotsAlwaysMatch == ConnectSpec => []SlotsMatch
<1>1. IInv => SlotsMatch
    BY DEF IInv
<1>. QED  BY <1>1, ConnectSafe, PTL

\* No exit of handleConnect leaves a socket open or closes one in use.
THEOREM SocketsAlwaysReleased == ConnectSpec => []SocketsReleased
<1>1. IInv => SocketsReleased
    BY DEF IInv
<1>. QED  BY <1>1, ConnectSafe, PTL

\* No intercepted connection is relayed to a server that the policy for its
\* host refuses.
THEOREM AlwaysVouched == ConnectSpec => []RelayedOnlyIfVouched
<1>1. IInv => RelayedOnlyIfVouched
    BY DEF IInv
<1>. QED  BY <1>1, ConnectSafe, PTL

-----------------------------------------------------------------------------
(* The tunnel *)

\* Every step of the detailed handler is a step of the abstract one, or leaves
\* the abstract one alone: what pipes, peers and timers do.
LEMMA TunnelStep == [Next]_vars => [ConnectNext]_connectVars
<1> SUFFICES ASSUME [Next]_vars PROVE [ConnectNext]_connectVars
    OBVIOUS
<1>1. CASE UNCHANGED vars
    BY <1>1 DEF vars, connectVars
<1>2. ASSUME NEW c \in Conn,
             \/ Approach(c) \/ EnterTunnel(c) \/ EndSelect(c)
             \/ CloseClient(c) \/ CloseServer(c)
      PROVE  ConnectNext
    BY <1>2 DEF Approach, EnterTunnel, EndSelect, CloseClient, CloseServer,
        ConnectNext
<1>3. ASSUME NEW c \in Conn, NEW s \in Side,
             PeerSends(c, s) \/ PeerEnds(c, s) \/ WriteChunk(c, s)
      PROVE  UNCHANGED connectVars
    BY <1>3 DEF PeerSends, PeerEnds, WriteChunk
<1>4. ASSUME NEW c \in Conn, NEW s \in Side, PipeAlone(c, s)
      PROVE  UNCHANGED connectVars
    BY <1>4 DEF PipeAlone, PipeStart, ReadChunk, ReadEnd, ConnFails,
        SockClosed, Report, CloseWrite
<1>5. ASSUME NEW c \in Conn, Join(c) \/ Deadline(c)
      PROVE  UNCHANGED connectVars
    BY <1>5 DEF Join, Deadline
<1>. QED  BY <1>1, <1>2, <1>3, <1>4, <1>5 DEF Next, Step

\* The handler with its tunnel implements the handler that leaves the tunnel's
\* inside out.
THEOREM TunnelRefinesConnect == Spec => TunnelIsConnect
<1>1. Init => ConnectInit
    BY DEF Init
<1>. QED  BY <1>1, TunnelStep, PTL DEF Spec, TunnelIsConnect, ConnectSpec

\* So its slots, sockets and certificates are those of module Connect.
THEOREM TunnelSafe == Spec => []IInv
BY TunnelRefinesConnect, ConnectSafe, PTL DEF TunnelIsConnect

-----------------------------------------------------------------------------
(* The streams *)

LEMMA OtherSide ==
    /\ Other("client") = "server"
    /\ Other("server") = "client"
BY DEF Other, Side

LEMMA InitTunnelInv == Init => TunnelInv
<1> SUFFICES ASSUME Init PROVE TunnelInv
    OBVIOUS
<1> USE OtherSide DEF Init, ConnectInit, TunnelInit, Side
<1>1. TunnelTypeOK
    BY DEF TunnelTypeOK, PipeStages
<1>2. ASSUME NEW c \in Conn PROVE NotYet(c)
    BY DEF NotYet
<1>3. ASSUME NEW c \in Conn PROVE Reasons(c)
    BY DEF Reasons
<1>4. ASSUME NEW c \in Conn, NEW s \in Side PROVE StoppedInRelay(c, s)
    BY DEF StoppedInRelay
<1>5. ASSUME NEW c \in Conn, NEW s \in Side PROVE StoppedAlone(c, s)
    BY DEF StoppedAlone
<1>. QED  BY <1>1, <1>2, <1>3, <1>4, <1>5 DEF TunnelInv, Sound

LEMMA UpdateType ==
    ASSUME NEW S, NEW T, NEW f \in [Conn -> [S -> T]],
           NEW c \in Conn, NEW s \in S, NEW v \in T
    PROVE  [f EXCEPT ![c][s] = v] \in [Conn -> [S -> T]]
OBVIOUS

\* Every action keeps the types of the tunnels.
LEMMA NextTunnelTypes == TunnelTypeOK /\ [Next]_vars => TunnelTypeOK'
<1> SUFFICES ASSUME TunnelTypeOK, [Next]_vars PROVE TunnelTypeOK'
    OBVIOUS
<1> USE DEF TunnelTypeOK, Side, peerVars, tunnelVars
<1>1. CASE UNCHANGED vars
    BY <1>1 DEF vars
<1>2. ASSUME NEW c \in Conn, Approach(c) \/ EnterTunnel(c) PROVE TunnelTypeOK'
    <2>1. CASE UNCHANGED <<peerVars, tunnelVars>>
        BY <2>1
    <2>2. CASE StartTunnel(c)
        BY <2>2 DEF StartTunnel, PipeStages
    <2>. QED  BY <1>2, <2>1, <2>2 DEF Approach, EnterTunnel
<1>3. ASSUME NEW c \in Conn, NEW s \in Side, NEW l \in PipeStages, Pipe(c, s, l)
      PROVE  pipe' \in [Conn -> [Side -> PipeStages]]
    BY <1>3, UpdateType DEF Pipe
<1>4. ASSUME NEW c \in Conn, NEW s \in Side, PeerSends(c, s) PROVE TunnelTypeOK'
    <2>1. sent' \in [Conn -> [Side -> Nat]]
        BY <1>4, UpdateType DEF PeerSends
    <2>. QED  BY <1>4, <2>1 DEF PeerSends
<1>5. ASSUME NEW c \in Conn, NEW s \in Side, PeerEnds(c, s) PROVE TunnelTypeOK'
    <2>1. ending' \in [Conn -> [Side -> {"open", "eof", "reset"}]]
        BY <1>5, UpdateType DEF PeerEnds
    <2>. QED  BY <1>5, <2>1 DEF PeerEnds
<1>6. ASSUME NEW c \in Conn, NEW s \in Side,
             \/ PipeStart(c, s) \/ ReadChunk(c, s) \/ ReadEnd(c, s)
             \/ ConnFails(c, s) \/ SockClosed(c, s)
      PROVE  TunnelTypeOK'
    BY <1>3, <1>6 DEF PipeStages, PipeStart, ReadChunk, ReadEnd, ConnFails, SockClosed
<1>7. ASSUME NEW c \in Conn, NEW s \in Side, WriteChunk(c, s) PROVE TunnelTypeOK'
    <2>1. got' \in [Conn -> [Side -> Nat]]
        BY <1>7, UpdateType, OtherSide DEF WriteChunk
    <2>. QED  BY <1>3, <1>7, <2>1 DEF WriteChunk, PipeStages
<1>8. ASSUME NEW c \in Conn, NEW s \in Side, Report(c, s) PROVE TunnelTypeOK'
    BY <1>3, <1>8 DEF Report, PipeStages
<1>9. ASSUME NEW c \in Conn, NEW s \in Side, CloseWrite(c, s) PROVE TunnelTypeOK'
    <2>1. fin' \in [Conn -> [Side -> BOOLEAN]]
        BY <1>9, UpdateType, OtherSide DEF CloseWrite
    <2>. QED  BY <1>3, <1>9, <2>1 DEF CloseWrite, PipeStages
<1>10. ASSUME NEW c \in Conn, Join(c) \/ Deadline(c) PROVE TunnelTypeOK'
    BY <1>10 DEF Join, Deadline
<1>11. ASSUME NEW c \in Conn, EndSelect(c) PROVE TunnelTypeOK'
    <2>1. errs[c] > 0 => errs[c] - 1 \in 0 .. 2
        OBVIOUS
    <2>2. why' \in [Conn -> {"none", "error", "ctx"}]
        BY <1>11 DEF EndSelect
    <2>3. errs' \in [Conn -> 0 .. 2]
        BY <1>11, <2>1 DEF EndSelect
    <2>. QED  BY <1>11, <2>2, <2>3 DEF EndSelect
<1>12. ASSUME NEW c \in Conn, CloseClient(c) \/ CloseServer(c) PROVE TunnelTypeOK'
    BY <1>12 DEF CloseClient, CloseServer
<1>. QED
    BY <1>1, <1>2, <1>4, <1>5, <1>6, <1>7, <1>8, <1>9, <1>10, <1>11,
       <1>12 DEF Next, Step, Step, PipeAlone

\* What a step does to the handler's stage, as far as tunnels are concerned.
Before == {"idle", "queued", "hijack", "greet", "hello", "resolve", "dial",
           "remote", "verify"}

\* Up to the tunnel a handler takes nothing of it along, and after it neither.
LEMMA ApproachStages ==
    ASSUME TypeOK, NEW c \in Conn, Approach(c)
    PROVE  /\ \A d \in Conn : stage'[d] = stage[d] \/ d = c
           /\ \/ stage[c] \in Before /\ stage'[c] \in Before \cup {"release"}
              \/ stage[c] = "release" /\ stage'[c] = "over"
           /\ UNCHANGED <<peerVars, tunnelVars>>
<1>1. stage'[c] # "relay" /\ stage[c] # "verify"
    BY DEF Approach, Arrive, Acquire, Hijack, Greet, HandshakeClient, Resolve,
        HandshakeRemote, Release, GiveUp, Stage, TypeOK
<1>. QED
    BY <1>1 DEF Approach, Arrive, Acquire, Hijack, Greet, HandshakeClient, Resolve,
        HandshakeRemote, Release, GiveUp, Stage, Before, TypeOK

LEMMA EnterStages ==
    ASSUME TypeOK, NEW c \in Conn, EnterTunnel(c)
    PROVE  /\ \A d \in Conn : stage'[d] = stage[d] \/ d = c
           /\ stage[c] \in Before
           /\ \/ /\ stage'[c] \in {"remote", "release"}
                 /\ UNCHANGED <<peerVars, tunnelVars>>
              \/ stage'[c] = "relay" /\ StartTunnel(c)
<1>1. stage[c] \in {"dial", "verify"}
    BY DEF EnterTunnel, Dial, VerifyServerCert
<1>2. /\ \A d \in Conn : stage'[d] = stage[d] \/ d = c
      /\ stage'[c] \in {"remote", "release", "relay"}
    BY DEF EnterTunnel, Dial, VerifyServerCert, GiveUp, Stage, TypeOK
<1>. QED  BY <1>1, <1>2 DEF EnterTunnel, Before

\* What the invariant says of a connection reads only that connection's state.
View(d) == <<stage[d], sent[d], ending[d], got[d], fin[d], pipe[d], errs[d],
             ctx[d], waiter[d], why[d]>>

\* A step of one connection leaves the others alone.
LEMMA Elsewhere ==
    ASSUME TypeOK, TunnelTypeOK, NEW c \in Conn, Step(c), NEW d \in Conn, d # c
    PROVE  UNCHANGED View(d)
<1> USE DEF View, TypeOK, TunnelTypeOK, Pipe, peerVars, tunnelVars, connectVars
<1>1. CASE Approach(c)
    BY <1>1, ApproachStages
<1>2. CASE EnterTunnel(c)
    <2>1. CASE UNCHANGED <<peerVars, tunnelVars>>
        BY <1>2, <2>1, EnterStages
    <2>2. CASE StartTunnel(c)
        BY <1>2, <2>2, EnterStages DEF StartTunnel
    <2>. QED  BY <1>2, <2>1, <2>2, EnterStages
<1>3. ASSUME NEW s \in Side, PeerSends(c, s) \/ PeerEnds(c, s) \/ WriteChunk(c, s)
      PROVE  UNCHANGED View(d)
    BY <1>3 DEF PeerSends, PeerEnds, WriteChunk
<1>4. ASSUME NEW s \in Side, PipeAlone(c, s) PROVE UNCHANGED View(d)
    BY <1>4 DEF PipeAlone, PipeStart, ReadChunk, ReadEnd, ConnFails, SockClosed,
        Report, CloseWrite
<1>5. CASE Join(c) \/ Deadline(c)
    BY <1>5 DEF Join, Deadline
<1>6. CASE EndSelect(c) \/ CloseClient(c) \/ CloseServer(c)
    BY <1>6 DEF EndSelect, CloseClient, CloseServer, LeaveSelect, CloseFirst,
        CloseSecond, Stage
<1>. QED  BY <1>1, <1>2, <1>3, <1>4, <1>5, <1>6 DEF Step

LEMMA SoundIfSame ==
    ASSUME NEW d \in Conn, Sound(d), UNCHANGED View(d)
    PROVE  Sound(d)'
BY DEF Sound, View, NotYet, Reasons, StoppedInRelay, StoppedAlone, Whole, WasReset

\* The steps outside the tunnel.
LEMMA OutsideSound ==
    ASSUME TypeOK, TunnelTypeOK, NEW c \in Conn, Sound(c),
           Approach(c) \/ EnterTunnel(c)
    PROVE  Sound(c)'
<1> USE OtherSide DEF Side, Before, Sound, peerVars, tunnelVars
<1>1. CASE /\ stage[c] \in Before
           /\ stage'[c] \in Before \cup {"release"}
           /\ UNCHANGED <<peerVars, tunnelVars>>
    BY <1>1 DEF NotYet, Reasons, StoppedInRelay, StoppedAlone
<1>2. CASE /\ stage[c] = "release" /\ stage'[c] = "over"
           /\ UNCHANGED <<peerVars, tunnelVars>>
    BY <1>2 DEF NotYet, Reasons, StoppedInRelay, StoppedAlone, Whole
<1>3. CASE stage[c] \in Before /\ stage'[c] = "relay" /\ StartTunnel(c)
    BY <1>3 DEF NotYet, Reasons, StoppedInRelay, StoppedAlone, StartTunnel,
        TunnelTypeOK
<1>. QED  BY <1>1, <1>2, <1>3, ApproachStages, EnterStages

\* The steps of the peers.
LEMMA PeerSound ==
    ASSUME TypeOK, TunnelTypeOK, NEW c \in Conn, Sound(c), NEW s \in Side,
           PeerSends(c, s) \/ PeerEnds(c, s)
    PROVE  Sound(c)'
<1>1. /\ \A x \in Side : Whole(c, x) => Whole(c, x)'
      /\ WasReset(c) => WasReset(c)'
    BY OtherSide DEF PeerSends, PeerEnds, Whole, WasReset, TunnelTypeOK, Side,
        tunnelVars
<1>2. UNCHANGED <<connectVars, tunnelVars>>
    BY DEF PeerSends, PeerEnds
<1>. QED
    BY <1>1, <1>2 DEF Sound, NotYet, Reasons, StoppedInRelay, StoppedAlone,
        connectVars, tunnelVars

\* A pipe that reads or writes finds its sockets open while the handler is in
\* its select.
LEMMA OpenInRelay ==
    ASSUME SocketsReleased, NEW c \in Conn, stage[c] = "relay", NEW s \in Side
    PROVE  sock[c][s] = "open"
BY DEF SocketsReleased, Side

\* What the steps of a pipe have in common.
LEMMA PipeFrame ==
    ASSUME TunnelTypeOK, NEW c \in Conn, NEW s \in Side, Sound(c),
           PipeAlone(c, s) \/ WriteChunk(c, s)
    PROVE  /\ UNCHANGED <<stage, sent, ending, ctx, waiter, why>>
           /\ ctx[c] # "off"
           /\ \A x \in Side : x # s => pipe'[c][x] = pipe[c][x]
           /\ pipe[c][s] # "done"
<1>1. pipe[c][s] \notin {"off", "done"}
    BY DEF PipeAlone, PipeStart, ReadChunk, ReadEnd, ConnFails, SockClosed, Report,
        CloseWrite, WriteChunk
<1>2. UNCHANGED <<stage, sent, ending, ctx, waiter, why>>
    BY DEF PipeAlone, PipeStart, ReadChunk, ReadEnd, ConnFails, SockClosed, Report,
        CloseWrite, WriteChunk, connectVars, peerVars
<1>3. \A x \in Side : x # s => pipe'[c][x] = pipe[c][x]
    BY DEF PipeAlone, PipeStart, ReadChunk, ReadEnd, ConnFails, SockClosed, Report,
        CloseWrite, WriteChunk, Pipe, TunnelTypeOK
<1>. QED  BY <1>1, <1>2, <1>3 DEF Sound, NotYet

\* The steps of a pipe.
LEMMA PipeSound ==
    ASSUME TypeOK, TunnelTypeOK, SocketsReleased,
           NEW c \in Conn, Sound(c), NEW s \in Side,
           PipeAlone(c, s) \/ WriteChunk(c, s)
    PROVE  Sound(c)'
<1> USE OtherSide, PipeFrame DEF Side, TunnelTypeOK, PipeStages, Pipe
<1>1. CASE PipeStart(c, s) \/ ReadChunk(c, s)
    BY <1>1 DEF PipeStart, ReadChunk, Sound, NotYet, Reasons, StoppedInRelay,
        StoppedAlone, Whole, WasReset
<1>2. CASE ReadEnd(c, s)
    BY <1>2 DEF ReadEnd, Sound, NotYet, Reasons, StoppedInRelay, StoppedAlone,
        Whole, WasReset
<1>3. CASE ConnFails(c, s)
    <2>1. WasReset(c)
        BY <1>3 DEF ConnFails, WasReset
    <2>. QED
        BY <1>3, <2>1 DEF ConnFails, Sound, NotYet, Reasons, StoppedInRelay,
            StoppedAlone, Whole, WasReset
<1>4. CASE SockClosed(c, s)
    <2>1. stage[c] # "relay"
        BY <1>4, OpenInRelay DEF SockClosed
    <2>2. ctx[c] \in {"live", "joined"} => why[c] = "error"
        BY <2>1 DEF Sound, Reasons
    <2>. QED
        BY <1>4, <2>1, <2>2 DEF SockClosed, Sound, NotYet, Reasons, StoppedInRelay,
            StoppedAlone, Whole
<1>5. CASE WriteChunk(c, s)
    <2>1. got'[c][s] = got[c][s] /\ UNCHANGED <<fin, errs>>
        BY <1>5 DEF WriteChunk
    <2>2. pipe[c][s] = "write" /\ pipe'[c][s] = "read"
        BY <1>5 DEF WriteChunk
    <2>3. Whole(c, Other(s))' = Whole(c, Other(s)) /\ WasReset(c)' = WasReset(c)
        BY <2>1 DEF Whole, WasReset
    <2>4. NotYet(c)' /\ Reasons(c)'
        BY <2>1, <2>2 DEF Sound, NotYet, Reasons
    <2>5. StoppedInRelay(c, s)' /\ StoppedAlone(c, s)'
        BY <2>1, <2>2 DEF Sound, StoppedInRelay, StoppedAlone
    <2>6. StoppedInRelay(c, Other(s))' /\ StoppedAlone(c, Other(s))'
        BY <2>1, <2>3 DEF Sound, StoppedInRelay, StoppedAlone
    <2>. QED  BY <2>4, <2>5, <2>6 DEF Sound
<1>6. CASE Report(c, s)
    <2>1. errs'[c] > 0
        <3>1. errs[c] \in {0, 1, 2}
            OBVIOUS
        <3>. QED  BY <1>6, <3>1 DEF Report
    <2>. QED
        BY <1>6, <2>1 DEF Report, Sound, NotYet, Reasons, StoppedInRelay,
            StoppedAlone, Whole, WasReset
<1>7. CASE CloseWrite(c, s)
    BY <1>7 DEF CloseWrite, Sound, NotYet, Reasons, StoppedInRelay, StoppedAlone,
        Whole, WasReset
<1>. QED  BY <1>1, <1>2, <1>3, <1>4, <1>5, <1>6, <1>7 DEF PipeAlone

\* The steps of the waiting goroutine, the deadline and the handler.
LEMMA EndSound ==
    ASSUME TypeOK, TunnelTypeOK, NEW c \in Conn, Sound(c),
           \/ Join(c) \/ Deadline(c)
           \/ EndSelect(c) \/ CloseClient(c) \/ CloseServer(c)
    PROVE  Sound(c)'
<1> USE DEF TypeOK, TunnelTypeOK, Side, Sound, Stage, peerVars, tunnelVars, connectVars
<1>1. CASE Join(c) \/ Deadline(c)
    BY <1>1 DEF Join, Deadline, NotYet, Reasons, StoppedInRelay, StoppedAlone,
        Whole, WasReset
<1>2. CASE EndSelect(c)
    BY <1>2 DEF EndSelect, LeaveSelect, NotYet, Reasons, StoppedInRelay,
        StoppedAlone, Whole
<1>3. CASE CloseClient(c)
    BY <1>3 DEF CloseClient, CloseFirst, NotYet, Reasons, StoppedInRelay,
        StoppedAlone, Whole
<1>4. CASE CloseServer(c)
    BY <1>4 DEF CloseServer, CloseSecond, NotYet, Reasons, StoppedInRelay,
        StoppedAlone, Whole
<1>. QED  BY <1>1, <1>2, <1>3, <1>4

\* Every step keeps what is said of every connection.
LEMMA NextTunnelInv ==
    TypeOK /\ SocketsReleased /\ TunnelInv /\ [Next]_vars => TunnelInv'
<1> SUFFICES ASSUME TypeOK, SocketsReleased, TunnelInv, [Next]_vars
             PROVE  TunnelInv'
    OBVIOUS
<1>1. TunnelTypeOK'
    BY NextTunnelTypes DEF TunnelInv
<1>2. ASSUME NEW d \in Conn PROVE Sound(d)'
    <2>1. CASE UNCHANGED vars
        <3>1. UNCHANGED View(d)
            BY <2>1 DEF vars, View, connectVars, peerVars, tunnelVars
        <3>. QED  BY <3>1, SoundIfSame DEF TunnelInv
    <2>2. ASSUME NEW c \in Conn, Step(c), c # d PROVE Sound(d)'
        BY <2>2, Elsewhere, SoundIfSame DEF TunnelInv
    <2>3. CASE Step(d)
        BY <2>3, OutsideSound, PeerSound, PipeSound, EndSound DEF Step, TunnelInv
    <2>. QED  BY <2>1, <2>2, <2>3 DEF Next
<1>. QED  BY <1>1, <1>2 DEF TunnelInv

\* TunnelInv holds in every state of every tunnel.
THEOREM TunnelInvariant == Spec => []TunnelInv
<1>1. TypeOK /\ SocketsReleased /\ TunnelInv /\ [Next]_vars => TunnelInv'
    BY NextTunnelInv
<1>2. IInv => TypeOK /\ SocketsReleased
    BY DEF IInv
<1>. QED  BY InitTunnelInv, <1>1, <1>2, TunnelSafe, PTL DEF Spec

\* No peer is shown the end of a stream that did not end, or ended later, by a
\* tunnel that was neither reset nor cut off by the deadline.
THEOREM NeverTruncated == Spec => []NoSilentTruncation
<1>1. TunnelInv => NoSilentTruncation
    <2> SUFFICES ASSUME TunnelInv, NEW c \in Conn, NEW s \in Side
                 PROVE  /\ stage[c] = "relay" /\ fin[c][Other(s)] =>
                                Whole(c, s) \/ WasReset(c)
                        /\ ctx[c] = "joined" /\ why[c] = "ctx" /\ errs[c] = 0 =>
                                Whole(c, s)
        BY DEF NoSilentTruncation
    <2>1. Reasons(c) /\ StoppedInRelay(c, s) /\ StoppedAlone(c, s)
        BY DEF TunnelInv, Sound
    <2>2. errs[c] \in 0 .. 2
        BY DEF TunnelInv, TunnelTypeOK
    <2>3. stage[c] = "relay" /\ fin[c][Other(s)] => Whole(c, s) \/ WasReset(c)
        BY <2>1 DEF StoppedInRelay
    <2>4. ctx[c] = "joined" /\ why[c] = "ctx" /\ errs[c] = 0 => Whole(c, s)
        BY <2>1, <2>2 DEF Reasons, StoppedAlone
    <2>. QED  BY <2>3, <2>4
<1>. QED  BY <1>1, TunnelInvariant, PTL
=============================================================================
