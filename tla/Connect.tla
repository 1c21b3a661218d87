------------------------------ MODULE Connect ------------------------------
(***************************************************************************)
(* handleConnect in internal/proxy/proxy.go: one handler goroutine for     *)
(* each CONNECT request, from the semaphore to the tunnel and back.        *)
(*                                                                         *)
(*   "idle"    no request yet        "remote"  TLS handshake with it       *)
(*   "queued"  at the semaphore      "verify"  looking at its certificate  *)
(*   "hijack"  taking the socket     "relay"   in the select of tunnel     *)
(*   "greet"   writing "200 ..."     "close1"  in tunnel, closing c1,      *)
(*   "hello"   TLS handshake with    "close2"  then c2                     *)
(*             the client            "release" at the deferred receive     *)
(*   "resolve" asking the resolver           from the semaphore            *)
(*   "dial"    dialling the server   "over"    returned                    *)
(*                                                                         *)
(* What happens between "relay" and "close1" is module Tunnel.  The        *)
(* resolver is module Resolver: here its Resolve succeeds or fails, and    *)
(* the Invalidate after a failed dial is that module's DialFails.          *)
(***************************************************************************)
EXTENDS CertPolicy, FiniteSets

CONSTANTS
    Conn,           \* connections, one handler goroutine each
    MaxConns,       \* Limit.MaxConns, 0 is "no limit"
    Keep, Strip,    \* "no rule" and "strip the name" in AlterRule
    AlterRule,      \* [Host -> Host \cup {Keep, Strip}]: Rules.GetAlterHostname
    VerifyRule,     \* [Host -> CertRule \cup {None}]: the shared GetCertVerify
    CheckHostname,  \* Config.CheckHostname
    Sec,            \* Config.Security
    SkipVerify,     \* is TLS_INSECURE_SKIP_VERIFY set?
    Presentable     \* bound: the certificates that servers present

\* The host and whether the port is 443, of a CONNECT request.
Request == [host : Host, https : BOOLEAN]

ASSUME ConnectAssumption ==
    /\ MaxConns \in Nat /\ IsFiniteSet(Conn)
    /\ AlterRule \in [Host -> Host \cup {Keep, Strip}]
    /\ VerifyRule \in [Host -> CertRule \cup {None}]
    /\ CheckHostname \in Setting
    /\ Sec \in Security
    /\ SkipVerify \in BOOLEAN
    /\ Presentable \subseteq Certificate \cup {None}
    /\ Keep \notin Host /\ Strip \notin Host /\ Keep # Strip
    /\ None \notin Request

VARIABLES
    stage,      \* where the handler is
    sock,       \* the proxy's socket to each side: "none", "open", "closed"
    tokens,     \* tokens in the semaphore channel
    req,        \* the request
    sni,        \* the server name for the server, None for none
    cert        \* what the server presented

reqVars     == <<req, sni, cert>>
connectVars == <<stage, sock, tokens, req, sni, cert>>

Side == {"client", "server"}

Stages == {"idle", "queued", "hijack", "greet", "hello", "resolve", "dial",
           "remote", "verify", "relay", "close1", "close2", "release", "over"}

\* Every variable has its type.
TypeOK ==
    /\ stage \in [Conn -> Stages]
    /\ sock \in [Conn -> [Side -> {"none", "open", "closed"}]]
    /\ tokens \in Nat
    /\ req \in [Conn -> Request \cup {None}]
    /\ \A c \in Conn : stage[c] # "idle" => req[c] # None
    /\ sni \in [Conn -> Host \cup {None}]
    /\ cert \in [Conn -> Certificate \cup {None}]

ConnectInit ==
    /\ stage = [c \in Conn |-> "idle"]
    /\ sock = [c \in Conn |-> [s \in Side |-> "none"]]
    /\ tokens = 0
    /\ req = [c \in Conn |-> None]
    /\ sni = [c \in Conn |-> None]
    /\ cert = [c \in Conn |-> None]

Stage(c, l) == stage' = [stage EXCEPT ![c] = l]

HostOf(c) == req[c].host

PolicyOf(h) == PolicyFor(VerifyRule[h], CheckHostname)

\* shouldIntercept
Intercepted(c) ==
    /\ req[c].https
    /\ AlterRule[HostOf(c)] # Keep \/ ~PolicyOf(HostOf(c)).enabled

\* determineSNI: the rule is that of the name in the client's hello.
DetermineSNI(hello) ==
    CASE AlterRule[hello] = Keep  -> hello
      [] AlterRule[hello] = Strip -> None
      [] OTHER                    -> AlterRule[hello]

-----------------------------------------------------------------------------
Arrive(c) ==
    /\ stage[c] = "idle"
    /\ \E r \in Request : req' = [req EXCEPT ![c] = r]
    /\ Stage(c, "queued")
    /\ UNCHANGED <<sock, tokens, sni, cert>>

\* Mutation of Acquire: the channel holds one token more than its limit.
AcquireOneMore(c) ==
    /\ stage[c] = "queued"
    /\ \/ MaxConns = 0 /\ UNCHANGED tokens
       \/ tokens <= MaxConns /\ tokens' = tokens + 1
    /\ Stage(c, "hijack")
    /\ UNCHANGED <<sock, reqVars>>

Acquire(c) ==
    /\ stage[c] = "queued"
    /\ \/ MaxConns = 0 /\ UNCHANGED tokens
       \/ tokens < MaxConns /\ tokens' = tokens + 1
    /\ Stage(c, "hijack")
    /\ UNCHANGED <<sock, reqVars>>

\* After a failed hijack the socket is the HTTP server's to close.
Hijack(c) ==
    /\ stage[c] = "hijack"
    /\ \/ sock' = [sock EXCEPT ![c].client = "open"] /\ Stage(c, "greet")
       \/ UNCHANGED sock /\ Stage(c, "release")
    /\ UNCHANGED <<tokens, reqVars>>

\* An early return: the sockets in `sides` are closed, the others left.
GiveUp(c, sides) ==
    /\ sock' = [sock EXCEPT ![c] =
                  [s \in Side |-> IF s \in sides THEN "closed" ELSE @[s]]]
    /\ Stage(c, "release")
    /\ UNCHANGED <<tokens, reqVars>>

Greet(c) ==
    /\ stage[c] = "greet"
    /\ \/ /\ Stage(c, IF Intercepted(c) THEN "hello" ELSE "resolve")
          /\ UNCHANGED <<sock, tokens, reqVars>>
       \/ GiveUp(c, {"client"})

\* handshakeClient; a hello without a name counts as one for the host.
HandshakeClient(c) ==
    /\ stage[c] = "hello"
    /\ \/ /\ \E hello \in Host : sni' = [sni EXCEPT ![c] = DetermineSNI(hello)]
          /\ Stage(c, "resolve")
          /\ UNCHANGED <<sock, tokens, req, cert>>
       \/ GiveUp(c, {"client"})

Resolve(c) ==
    /\ stage[c] = "resolve"
    /\ \/ /\ Stage(c, "dial")
          /\ UNCHANGED <<sock, tokens, reqVars>>
       \/ GiveUp(c, {"client"})

\* directTunnel goes on to the tunnel, connectToRemote to the handshake.
Dial(c) ==
    /\ stage[c] = "dial"
    /\ \/ /\ sock' = [sock EXCEPT ![c].server = "open"]
          /\ Stage(c, IF Intercepted(c) THEN "remote" ELSE "relay")
          /\ UNCHANGED <<tokens, reqVars>>
       \/ GiveUp(c, {"client"})

\* Mutation of HandshakeRemote: its failure closes the client only.
HandshakeRemoteLeaks(c) ==
    /\ stage[c] = "remote"
    /\ \/ /\ \E p \in Presentable : cert' = [cert EXCEPT ![c] = p]
          /\ Stage(c, "verify")
          /\ UNCHANGED <<sock, tokens, req, sni>>
       \/ GiveUp(c, {"client"})

\* connectToRemote closes the server's socket, handleConnect the client's.
HandshakeRemote(c) ==
    /\ stage[c] = "remote"
    /\ \/ /\ \E p \in Presentable : cert' = [cert EXCEPT ![c] = p]
          /\ Stage(c, "verify")
          /\ UNCHANGED <<sock, tokens, req, sni>>
       \/ GiveUp(c, Side)

Verified(c) ==
    VerifyCert(cert[c], HostOf(c), sni[c], PolicyOf(HostOf(c)), Sec, SkipVerify)

\* Mutation of VerifyServerCert: after the warning the handler goes on.
VerifyServerCertWarns(c) ==
    /\ stage[c] = "verify"
    /\ Stage(c, "relay") /\ UNCHANGED <<sock, tokens, reqVars>>

VerifyServerCert(c) ==
    /\ stage[c] = "verify"
    /\ IF Verified(c)
         THEN Stage(c, "relay") /\ UNCHANGED <<sock, tokens, reqVars>>
         ELSE GiveUp(c, Side)

\* Mutation of Release: a receive that is not deferred misses early returns.
ReleaseAfterTunnel(c) ==
    /\ stage[c] = "release"
    /\ tokens' = IF MaxConns = 0 \/ sock[c].server = "none" THEN tokens ELSE tokens - 1
    /\ Stage(c, "over")
    /\ UNCHANGED <<sock, reqVars>>

\* The deferred receive from the semaphore.
Release(c) ==
    /\ stage[c] = "release"
    /\ tokens' = IF MaxConns = 0 THEN tokens ELSE tokens - 1
    /\ Stage(c, "over")
    /\ UNCHANGED <<sock, reqVars>>

-----------------------------------------------------------------------------
(* tunnel, as the handler sees it *)

\* Its select returns: the pipes are done, one failed, or time is up.
LeaveSelect(c) ==
    /\ stage[c] = "relay"
    /\ Stage(c, "close1")
    /\ UNCHANGED <<sock, tokens, reqVars>>

\* c1.Close()
CloseFirst(c) ==
    /\ stage[c] = "close1"
    /\ sock' = [sock EXCEPT ![c].client = "closed"]
    /\ Stage(c, "close2")
    /\ UNCHANGED <<tokens, reqVars>>

\* c2.Close()
CloseSecond(c) ==
    /\ stage[c] = "close2"
    /\ sock' = [sock EXCEPT ![c].server = "closed"]
    /\ Stage(c, "release")
    /\ UNCHANGED <<tokens, reqVars>>

ConnectNext == \E c \in Conn :
    \/ Arrive(c) \/ Acquire(c) \/ Hijack(c) \/ Greet(c)
    \/ HandshakeClient(c) \/ Resolve(c) \/ Dial(c)
    \/ HandshakeRemote(c) \/ VerifyServerCert(c)
    \/ LeaveSelect(c) \/ CloseFirst(c) \/ CloseSecond(c)
    \/ Release(c)

ConnectSpec == ConnectInit /\ [][ConnectNext]_connectVars
-----------------------------------------------------------------------------
(* Properties *)

Running(c) == stage[c] \notin {"idle", "queued", "over"}

\* The semaphore holds one token for every handler that is past it and has not
\* returned, whichever of the early returns it takes, and no more than allowed.
SlotsMatch ==
    MaxConns > 0 =>
        /\ tokens = Cardinality({c \in Conn : Running(c)})
        /\ tokens <= MaxConns

\* Each socket is open exactly as long as the handler is at work on it: every
\* exit of handleConnect, connectToRemote and directTunnel closes what is open.
SocketsReleased == \A c \in Conn :
    /\ sock[c].client = "open" <=>
          stage[c] \in {"greet", "hello", "resolve", "dial", "remote", "verify",
                        "relay", "close1"}
    /\ sock[c].server = "open" <=>
          stage[c] \in {"remote", "verify", "relay", "close1", "close2"}

\* A certificate that is right in every respect the settings ask for, said
\* without the order in which VerifyCert looks.
Vouched(c) ==
    LET h == HostOf(c)
        policy == PolicyOf(h)
        names == {h, sni[c]} \ {None}
    IN  \/ SkipVerify
        \/ ~policy.enabled
        \/ /\ cert[c] # None
           /\ Sec.checkValidity => cert[c].inTime
           /\ Sec.validateChain => cert[c].trusted /\ cert[c].eku # "other"
           /\ Sec.checkEKU => cert[c].eku = "server"
           /\ policy.allowed # {} => \E p \in policy.allowed :
                p = h \/ (~Sec.allowedStrict /\ <<p, h>> \in Matches)
           /\ policy.allowed = {} => \E n \in names :
                \/ \E d \in cert[c].names : <<d, n>> \in Covers
                \/ \E d \in Presented(cert[c]) :
                      \/ n \in Wild /\ <<n, d>> \in Matches
                      \/ ~policy.strict /\ Site[n] # None /\ Site[n] = Site[d]

\* Client and server of an intercepted connection are joined by a tunnel only
\* if the policy for the host the client asked for accepts what the server
\* presented, whatever name the client's hello and the rules put in between.
RelayedOnlyIfVouched == \A c \in Conn :
    stage[c] \in {"relay", "close1", "close2"} /\ Intercepted(c) => Vouched(c)

\* Together, with the types, they are inductive.
IInv == TypeOK /\ SlotsMatch /\ SocketsReleased /\ RelayedOnlyIfVouched
=============================================================================
