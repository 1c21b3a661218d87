------------------------------- MODULE Tunnel -------------------------------
(***************************************************************************)
(* tunnel in internal/proxy/proxy.go, added to the handlers of module      *)
(* Connect: for every connection c two pipe goroutines, a goroutine that   *)
(* waits for both and a five-minute deadline, over the proxy's two sockets *)
(* of c.                                                                   *)
(*                                                                         *)
(* Data are counted in chunks, the unit that one read and one write of     *)
(* io.CopyBuffer move.  The pipe of side s reads what s sent and writes it *)
(* to the other side:                                                      *)
(*   "off"    not started          "start"  before its look at ctx         *)
(*   "read"   in src.Read          "write"  in dst.Write with one chunk    *)
(*   "report" has an error to send "shut"   about to CloseWrite dst        *)
(*   "done"   has called wg.Done                                           *)
(***************************************************************************)
EXTENDS Connect

CONSTANTS
    Chunks      \* bound: chunks that a peer sends

ASSUME TunnelAssumption == Chunks \in Nat

VARIABLES
    sent,       \* chunks each peer has sent
    ending,     \* how each peer's stream stands: "open", "eof", "reset"
    got,        \* chunks each peer has been sent by the proxy
    fin,        \* has each peer been sent an end of stream?
    pipe,       \* the pipe goroutine that reads from each side
    errs,       \* errors in errCh
    ctx,        \* "off", "live", "timeout", "joined" (both pipes were done), "left"
    waiter,     \* the goroutine in wg.Wait: "off", "wait", "done"
    why         \* why the handler left its select (history): "error", "ctx"

Other(s) == CHOOSE o \in Side : o # s

peerVars   == <<sent, ending>>
tunnelVars == <<got, fin, pipe, errs, ctx, waiter, why>>

PipeStages == {"off", "start", "read", "write", "report", "shut", "done"}

TunnelTypeOK ==
    /\ sent \in [Conn -> [Side -> Nat]]
    /\ ending \in [Conn -> [Side -> {"open", "eof", "reset"}]]
    /\ got \in [Conn -> [Side -> Nat]]
    /\ fin \in [Conn -> [Side -> BOOLEAN]]
    /\ pipe \in [Conn -> [Side -> PipeStages]]
    /\ errs \in [Conn -> 0 .. 2]
    /\ ctx \in [Conn -> {"off", "live", "timeout", "joined", "left"}]
    /\ waiter \in [Conn -> {"off", "wait", "done"}]
    /\ why \in [Conn -> {"none", "error", "ctx"}]

TunnelInit ==
    /\ sent = [c \in Conn |-> [s \in Side |-> 0]]
    /\ ending = [c \in Conn |-> [s \in Side |-> "open"]]
    /\ got = [c \in Conn |-> [s \in Side |-> 0]]
    /\ fin = [c \in Conn |-> [s \in Side |-> FALSE]]
    /\ pipe = [c \in Conn |-> [s \in Side |-> "off"]]
    /\ errs = [c \in Conn |-> 0]
    /\ ctx = [c \in Conn |-> "off"]
    /\ waiter = [c \in Conn |-> "off"]
    /\ why = [c \in Conn |-> "none"]

Pipe(c, s, l) == pipe' = [pipe EXCEPT ![c][s] = l]

vars == <<connectVars, peerVars, tunnelVars>>

Init == ConnectInit /\ TunnelInit

\* tunnel(c1, c2), up to its select.
StartTunnel(c) ==
    /\ pipe' = [pipe EXCEPT ![c] = [s \in Side |-> "start"]]
    /\ ctx' = [ctx EXCEPT ![c] = "live"]
    /\ waiter' = [waiter EXCEPT ![c] = "wait"]
    /\ UNCHANGED <<peerVars, got, fin, errs, why>>

\* handleConnect and directTunnel up to the call of tunnel.
Approach(c) ==
    /\ \/ Arrive(c) \/ Acquire(c) \/ Hijack(c) \/ Greet(c)
       \/ HandshakeClient(c) \/ Resolve(c) \/ HandshakeRemote(c)
       \/ Release(c)
    /\ UNCHANGED <<peerVars, tunnelVars>>

EnterTunnel(c) ==
    /\ Dial(c) \/ VerifyServerCert(c)
    /\ IF stage'[c] = "relay" THEN StartTunnel(c)
       ELSE UNCHANGED <<peerVars, tunnelVars>>

-----------------------------------------------------------------------------
(* The peers (external): each sends chunks, then ends its stream or resets. *)

PeerSends(c, s) ==
    /\ stage[c] = "relay" /\ ending[c][s] = "open" /\ sent[c][s] < Chunks
    /\ sent' = [sent EXCEPT ![c][s] = @ + 1]
    /\ UNCHANGED <<connectVars, ending, tunnelVars>>

PeerEnds(c, s) ==
    /\ stage[c] = "relay" /\ ending[c][s] = "open"
    /\ \E how \in {"eof", "reset"} : ending' = [ending EXCEPT ![c][s] = how]
    /\ UNCHANGED <<connectVars, sent, tunnelVars>>

-----------------------------------------------------------------------------
(* pipe(dst, src), with src the socket of s and dst that of Other(s) *)

PipeStart(c, s) ==
    /\ pipe[c][s] = "start"
    /\ Pipe(c, s, IF ctx[c] = "live" THEN "read" ELSE "done")
    /\ UNCHANGED <<connectVars, peerVars, got, fin, errs, ctx, waiter, why>>

\* A chunk is there; after a reset what was not read yet may still be.
ReadChunk(c, s) ==
    /\ pipe[c][s] = "read" /\ sock[c][s] = "open"
    /\ sent[c][s] > got[c][Other(s)]
    /\ Pipe(c, s, "write")
    /\ UNCHANGED <<connectVars, peerVars, got, fin, errs, ctx, waiter, why>>

\* Everything was read and the peer ended its stream: no error.
ReadEnd(c, s) ==
    /\ pipe[c][s] = "read" /\ sock[c][s] = "open"
    /\ ending[c][s] = "eof" /\ sent[c][s] = got[c][Other(s)]
    /\ Pipe(c, s, "shut")
    /\ UNCHANGED <<connectVars, peerVars, got, fin, errs, ctx, waiter, why>>

\* The peer of the socket in use has reset it: an error for errCh.
ConnFails(c, s) ==
    /\ \/ pipe[c][s] = "read"  /\ sock[c][s] = "open" /\ ending[c][s] = "reset"
       \/ pipe[c][s] = "write" /\ sock[c][Other(s)] = "open"
                               /\ ending[c][Other(s)] = "reset"
    /\ Pipe(c, s, "report")
    /\ UNCHANGED <<connectVars, peerVars, got, fin, errs, ctx, waiter, why>>

\* The handler has closed the socket in use: net.ErrClosed is not reported.
SockClosed(c, s) ==
    /\ \/ pipe[c][s] = "read"  /\ sock[c][s] = "closed"
       \/ pipe[c][s] = "write" /\ sock[c][Other(s)] = "closed"
    /\ Pipe(c, s, "shut")
    /\ UNCHANGED <<connectVars, peerVars, got, fin, errs, ctx, waiter, why>>

\* The peer's window has room.
WriteChunk(c, s) ==
    /\ pipe[c][s] = "write" /\ sock[c][Other(s)] = "open"
    /\ ending[c][Other(s)] # "reset"
    /\ got' = [got EXCEPT ![c][Other(s)] = @ + 1]
    /\ Pipe(c, s, "read")
    /\ UNCHANGED <<connectVars, peerVars, fin, errs, ctx, waiter, why>>

\* errCh has room for one error of each pipe.
Report(c, s) ==
    /\ pipe[c][s] = "report"
    /\ errs' = [errs EXCEPT ![c] = IF @ < 2 THEN @ + 1 ELSE @]
    /\ Pipe(c, s, "shut")
    /\ UNCHANGED <<connectVars, peerVars, got, fin, ctx, waiter, why>>

\* dst.CloseWrite, then the deferred wg.Done.
CloseWrite(c, s) ==
    /\ pipe[c][s] = "shut"
    /\ fin' = [fin EXCEPT ![c][Other(s)] = @ \/ sock[c][Other(s)] = "open"]
    /\ Pipe(c, s, "done")
    /\ UNCHANGED <<connectVars, peerVars, got, errs, ctx, waiter, why>>

-----------------------------------------------------------------------------
(* The waiting goroutine, the deadline and the handler *)

\* Mutation of Join: the group counts one pipe instead of two.
JoinFirst(c) ==
    /\ waiter[c] = "wait"
    /\ \E s \in Side : pipe[c][s] = "done"
    /\ waiter' = [waiter EXCEPT ![c] = "done"]
    /\ ctx' = [ctx EXCEPT ![c] = IF @ = "live" THEN "joined" ELSE @]
    /\ UNCHANGED <<connectVars, peerVars, got, fin, pipe, errs, why>>

\* wg.Wait, cancel.
Join(c) ==
    /\ waiter[c] = "wait"
    /\ \A s \in Side : pipe[c][s] = "done"
    /\ waiter' = [waiter EXCEPT ![c] = "done"]
    /\ ctx' = [ctx EXCEPT ![c] = IF @ = "live" THEN "joined" ELSE @]
    /\ UNCHANGED <<connectVars, peerVars, got, fin, pipe, errs, why>>

Deadline(c) ==
    /\ ctx[c] = "live"
    /\ ctx' = [ctx EXCEPT ![c] = "timeout"]
    /\ UNCHANGED <<connectVars, peerVars, got, fin, pipe, errs, waiter, why>>

\* Mutation of EndSelect: the select waits for errors only.
EndSelectOnError(c) ==
    /\ LeaveSelect(c)
    /\ errs[c] > 0
    /\ errs' = [errs EXCEPT ![c] = @ - 1]
    /\ why' = [why EXCEPT ![c] = "error"]
    /\ UNCHANGED <<peerVars, got, fin, pipe, ctx, waiter>>

EndSelect(c) ==
    /\ LeaveSelect(c)
    /\ \/ /\ errs[c] > 0
          /\ errs' = [errs EXCEPT ![c] = @ - 1]
          /\ why' = [why EXCEPT ![c] = "error"]
       \/ /\ ctx[c] # "live"
          /\ why' = [why EXCEPT ![c] = "ctx"]
          /\ UNCHANGED errs
    /\ UNCHANGED <<peerVars, got, fin, pipe, ctx, waiter>>

CloseClient(c) == CloseFirst(c) /\ UNCHANGED <<peerVars, tunnelVars>>

\* Mutation of CloseServer: it is left to the pipes.
CloseServerForgotten(c) ==
    /\ stage[c] = "close2"
    /\ Stage(c, "release")
    /\ ctx' = [ctx EXCEPT ![c] = IF @ = "live" THEN "left" ELSE @]
    /\ UNCHANGED <<sock, tokens, reqVars, peerVars, got, fin, pipe, errs, waiter, why>>

\* With the deferred cancel.
CloseServer(c) ==
    /\ CloseSecond(c)
    /\ ctx' = [ctx EXCEPT ![c] = IF @ = "live" THEN "left" ELSE @]
    /\ UNCHANGED <<peerVars, got, fin, pipe, errs, waiter, why>>

\* What a pipe does without the help of the peer it writes to.
PipeAlone(c, s) ==
    \/ PipeStart(c, s)
    \/ ReadChunk(c, s) \/ ReadEnd(c, s)
    \/ ConnFails(c, s) \/ SockClosed(c, s)
    \/ Report(c, s) \/ CloseWrite(c, s)

Step(c) ==
    \/ Approach(c) \/ EnterTunnel(c)
    \/ \E s \in Side :
          PeerSends(c, s) \/ PeerEnds(c, s) \/ PipeAlone(c, s) \/ WriteChunk(c, s)
    \/ Join(c) \/ Deadline(c)
    \/ EndSelect(c) \/ CloseClient(c) \/ CloseServer(c)

Next == \E c \in Conn : Step(c)

Spec == Init /\ [][Next]_vars

(***************************************************************************)
(* Fairness.  Goroutines run and the five-minute timer fires.  Nothing     *)
(* makes a peer send, end its stream or read, so a write may block until   *)
(* its socket is closed.  Before the tunnel only what follows it is fair:  *)
(* neither TLS handshake has a deadline.                                   *)
(***************************************************************************)
Fairness == \A c \in Conn :
    /\ WF_vars(EndSelect(c) \/ CloseClient(c) \/ CloseServer(c))
    /\ WF_vars(Release(c) /\ UNCHANGED <<peerVars, tunnelVars>>)
    /\ WF_vars(Deadline(c))
    /\ WF_vars(Join(c))
    /\ \A s \in Side : WF_vars(PipeAlone(c, s))

FairSpec == Spec /\ Fairness
-----------------------------------------------------------------------------
(* Properties *)

\* The stream of s has ended and was passed on to its end.
Whole(c, s) == ending[c][s] = "eof" /\ got[c][Other(s)] = sent[c][s]

WasReset(c) == \E s \in Side : ending[c][s] = "reset"

\* While the handler waits in tunnel, a peer sees the end of the stream only
\* after everything the other sent, unless one of the two was reset; and when
\* tunnel ends because both pipes are done and neither failed, everything that
\* either peer sent has been passed on.
NoSilentTruncation == \A c \in Conn, s \in Side :
    /\ stage[c] = "relay" /\ fin[c][Other(s)] => Whole(c, s) \/ WasReset(c)
    /\ ctx[c] = "joined" /\ why[c] = "ctx" /\ errs[c] = 0 => Whole(c, s)

\* Before its call nothing of a tunnel is there, and no pipe is afterwards if
\* there was no call.
NotYet(c) ==
    /\ stage[c] \notin {"relay", "close1", "close2", "release", "over"} =>
          /\ ctx[c] = "off" /\ waiter[c] = "off" /\ why[c] = "none" /\ errs[c] = 0
          /\ \A s \in Side : ~fin[c][s]
    /\ ctx[c] = "off" => \A s \in Side : pipe[c][s] = "off"

\* The handler, its context and the reason why it left its select agree.
Reasons(c) ==
    /\ stage[c] \in {"relay", "close1", "close2"} => ctx[c] # "off"
    /\ stage[c] = "relay" => why[c] = "none"
    /\ ctx[c] # "off" /\ why[c] = "none" => stage[c] = "relay"
    /\ why[c] = "ctx" => ctx[c] # "live"
    /\ ctx[c] = "joined" => \A s \in Side : pipe[c][s] = "done"

\* Why a pipe has stopped, as long as the handler is in its select.
StoppedInRelay(c, s) == stage[c] = "relay" =>
    /\ pipe[c][s] = "report" => WasReset(c)
    /\ pipe[c][s] = "shut" => Whole(c, s) \/ WasReset(c)
    /\ fin[c][Other(s)] => pipe[c][s] = "done" /\ (Whole(c, s) \/ WasReset(c))

\* Why a pipe has stopped, if neither the deadline nor the handler stopped it.
StoppedAlone(c, s) ==
    ctx[c] \in {"live", "joined"} /\ pipe[c][s] \in {"shut", "done"} =>
        Whole(c, s) \/ errs[c] > 0 \/ why[c] = "error"

\* With SocketsReleased, inductive; it implies NoSilentTruncation.
Sound(c) ==
    /\ NotYet(c) /\ Reasons(c)
    /\ \A s \in Side : StoppedInRelay(c, s) /\ StoppedAlone(c, s)

TunnelInv == TunnelTypeOK /\ \A c \in Conn : Sound(c)

\* A tunnel ends: by its pipes, an error or the deadline, even if a peer never
\* reads again; and the handler returns, which frees its slot.
TunnelEnds == \A c \in Conn : stage[c] = "relay" ~> stage[c] = "over"

\* After tunnel has returned neither a pipe nor the waiting goroutine is left
\* behind for long (proxy_test.go, TestTunnel_GoroutineLeak).
NoGoroutineLeft == \A c \in Conn :
    stage[c] = "release" ~> /\ waiter[c] # "wait"
                            /\ \A s \in Side : pipe[c][s] \in {"off", "done"}

\* The handler with its tunnel does nothing that handleConnect's stages do not
\* allow: module Connect is an abstraction of this one.
TunnelIsConnect == ConnectSpec
=============================================================================
