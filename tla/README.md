# Snirect: specification, model checking and proofs

Snirect is a local HTTPS proxy. A browser sends it `CONNECT host:port`; the
proxy either relays the bytes untouched or terminates TLS itself, connects to
the server under another server name (SNI), verifies the server's certificate
by its own policy and relays the plain text between the two TLS sessions.
This directory specifies the parts of the program where something can go wrong
that a unit test would hardly reach, checks them with TLC on small instances
and proves the most important properties with TLAPS for every instance.

## Inventory

| Part | State | Operations | What makes it correct |
|---|---|---|---|
| DNS resolver (`internal/dns/resolver_base.go`, `resolver_preference.go`) | system-answer cache under `cacheMu`, preference cache under its own lock, clean-up goroutine, `stopChan` | `Resolve`, `Invalidate`, `Close`, the ten-minute sweep | an answer is served only for the name it was looked up for and only while its lease runs; reading renews nothing; both caches stay within their limit; what `Invalidate` deleted does not come back by itself; every call returns |
| DNS upstreams (`resolver_std.go`, `resolver_quic.go`) | one result channel per query | `exchangeParallel`, first success wins | a result is returned if any upstream succeeds before the deadline, no sender is left behind |
| CONNECT proxy (`internal/proxy/proxy.go`) | semaphore, two connections per client, two pipe goroutines, an error channel, a deadline | `handleConnect` and its stages, `directTunnel`, `tunnel` | no connection or slot is leaked on any exit; nothing is relayed to an unverified server; no bytes are lost when both sides end cleanly |
| Certificate verification (`internal/tlsutil/verify.go`, `internal/config/loader.go`) | none | `VerifyCert` under a policy | stricter settings never accept more |
| CA and leaf certificates (`internal/cert`) | CA files on disk, leaf cache (`sync.Map`), hourly clean-up goroutine | load or generate, `GetCertificate` | a CA that clients trust survives restarts as long as its files can be read; leaf and key belong together; no leaf is served long after its end |
| Upstream HTTP client (`internal/upstream/client.go`) | one connection per request, rate limiter | `Get`, `DownloadFile` | the connection is closed on every path |
| Update manager (`internal/update/manager.go`, `internal/config/update.go`) | mark file, downloaded binary, time stamps, `rules.toml` | check, download, mark, replace, restart | after any crash the installed binary is whole |
| Start-up and shutdown (`internal/cmd/run.go`, `internal/container`) | listener, the CA and the PAC setting of this process | start, signal, shut down | the system's PAC setting is undone by the process that set it; what is served is trusted |
| Trust store and system proxy (`internal/sysproxy`) | anchors and bundle of trusted certificates, or key chain; two proxy keys of the desktop | install, check, force, remove; `SetPAC`, `ClearPAC` | each external command may fail, and processes share all of it |
| Installation (`internal/app`) and the other commands (`internal/cmd`) | installed binary, service, directory of the application | `install`, `uninstall`, `install-cert`, `uninstall-cert`, `set-proxy`, `unset-proxy`, `update`, `fetch-rules`, `reset-config` | uninstalling leaves nothing behind that it could remove |
| Configuration, logger, interfaces | none that changes | parsing, output | not modelled |

How they interact: `handleConnect` calls the resolver (`Resolve`, then
`Invalidate` when the dial fails), the certificate manager (during the client's
handshake) and the verification. The update manager uses the upstream client,
which uses a resolver of its own. `run.go` builds all of them through the
container and closes resolver and certificate manager at exit. Several processes
of snirect may run at once (a service, a shell, `snirect update`); they share the
CA files, the trust store, the proxy setting, the port, `rules.toml` and the
update's files, and no file is ever locked.

## Modules

| Module | Models | Used by |
|---|---|---|
| `DnsTypes` | names, addresses, answers, the clock | the two caches |
| `DnsCache` | the system-answer cache of `resolver_base.go`: `getCache` in its two halves, `setCache`, the sweep, the first half of `Invalidate`, `cacheMu` | `Resolver` |
| `PreferenceCache` | `resolver_preference.go`: `get`, `set`, `invalidate`, eviction | `Resolver` |
| `Resolver` | goroutines in `Resolve` and `Invalidate`, the clean-up goroutine, `Close`, time | `MCResolver`, `ResolverProofs` |
| `Lookup` | the queries of `Resolver` in detail: `exchangeParallel`, `newBackend`, `queryDNS`, `resolveStandard` and `resolveFastest` with their goroutines, channels and contexts | `MCLookup`, `LookupProofs` |
| `TtlStore` | abstract: a bounded store of leases; what is given out was read while its lease ran | instantiated twice by `Resolver` |
| `CertPolicy` | `VerifyCert`, its helpers, and the policy it is given, as operators | `Connect`, `Verification` |
| `Verification` | one call of `VerifyCert` through `verifyCert` of the upstream client (the proxy's `verifyServerCert` is the same): which policy applies, and the verdict | `MCCertPolicy`, `VerificationProofs` |
| `Connect` | `handleConnect` in stages, the semaphore, the two sockets of each client; `tunnel` is a stage | `Tunnel`, `MCConnect` |
| `Tunnel` | `Connect` with the inside of `tunnel`: two pipes, the waiting goroutine, the deadline, `errCh`, the peers | `MCTunnel`, `ConnectProofs` |
| `SelfUpdate` | self-update and the rules: the first part of `run.go`, `cmd/update.go`, `cmd/fetch_rules.go`, `reset-config`, `update/manager.go`, `config/update.go`; several processes, crashes, failed file operations | `Fetch` |
| `Fetch` | `SelfUpdate` with the requests of its downloads: `upstream/client.go`'s `Get`, redirects, deferred closes | `MCSelfUpdate`, `SelfUpdateProofs` |
| `CertAuthority` | `NewCertificateManager` in several processes, file operation by file operation | `LeafCache`, `TrustStore`, `CertAuthorityProofs` |
| `LeafCache` | `GetCertificate`, `SignLeafCert` and the clean-up over `CertAuthority`, and time | `MCLeafCache`, `LeafCacheProofs` |
| `TrustStore` | the CA in the operating system's trust store, on four kinds of platform, over `CertAuthority` | `Host` |
| `SystemProxy` | the desktop's proxy setting, slot by slot | `Host` |
| `Host` | `runProxy` from the CA on and the commands beside it: composes `CertAuthority`, `TrustStore` and `SystemProxy` | `MCHost`, `HostProofs` |
| `MCResolver`, `MCLookup`, `MCCertPolicy`, `MCConnect`, `MCTunnel`, `MCSelfUpdate`, `MCLeafCache`, `MCHost` | small instances | the `.cfg` files |
| `ResolverProofs`, `LookupProofs`, `ConnectProofs` (with `Tunnel`), `SelfUpdateProofs` (with `Fetch`), `CertAuthorityProofs`, `LeafCacheProofs`, `HostProofs`, `VerificationProofs` | theorems and their proofs; a refinement's follow those of what it refines | |

### Resolver

`loc[p]` is the place in the code of goroutine `p`, with one place for every
point at which another goroutine can get in between: before and after each
critical section and while a query is out. `getCache` is two steps because it
drops its read lock before it takes the write lock that touches the entry.
`Invalidate` is three steps with `cacheMu` held across them, as in the code: the
deletions from the system-answer cache, the deletion of the preference, and the
unlock. The preference cache has a lock of its own, which each of its methods
holds from start to end; they call nothing inside it, so each is one step and the
lock is no variable. A method that took the two locks in the other order would
therefore not show in this model as a deadlock. The rules that rename a host are
the constant `HostRule`; `mode` is read from the configuration once; `host[p]` is what the caller asked for and `Target(p)`
the name the caches are keyed by. Upstream and system answers are chosen
nondeterministically; what `resolveFastest` does between asking and choosing is
one step. `via` is history: where the held answer came from.

### Lookup

`Lookup` extends `Resolver` and follows its queries. `ex[p][x]` is the exchange
of goroutine `p` for record type `x`: what each upstream's goroutine is doing or
has sent, the buffered channel `resCh`, whether the helper has closed it, and
whether the context has timed out. `look` and `found` are the two lookup
goroutines of `resolveFastest` and `lookupCh`; `gone[p]` says that the caller's
context has ended. A step of `Resolver` that stands for a query, such as
`QueryA`, is taken when the goroutines have come to that result (`Query`), so an
answer exists exactly when the exchange ended with records; `Fastest` further
asks that the chosen address is among those that were tested. Steps that make no
query are `Resolver`'s own. Goroutines that nobody waits for run on beside the
next exchange until they skip or send. `Close`, which lookups do not notice, is
left to the runs of `Resolver`. Only the goroutines in `Followed` are followed;
the others make each query in the one step that `Resolver` has for it.

### CONNECT handlers and tunnels

`stage[c]` is where the handler goroutine of connection `c` is, with a stage for
every call that can fail or block; each action is that call with all its
outcomes, and `GiveUp(c, sides)` is an early return that closes the sockets on
`sides`. `sock[c]` is the proxy's socket to the client and to the server,
`tokens` the length of the semaphore channel. The rules are constants:
`AlterRule` (SNI) and `VerifyRule` (certificate policy) per host. The name in
the client's hello is any name, so the SNI is chosen by another name's rule
while the certificate is judged under the rule for the host.

`Tunnel` replaces the stage "relay" by what goes on in it. `pipe[c][s]` is the
pipe goroutine that reads from side `s`; `sent`, `got`, `ending` and `fin` are
the streams, counted in chunks (one read and one write of `io.CopyBuffer`).
Closing a socket makes the pipe that uses it fail with `net.ErrClosed`, which is
not reported; a reset is. `ctx[c]` says which of its causes ended the context,
`why[c]` which branch of the select the handler took.

### Self-update

`pc[p]` is where process `p` is, with a place before every file operation, so
that a crash or another process can come between any two. `bin` and `dl` are the
installed binary and the downloaded one: release, completeness and mode.
`os.WriteFile` is two steps, truncation and end, because it writes in place; a
`Rename` moves the file from under a process that still writes it, which `out`
follows. `due` and `rulesDue` are the two time stamps read through
`ShouldCheckUpdate` and `ShouldCheckRules`. `Command` says which of `snirect run`,
`update`, `fetch-rules` and `reset-config` a process runs; they differ in whether
a time stamp is asked first, in which errors they look at and in where they
start (`First`). `fetch-rules` calls the same `FetchRules` as `run` and never
asks for the time stamp; `reset-config` overwrites `rules.toml` with the default
and stamps nothing. `faults` and `spoilt` are
history: how often something failed, and whether a download was begun over one
that is marked or in use, a failed chmod was ignored, or the rules were written
although they were not due or another process was writing them (`RulesTaken`);
the last is undone by a process that writes the file whole and alone. Whether the rules or a release are due is asked once, at
"rules" and "check"; the answer may be out of date by the time the download is
there ("rulesGet", "ask", "fetch"), because another process works on the same
files.

### Fetch

`Fetch` opens the steps "rulesGet", "ask" and "fetch" for the processes in
`Detailed`. `get[p]` is the process's current download: which call of `Get` or of
its caller comes next, how many redirects it has followed, how many responses a
deferred `Close` waits for, and how many connections are open. `downloadToMemory`
defers the close of every response it meets, so the connections of a chain of
redirects stay open until the download returns; `CloseBodies` is these deferred
calls. `dropped` counts the connections whose TLS handshake failed: `Get` returns
without closing them (client.go:142). The refined steps are `Refused` and
`Answered` of `SelfUpdate` with a condition more.

### CA and leaf certificates

`at[p]` is where process `p` is in `NewCertificateManager`, with a place before
every file operation; `certFile` and `keyFile` say whose certificate and key the
files hold. A file that is missing or does not hold a pair leads to "generate", a
read that fails on a file that is there (`ReadFails`) to "unread"; the code does
the same at both, and they are told apart only for `PairIsKept`. Creating a file
truncates it (`Cut`), and what is written to a file
that was removed meanwhile is lost. All CAs have the same subject, so they are
told apart by their key pair alone. `LeafCache` adds the cached leaf of one host
name (entries of other names do not touch it), the goroutines of handshakes, and
the clean-up in its two halves: it finds an expired entry, and deletes by key
what may be another one by then. A tick of its clock is an hour; the guards of
`Tick` say that the clean-up goroutine, and a goroutine between its miss and its
`Store`, are scheduled well within one.

### Host

`job[p]` is the step of process `p` in the command `cmd[p]`, one for each
external command or file operation. `platform` chooses between the two ways of
Linux, macOS and Windows. `anchor`, `stored` and `bundle` are the file among the
anchors, what `trust anchor` keeps, and what the system trusts; `pac` holds the
keys that make up the proxy setting. Commands of the system may fail, and
`Kill` is SIGTERM (which nothing handles), an interrupt before `signal.Notify`, a
panic or an early error. `server[p]` starts, listens or fails beside `job[p]`,
because runProxy waits 100 ms and then goes on whatever became of it. History:
`faults` counts failures, `mar[p]` notes what failed in `p` or was changed by
others while it ran, as far as a property asks for it, and `orphaned` says that
the proxy setting may have lost the process that would clear it.

## Runs

| Run | Instance | What it shows |
|---|---|---|
| `resolver_safety` | 2 goroutines, 3 hosts (two swapped by rules, one mapped to an address), caches of 1 entry, modes ipv4 and fastest | types and inductive invariant, limits, no answer under another name, no IPv6 in the preference cache, entries renewed by lookups only, what `Invalidate` deleted stays deleted until it unlocks or is stored anew, both caches implement `TtlStore` |
| `resolver_fastest` | `Lookup`: 2 goroutines, of which one is followed, 2 name servers, mode fastest, fairness | whoever waits for a result has a goroutine that will send one; a closed channel is not spun upon; a query fails only for a reason; no query outlives the call that made it; every call returns, whatever upstreams, timeouts and the caller's context do; expired entries are swept |
| `resolver_invalidate` (violation) | as the first, with name servers and IPv6 | `Invalidate(host)` leaves the address that failed, when a rule maps the host to another name |
| `resolver_ipv4_forced` (violation) | mode ipv4 | the system fallback gives an IPv6 address in mode ipv4 |
| `connect_slots` | 3 clients, 2 slots, 4 hosts with the four kinds of rule | slots and sockets are released on every exit; only vouched connections are relayed |
| `tunnel` | 1 client, up to 1 chunk each way, fairness | no stream is cut without a reset or the deadline; the tunnel and its goroutines end; refinement of `Connect` |
| `cert_policy` | every query of a small world of five names | tighter settings accept no more; strict is standard verification |
| `cert_rules` (violation) | the same | the README's table of `[cert_verify]` rules does not hold, neither for `true` nor for a rule that names a domain |
| `certs` | 2 processes, 3 key pairs, 2 handshakes each, failed reads and crashes anywhere | certificate and key match; leaves verify; a pair on disk is replaced only by a start that fails to read it; no leaf is served more than one clean-up period after its end |
| `host` | 2 processes, 2 key pairs, 1 fault, three groups of commands | what is served is trusted; the proxy setting has an owner and leads to a server; `uninstall` leaves nothing when nothing of it fails |
| `self_update` | `Fetch`: `snirect run`, with each request followed, beside `snirect update`, `fetch-rules` and `reset-config`, 1 new release, 1 fault, fairness | the installed binary breaks only through overlapping downloads or an ignored chmod; a cut `rules.toml` is fetched again, unless it was written under a fresh time stamp or by two at once; no connection is lost but by a failed handshake; downloads return; a release gets installed |
| `self_update_pending` (violation) | 1 process after the other, 1 crash | an interrupted second `snirect update` leaves a cut file under the first one's mark; the next start installs it |

The bounds. Two goroutines are enough for the resolver: every property is about
one goroutine and one other that changes what it read. Caches of one entry make
every store evict. Clock values 0 to 2 with TTLs 0 to 2 reach entries that are
live, that expire at the moment they are looked at, and expired. Three clients
with two slots put one client in the queue. One chunk each way lets an end of
stream overtake a chunk, if the code let it; connections share nothing but the
semaphore, so one is enough for the tunnel. One fault is
a crash or a failed operation at any place; two processes are enough for one to
overwrite what the other wrote, marked or is about to rename. The proofs need
none of these bounds.

In `resolver_fastest` two name servers give every order of two results, of an
error before a reply and of a reply that nobody reads. Only the A exchange is
followed server by server: the AAAA exchange is the same code on a channel of its
own, and ends in any of its results at any time. The second goroutine
stores what the first one reads and invalidates while the first one looks up; it
looks up by itself while the first one does not (`MaxAsked`), because two lookups
at once are the business of `resolver_safety`. The unit of the clock is longer than a
lease there, because leases are the business of `resolver_safety`. In `certs`
three pairs let a pair be replaced by another process while a third one is being
generated; a validity of one tick and three ticks reach certificates that are
fresh, at their end, and past it. In `host` each group puts one command beside
one instance: (1) everything that touches the CA or the trust store beside an
instance that installs its CA; (2) the commands of the proxy setting, and a
second instance, beside an instance with or without it; (3) `install` and
`uninstall` beside an instance that sets the proxy. Each group runs on the
platforms that differ in what it touches. In `self_update` the first process runs
`snirect run` and the second one of the other three commands at a time: through
`fetch-rules` it writes and stamps the same files as a second `snirect run` would,
between the first one's question and its write. Two `snirect run` with their
liveness are too many states for a run; the proofs hold for any commands in any
number of processes. One redirect and one failed handshake
let a download leave connections of both kinds open.
`CHECK_DEADLOCK FALSE` is said where a run ends because every connection or call
of the instance is over.

### Fairness

Resolver: goroutines in `Resolve` keep running; the competition for `cacheMu` is
strong fairness because Go's mutex goes to a waiter that has starved for it. The
sweep's ticker fires again and again. Callers and `Close` are not fair.

Lookup: goroutines run, each upstream's `Exchange` has a deadline of its own, and
a `select` whose cases stay ready takes each of them some time (Go chooses at
random). Nothing asks the caller's context to end or the timeout to fire.

Tunnel: goroutines run and the five-minute timer fires. Peers owe nothing: they
need not send, end, or read, so `WriteChunk` is not fair and a pipe may stay in
a write until its socket is closed. A TLS `CloseWrite` or `Close` that finds a
peer not reading ends by the five-second write deadline of `crypto/tls`. The
stages before the tunnel are not fair either: neither TLS handshake has a
deadline, so a silent client keeps its slot. That is why the liveness properties
start at "relay" and at "release".

Self-update: processes run; the operator starts `snirect run` again and again, as
the log asks ("Restart to apply"); the check interval runs out; the network does
not fail for ever, and a server that answers again and again has the release at
last, which is strong fairness because useless answers lie between. Each call of
the network returns; the code gives a deadline to `Dial` alone, so this is an
assumption about upstreams, without which `snirect run` may wait for its update
check before it serves. Nobody has to run `snirect update`.

`certs` and `host` have no liveness properties and no fairness.

## Proofs

TLAPS checks these for every value of the constants that satisfies the
`ASSUME`s (finitely many connections, rules that map names to names, and the
like).

* **Resolver** (`ResolverProofs`): `IInv` is inductive: types, `HeldInv` (what
  each place in the code says about the held answer), `LockInv` (who holds
  `cacheMu`, and that what it deleted stays deleted), both limits and
  `AnswersOwnTarget`. `HeldInv` is needed because a store is right only if the
  answer held was looked up under the same name; `LockInv` because the deletions
  in the first step of `Invalidate` must last until the third. From it follow
  `PreferenceFamily` (an invariant of its own), the action properties
  `LeaseOnlyFromLookup` and `InvalidatedUnlessStored`, and that both caches
  implement `TtlStore`, step by step. `InvalidatedUnlessStored` promises less of
  the preference cache than of the other, because `cacheMu` does not cover it:
  a host may be back there before `Invalidate` returns, with an answer that was
  fetched for it and is stored after the deletion.
* **CONNECT** (`ConnectProofs`): `IInv`, the types with `SlotsMatch`,
  `SocketsReleased` and `RelayedOnlyIfVouched`, is inductive. `SlotsMatch` counts
  the running handlers, so each step adds one to that set, removes one or leaves
  it. `RelayedOnlyIfVouched` rests on `AcceptedIsVouched`: what `VerifyCert`
  accepts satisfies a definition of "right certificate" written without its order
  of tests.
* **Tunnel** (`ConnectProofs`): `Spec => ConnectSpec`, so all of the above holds of
  tunnels too; and `NoSilentTruncation` by `TunnelInv`. It says why a pipe has
  stopped: `StoppedInRelay` while the handler is in its select, `StoppedAlone` as
  long as neither the deadline nor the handler stopped it. A socket that is found
  closed can be neither, which takes `SocketsReleased` (sockets are open in the
  select) and `Reasons` (the select left for the context, so the context had
  ended). The proof is one connection at a time: `Elsewhere` says that a step of
  one connection leaves the others alone.
* **Self-update** (`SelfUpdateProofs`): `IInv` is inductive. While nothing is
  spoilt, `DownloadsTakeTurns` says that one process at a time is between
  truncation and mark, and none while a mark stands or somebody is about to
  rename; `DownloadsReady` says what the downloaded file is at each of these
  places. Together they make the file that `Rename` installs usable. `RulesInv`
  does the same for `rules.toml` and its time stamp. `UsableUnlessSpoilt` and
  `RulesAreRefetched` follow. What a process decided at "rules" may be stale
  when it writes, and `fetch-rules` and `reset-config` decide nothing: where the
  rules are not due, or another process writes them, this is noted in `spoilt`,
  and `RulesInv` promises nothing until a process has written them whole and
  alone.
* **Fetch** (`SelfUpdateProofs`): `FetchSpec => Spec` of `SelfUpdate`, step by step, so
  the above holds with downloads in detail. `ConnsReleased` by counting
  (`SocketsCounted`): each open connection waits for a deferred close, was
  dropped by a failed handshake, or belongs to the request under way; when a
  download returns there is no such request and the deferred calls have run.
* **CA and leaves** (`LeafCacheProofs`): `IInv` adds `LeafUse` to the types,
  `SigningKeyMatches` and `LeafVerifies`: only a process that is "ready" has a
  cached leaf or a handshake under way, and from "createCert" on it has a root.
  Without it a leaf that outlives its process's pair would be conceivable.
  `LeafServedInTime` needs `TimeInv`: the clean-up is never later than its
  period, a cached leaf is younger than the last clean-up or about to be deleted
  by it, and a goroutine stores a leaf in the tick in which it signed it.
* **The CA by itself** (`CertAuthorityProofs`): what its steps keep, for
  `LeafCache` and `Host` to build on. `SigningKeyMatches` holds because `LoadCA`
  compares what it read with what it reads now, whatever others do to the files
  in between. `PairIsKept` is an action property of any state, from `Settled`
  alone: a step gives a settled pair up only where it fails to read a file of it
  (`ReadFailed`).
* **Lookup** (`LookupProofs`): `LookupSpec => Spec` of `Resolver`, so every safety
  theorem of `ResolverProofs` holds of the lookups with their goroutines. Its own
  invariant says where an exchange can be under way (`PlaceInv`), that `lookupCh`
  holds one entry for each goroutine that sent (`FoundInv`), that a goroutine
  leaves without sending only when the caller has gone, and what a channel
  holds (`ChannelInv`): each result in the buffer is some server's, a reply is
  still there, and while the receiver loops it has taken out fewer results than
  there are servers. So once the channel is closed and empty, some server was
  skipped, which needs a context that is done. The same counts give `NoLostWakeup`:
  what has not been received is in the buffer or still to be sent. Counting takes finitely many
  upstreams, as a list in a file has (`LookupAssumption`).
* **Host** (`HostProofs`): `HostInv` is inductive, for any number of processes that
  run any commands beside each other, any of which fail or are killed. `JobInv` ties the
  step of a process to its command; `TrustInv` says what a process knows of
  `root.crt` between its reads and writes as long as nothing is noted of others
  (that the file is what it has seen, truncated, or its own certificate);
  `OwnedInv` says slot by slot who is going to clear the proxy setting, because
  `ClearPAC` may stop between two slots; `UsedInv` and `UninstallInv` say how far
  `SetPAC` and `uninstall` have come. The proof goes by frames: `Frame(p)` says
  that a step of `p` leaves the part of every other process alone or is noted in
  its `mar`, so each action is looked at for its own process only (`Kept`). TLC
  checked `HostInv` on the scenarios of the run `host` before it was proved.
  Further, every command touches the CA as `CertAuthority` says or is an
  uninstall that removes the files, so certificate and key match even then, and
  nothing but an uninstall and a failed read gives up a settled pair.
* **Verification** (`VerificationProofs`): `SettingsOnlyTighten` and
  `StrictIsStandard` for all names, certificates, rules and settings. Nothing is
  assumed of the relations that libraries compute, with one exception: that a
  plain name, to which a connection can be made, matches itself as a pattern
  (`PlainAssumption`). Without it `allowed_strict` could accept what the default
  refuses: a name that begins with `$`, `#` or `^` equals itself and matches
  nothing.

Only model-checked: the liveness properties (`ResolveReturns`, `ExpiredIsSwept`,
`TunnelEnds`, `NoGoroutineLeft`, `ReleaseArrives`, `DownloadReturns`), because
the prover cannot reason about ENABLED, and the four violations. Every safety
and action property of the passing runs has its theorem.

## Findings

1. `Invalidate` misses hosts that a rule renames (`resolver_invalidate`).
2. Mode ipv4 can give IPv6 addresses (`resolver_ipv4_forced`).
3. A `[cert_verify]` rule `true` is strict, not loose (`cert_rules`).
4. A `[cert_verify]` rule that names domains is matched against the host
   (`cert_rules`).
5. An interrupted second `snirect update` can replace the installed binary by a
   truncated one (`self_update_pending`).

`PROJECT.json` quotes the lines on both sides.

Worth knowing:

* SIGTERM, with which systemd stops the service, runs no deferred call: the PAC
  setting stays. A second instance that cannot listen clears the setting of the
  first. The premises of `NoOrphanedProxy` and `ServedIsUsed` name both cases.
* `uninstall` cannot remove what `trust anchor --store` keeps, although the help
  text of `uninstall-cert`, which removes the CA in the same way, lists the trust
  store among what it cleans (`cmd/setup.go:176`). It erases the CA files even if
  removing the CA from the trust store failed; a second try no longer finds it.
  And it only warns if its directory cannot be removed. The premises of
  `UninstallIsComplete` name these cases.
* Every error of reading one of the two CA files generates a new pair over the old
  ones (`cert_manager.go:35-46`), also where the files are intact and only cannot
  be read now (permissions, I/O, too many open files): users then trust a CA that
  is gone. `PairIsKept` names this case.
* `fetch-rules` and `reset-config` that are interrupted while `rules.toml` is being
  written, under a fresh time stamp, leave the file cut, and the next start does
  not fetch it again before the interval runs out. `RulesAreRefetched` names this
  case.
* `Get` loses the connection whose TLS handshake fails; `ConnsReleased` counts
  these apart. It sets no deadline for reading.
* With port 0 the server's goroutine writes the port it got into the
  configuration that runProxy reads without synchronisation.

## Not modelled, and the plan

Left out for good: parsing of the configuration, logging, the text of service
files and calls of service managers, the commands that only print or edit
`config.toml`,
`proxy/state.go`, the client's `DownloadFile` and `convertAndInstallRules`
(called by nothing) and the QUIC adapter (one third-party call). TLS itself,
`io.Copy`, chain building and the DNS library are libraries; so are pattern
matching and the rules' lookup, which come from the shared module. In the tunnel
the abrupt end of a TCP stream without a TLS close alert counts as an end of
stream, as `crypto/tls` reports it.

Left out of modelled parts: the plain HTTP handlers of the proxy, which only
write answers; the rate limiter, which only sleeps; the comparison of version
strings, the formats of `rules.toml` and the update on Windows, where nothing is
renamed; the Firefox profiles, which have a command of their own and
which `uninstall` leaves alone; desktops without a tool for the proxy setting.

What is left of the plan: the invariants of `Lookup` say nothing of `Close`,
which it leaves to `Resolver`; and what the two caches answer is proved against
`TtlStore`, but not that an answer was ever an upstream's, which needs a history
of replies that the model does not keep.
