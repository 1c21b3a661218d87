\* Three clients and two slots; every kind of rule.
SPECIFICATION ConnectSpec
CONSTANTS
    c1 = c1  c2 = c2  c3 = c3
    blocked = blocked  front = front  plain = plain  bare = bare
    None = None  Keep = Keep  Strip = Strip
    Conn = {c1, c2, c3}
    Host = {blocked, front, plain, bare}
    Wild = {}
    Covers <- Itself
    Matches <- Itself
    Site <- OwnSite
    MaxConns = 2
    AlterRule <- HostAlter
    VerifyRule <- HostVerify
    CheckHostname <- Strict
    Sec <- Defaults
    SkipVerify = FALSE
    Presentable <- Certs
SYMMETRY Symmetry
INVARIANTS IInv SlotsMatch SocketsReleased RelayedOnlyIfVouched
\* Each connection carries one request and ends.
CHECK_DEADLOCK FALSE
