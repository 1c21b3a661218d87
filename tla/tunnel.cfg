\* One client, every kind of rule; each peer sends up to one chunk.
SPECIFICATION FairSpec
CONSTANTS
    c1 = c1  c2 = c2  c3 = c3
    blocked = blocked  front = front  plain = plain  bare = bare
    None = None  Keep = Keep  Strip = Strip
    Conn = {c1}
    Chunks = 1
    Host = {blocked, front, plain, bare}
    Wild = {}
    Covers <- Itself
    Matches <- Itself
    Site <- OwnSite
    MaxConns = 0
    AlterRule <- HostAlter
    VerifyRule <- HostVerify
    CheckHostname <- Strict
    Sec <- Defaults
    SkipVerify = FALSE
    Presentable <- Certs
INVARIANTS NoSilentTruncation
PROPERTIES TunnelIsConnect TunnelEnds NoGoroutineLeft
\* Each connection carries one request and ends.
CHECK_DEADLOCK FALSE
