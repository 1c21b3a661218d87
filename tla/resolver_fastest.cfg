\* Fastest mode with two name servers and IPv6, every goroutine of a lookup.  One
\* unit of the clock is longer than a lease: an answer has expired at the next tick.
SPECIFICATION LookupSpec
CONSTANTS
    a = a  c = c  v4 = v4  w4 = w4  v6 = v6  p1 = p1  p2 = p2
    u1 = u1  u2 = u2
    None = None
    Name = {a, c}
    IP4 = {v4}
    IP6 = {v6}
    Proc = {p1, p2}
    Followed = {p1}
    MaxAsked = 1
    Detailed = {"A"}
    Upstream = {u1, u2}
    MaxTestIPs = 1
    MaxNow = 1
    DNSCacheSize = 1
    DefaultLimit = 3
    MinTTL = 0
    MaxTTL = 2
    PrefCacheSize = 1
    CacheTTL = 0
    DefaultPrefTTL = 1
    HostRule <- OneRule
    HasBackend = TRUE
    IPv6 = TRUE
    Modes = {"fastest"}
    SystemTTL = 0
    DnsTTL = {0}
INVARIANTS LookupTypeOK NoLostWakeup ReceiverCanReturn
PROPERTIES FailsOnlyForAReason ResolveReturns ExpiredIsSwept
