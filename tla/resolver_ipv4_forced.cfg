\* Mode ipv4 with IPv6 on.
SPECIFICATION Spec
CONSTANTS
    a = a  b = b  c = c  v4 = v4  w4 = w4  v6 = v6  p1 = p1  p2 = p2
    None = None
    Name = {a, b, c}
    IP4 = {v4}
    IP6 = {v6}
    Proc = {p1, p2}
    MaxNow = 2
    DNSCacheSize = 1
    DefaultLimit = 3
    MinTTL = 1
    MaxTTL = 2
    PrefCacheSize = 1
    CacheTTL = 0
    DefaultPrefTTL = 1
    HostRule <- SwappedHosts
    HasBackend = TRUE
    IPv6 = TRUE
    Modes = {"ipv4"}
    SystemTTL = 2
    DnsTTL = {0, 1}
SYMMETRY Symmetry
INVARIANTS Ipv4ModeForcesIpv4
