\* One process after the other, and one crash; no download is followed in detail.
SPECIFICATION FetchSpec
CONSTANTS
    p1 = p1  p2 = p2
    None = None
    Proc = {p1}
    Command <- Both
    MaxVersion = 2
    MaxFaults = 1
    Detailed = {}
    MaxRedirects = 0
    MaxDropped = 0
INVARIANTS InstalledIsWhole
\* A broken binary starts no more.
CHECK_DEADLOCK FALSE
