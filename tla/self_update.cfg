\* `snirect run` beside update, fetch-rules and reset-config; one release, one fault.
SPECIFICATION FetchSpec
CONSTANTS
    p1 = p1  p2 = p2
    None = None
    Proc = {p1, p2}
    Command <- RunBesideOthers
    MaxVersion = 2
    MaxFaults = 1
    Detailed = {p1}
    MaxRedirects = 1
    MaxDropped = 1
INVARIANTS IInv UsableUnlessSpoilt RulesAreRefetched ConnsReleased
PROPERTIES ReleaseArrives DownloadReturns
\* A broken binary starts no more.
CHECK_DEADLOCK FALSE
