\* The table of rules of README.md, lines 214 to 218, against loader.go, line 120,
\* and verify.go, line 128.
SPECIFICATION Spec
CONSTANTS
    site = site  www = www  img = img  other = other  star = star
    None = None
    Host <- Names
    Wild = {star}
    Covers <- Covered
    Matches <- Covered
    Site <- SiteOf
    Plain = {site, www, img, other}
    Query <- Calls
INVARIANTS RuleTableHolds
\* One call.
CHECK_DEADLOCK FALSE
