\* Every certificate, rule, setting and [security] section of the small world.
SPECIFICATION Spec
CONSTANTS
    site = site  www = www  img = img  other = other  star = star
    None = None
    Host <- Names
    Wild = {star}
    Covers <- Covered
    Matches <- Covered
    Site <- SiteOf
    Plain = {site, www, img, other}
    Query <- Calls
INVARIANTS SettingsOnlyTighten StrictIsStandard
\* One call.
CHECK_DEADLOCK FALSE
