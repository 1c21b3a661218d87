---------------------------- MODULE Verification ----------------------------
(***************************************************************************)
(* One call of VerifyCert, for whatever the server presented and whatever  *)
(* rule, setting and [security] section are in force.                      *)
(***************************************************************************)
EXTENDS CertPolicy

CONSTANTS
    Plain,  \* the names that a connection can be made to
    Query   \* bound: what VerifyCert is called with

\* A name with no operator of a pattern in it matches itself (match_test.go,
\* line 16); "$example.com" does not (line 96).
ASSUME PlainAssumption ==
    Plain \subseteq Host /\ \A n \in Plain : <<n, n>> \in Matches

ASSUME QueryAssumption ==
    Query \subseteq [cert : Certificate \cup {None}, host : Plain,
                     sni : Host \cup {None},
                     source : (CertRule \cup {None}) \X Setting, sec : Security]

VARIABLES
    query,      \* what VerifyCert is called with
    verdict     \* "none" before the call, then "accepted" or "rejected"

Init == query \in Query /\ verdict = "none"

PolicyUsed == PolicyFor(query.source[1], query.source[2])

Accepts(policy, sec) ==
    VerifyCert(query.cert, query.host, query.sni, policy, sec, FALSE)

Next ==
    /\ verdict = "none"
    /\ verdict' = IF Accepts(PolicyUsed, query.sec) THEN "accepted" ELSE "rejected"
    /\ UNCHANGED query

Spec == Init /\ [][Next]_<<query, verdict>>
-----------------------------------------------------------------------------
LooserSecurity(sec) ==
    {[sec EXCEPT !.checkValidity = FALSE], [sec EXCEPT !.validateChain = FALSE],
     [sec EXCEPT !.checkEKU = FALSE], [sec EXCEPT !.allowedStrict = FALSE]}
    \cup {[sec EXCEPT !.minChainLength = m] : m \in 0 .. sec.minChainLength}

LooserPolicies(policy) ==
    {[policy EXCEPT !.enabled = FALSE], [policy EXCEPT !.strict = FALSE]}
    \cup IF policy.allowed = {} THEN {}
         ELSE {[policy EXCEPT !.allowed = @ \cup {n}] : n \in Host}

\* Each setting of [security] and each step from "strict" over true to false,
\* or to a longer list, only lets more certificates through: what VerifyCert
\* accepts it accepts with any one setting made looser.
SettingsOnlyTighten ==
    verdict = "accepted" =>
        /\ \A s \in LooserSecurity(query.sec) : Accepts(PolicyUsed, s)
        /\ \A p \in LooserPolicies(PolicyUsed) : Accepts(p, query.sec)

\* "strict" is standard verification (config.toml, line 10): a certificate of
\* a sibling in the same site is not enough, for the host or for the name sent.
StrictIsStandard ==
    verdict = "accepted" /\ PolicyUsed.strict /\ PolicyUsed.allowed = {} =>
        \E n \in {query.host, query.sni} \ {None}, d \in Presented(query.cert) :
            <<d, n>> \in Covers \/ (n \in Wild /\ <<n, d>> \in Matches)
=============================================================================
