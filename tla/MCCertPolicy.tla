---------------------------- MODULE MCCertPolicy ----------------------------
(***************************************************************************)
(* VerifyCert over a small world of names: www.a, img.a and their site a,  *)
(* another site, and *.a as a name in a certificate and as a pattern.      *)
(***************************************************************************)
EXTENDS Verification, TLC

CONSTANTS site, www, img, other, star

Names  == {site, www, img, other, star}
Covered == {<<n, n>> : n \in Names} \cup {<<star, www>>, <<star, img>>}
SiteOf == [n \in Names |-> IF n = other THEN other ELSE site]

Good(names, cn) == [names |-> names, cn |-> cn, inTime |-> TRUE,
                    trusted |-> TRUE, eku |-> "server", length |-> 2]

\* Certificates with at most one fault.
Certs == {None} \cup UNION
    {LET g == Good(names, cn)
     IN  {g, [g EXCEPT !.inTime = FALSE], [g EXCEPT !.trusted = FALSE],
          [g EXCEPT !.eku = "none"], [g EXCEPT !.eku = "other"],
          [g EXCEPT !.length = 1]} :
        names \in {{}, {www}, {img}, {star}, {other}, {other, site}},
        cn \in {None, www}}

Keyword(k) == [kind |-> k, names |-> {}]
List(names) == [kind |-> "names", names |-> names]

\* <<the host's rule, the global setting>>
Sources ==
    {<<None, s>> : s \in {Keyword(k) : k \in {"false", "true", "strict", "absent"}}
                         \cup {List({www}), List({star})}}
    \cup {<<[verify |-> TRUE, allow |-> a], Keyword("strict")>> :
            a \in {{}, {other}, {star}}}
    \cup {<<[verify |-> FALSE, allow |-> {}], Keyword("strict")>>}

Secs == [checkValidity : BOOLEAN, validateChain : BOOLEAN, checkEKU : BOOLEAN,
         allowedStrict : BOOLEAN, minChainLength : {1, 2}]

Calls ==
    [cert : Certs, host : {www, img}, sni : {None, www, other, star},
     source : Sources, sec : Secs]

-----------------------------------------------------------------------------
\* README.md, line 216: a host's rule `true` asks for loose verification, which
\* matches subdomains, whatever the global setting is.
RuleTrueIsLoose ==
    LET loose == [enabled |-> TRUE, strict |-> FALSE, allowed |-> {}]
    IN  query.source[1] = [verify |-> TRUE, allow |-> {}] /\ verdict # "none" =>
            (verdict = "accepted" <=> Accepts(loose, query.sec))

\* README.md, line 217: a host's rule that names a domain asks for the
\* certificate of that domain.
RuleNamesCertificate ==
    LET rule == query.source[1]
    IN  verdict = "accepted" /\ rule # None /\ rule.allow # {} =>
            \E p \in rule.allow, d \in Presented(query.cert) :
                <<d, p>> \in Covers \/ <<p, d>> \in Matches

\* README.md, lines 214 to 218: what the table says of a rule in [cert_verify].
\* Each half fails by itself.
RuleTableHolds == RuleTrueIsLoose /\ RuleNamesCertificate
=============================================================================
