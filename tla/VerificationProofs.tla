-------------------------- MODULE VerificationProofs --------------------------
(* What VerifyCert accepts, for all names, certificates, rules and settings, *)
(* whatever the libraries' three relations between names are.                *)
EXTENDS Verification, TLAPS

USE CertPolicyAssumption, PlainAssumption, QueryAssumption

\* What VerifyCert is called with, and what it answered, belong together.
CallInv ==
    /\ query \in Query
    /\ verdict = "accepted" => Accepts(PolicyUsed, query.sec)

LEMMA PolicyType ==
    ASSUME NEW rule \in CertRule \cup {None}, NEW setting \in Setting
    PROVE  PolicyFor(rule, setting) \in Policy
BY DEF PolicyFor, CertRule, Setting, Policy, ToLocalCertPolicy, ParseCertPolicy

\* No rule and no setting gives a policy that is strict and switched off.
LEMMA StrictIsEnabled ==
    ASSUME NEW rule \in CertRule \cup {None}, NEW setting \in Setting,
           PolicyFor(rule, setting).strict
    PROVE  PolicyFor(rule, setting).enabled
BY DEF PolicyFor, CertRule, Setting, Policy, ToLocalCertPolicy, ParseCertPolicy

\* A certificate passes the tests before the names with any of them relaxed.
LEMMA LooserSecurityAccepts ==
    ASSUME NEW cert \in Certificate \cup {None}, NEW host \in Plain,
           NEW sni \in Host \cup {None}, NEW policy \in Policy, NEW sec \in Security,
           VerifyCert(cert, host, sni, policy, sec, FALSE),
           NEW looser \in LooserSecurity(sec)
    PROVE  VerifyCert(cert, host, sni, policy, looser, FALSE)
<1> DEFINE Looser(l) ==
      /\ l.checkValidity => sec.checkValidity
      /\ l.validateChain => sec.validateChain
      /\ l.checkEKU => sec.checkEKU
      /\ l.allowedStrict => sec.allowedStrict
      /\ l.minChainLength <= sec.minChainLength
<1>1. looser \in Security /\ Looser(looser)
  <2>1. sec.minChainLength \in Nat  BY DEF Security
  <2>2. CASE looser = [sec EXCEPT !.checkValidity = FALSE]
    <3>1. /\ looser \in Security /\ looser.checkValidity = FALSE
          /\ looser.validateChain = sec.validateChain /\ looser.checkEKU = sec.checkEKU
          /\ looser.allowedStrict = sec.allowedStrict /\ looser.minChainLength = sec.minChainLength
      BY <2>2 DEF Security
    <3> QED BY <2>1, <3>1
  <2>3. CASE looser = [sec EXCEPT !.validateChain = FALSE]
    <3>1. /\ looser \in Security /\ looser.validateChain = FALSE
          /\ looser.checkValidity = sec.checkValidity /\ looser.checkEKU = sec.checkEKU
          /\ looser.allowedStrict = sec.allowedStrict /\ looser.minChainLength = sec.minChainLength
      BY <2>3 DEF Security
    <3> QED BY <2>1, <3>1
  <2>4. CASE looser = [sec EXCEPT !.checkEKU = FALSE]
    <3>1. /\ looser \in Security /\ looser.checkEKU = FALSE
          /\ looser.checkValidity = sec.checkValidity /\ looser.validateChain = sec.validateChain
          /\ looser.allowedStrict = sec.allowedStrict /\ looser.minChainLength = sec.minChainLength
      BY <2>4 DEF Security
    <3> QED BY <2>1, <3>1
  <2>5. CASE looser = [sec EXCEPT !.allowedStrict = FALSE]
    <3>1. /\ looser \in Security /\ looser.allowedStrict = FALSE
          /\ looser.checkValidity = sec.checkValidity /\ looser.validateChain = sec.validateChain
          /\ looser.checkEKU = sec.checkEKU /\ looser.minChainLength = sec.minChainLength
      BY <2>5 DEF Security
    <3> QED BY <2>1, <3>1
  <2>6. ASSUME NEW m \in 0 .. sec.minChainLength,
               looser = [sec EXCEPT !.minChainLength = m]
        PROVE  looser \in Security /\ Looser(looser)
    <3>1. m \in Nat /\ m <= sec.minChainLength  BY <2>1
    <3> QED BY <2>1, <2>6, <3>1 DEF Security
  <2> QED BY <2>2, <2>3, <2>4, <2>5, <2>6 DEF LooserSecurity
<1>2. CASE ~policy.enabled
  BY <1>2 DEF VerifyCert
<1>3. CASE policy.enabled
  <2>1. /\ cert \in Certificate
        /\ sec.checkValidity => cert.inTime
        /\ sec.validateChain => VerifyCertificateChain(cert, sec)
        /\ sec.checkEKU => HasServerAuthEKU(cert)
    BY <1>3 DEF VerifyCert
  <2>2. looser.validateChain => VerifyCertificateChain(cert, looser)
    BY <1>1, <2>1 DEF VerifyCertificateChain, Certificate, Security
  <2>3. \A p \in policy.allowed :
           MatchAllowedPattern(p, host, sec.allowedStrict)
               => MatchAllowedPattern(p, host, looser.allowedStrict)
    BY <1>1 DEF MatchAllowedPattern
  <2>4. IF policy.allowed # {}
          THEN \E p \in policy.allowed : MatchAllowedPattern(p, host, looser.allowedStrict)
          ELSE \/ MatchHostname(cert, host, policy)
               \/ sni # None /\ sni # host /\ MatchHostname(cert, sni, policy)
    BY <1>3, <2>3 DEF VerifyCert
  <2> QED BY <1>1, <1>3, <2>1, <2>2, <2>4 DEF VerifyCert
<1> QED BY <1>2, <1>3

\* The names agree under any looser policy.
LEMMA LooserPolicyAccepts ==
    ASSUME NEW cert \in Certificate \cup {None}, NEW host \in Plain,
           NEW sni \in Host \cup {None}, NEW policy \in Policy, NEW sec \in Security,
           VerifyCert(cert, host, sni, policy, sec, FALSE),
           NEW looser \in LooserPolicies(policy)
    PROVE  VerifyCert(cert, host, sni, looser, sec, FALSE)
<1>1. /\ looser.enabled => policy.enabled
      /\ looser.strict => policy.strict
      /\ policy.allowed \subseteq looser.allowed
      /\ policy.allowed = {} => looser.allowed = {}
  BY DEF LooserPolicies, Policy
<1>2. CASE ~looser.enabled
  BY <1>2 DEF VerifyCert
<1>3. CASE looser.enabled
  <2>1. \A n : MatchHostname(cert, n, policy) => MatchHostname(cert, n, looser)
    BY <1>1 DEF MatchHostname
  <2> QED BY <1>1, <1>3, <2>1 DEF VerifyCert
<1> QED BY <1>2, <1>3

LEMMA CallInvariant == Spec => []CallInv
<1>1. Init => CallInv  BY DEF Init, CallInv
<1>2. CallInv /\ [Next]_<<query, verdict>> => CallInv'
  BY DEF CallInv, Next, Accepts, PolicyUsed
<1> QED BY <1>1, <1>2, PTL DEF Spec

LEMMA CallTypes ==
    ASSUME CallInv
    PROVE  /\ query.cert \in Certificate \cup {None} /\ query.host \in Plain
           /\ query.sni \in Host \cup {None} /\ query.sec \in Security
           /\ query.source[1] \in CertRule \cup {None} /\ query.source[2] \in Setting
           /\ PolicyUsed \in Policy
<1>1. /\ query.cert \in Certificate \cup {None} /\ query.host \in Plain
      /\ query.sni \in Host \cup {None} /\ query.sec \in Security
      /\ query.source \in (CertRule \cup {None}) \X Setting
  BY DEF CallInv
<1> QED BY <1>1, PolicyType DEF PolicyUsed

\* VerifyCert with its five tests and early returns: no setting of [security],
\* no step from "strict" over true to false and no longer list of names ever
\* refuses a certificate that was accepted without it.
THEOREM TighterAcceptsLess == Spec => []SettingsOnlyTighten
<1>1. CallInv => SettingsOnlyTighten
  BY CallTypes, LooserSecurityAccepts, LooserPolicyAccepts
     DEF CallInv, SettingsOnlyTighten, Accepts
<1> QED BY <1>1, CallInvariant, PTL

\* MatchHostname under a strict policy, and PolicyFor, which never gives one
\* that is strict and not enabled: accepted is only who presents a name that
\* covers the host, or the server name that was sent.
THEOREM StrictAcceptsStandard == Spec => []StrictIsStandard
<1>1. CallInv => StrictIsStandard
  <2> SUFFICES ASSUME CallInv, verdict = "accepted", PolicyUsed.strict,
                      PolicyUsed.allowed = {}
               PROVE  \E n \in {query.host, query.sni} \ {None}, d \in Presented(query.cert) :
                         <<d, n>> \in Covers \/ (n \in Wild /\ <<n, d>> \in Matches)
    BY DEF StrictIsStandard
  <2>1. PolicyUsed.enabled  BY CallTypes, StrictIsEnabled DEF PolicyUsed
  <2>2. PICK n \in {query.host, query.sni} \ {None} :
           MatchHostname(query.cert, n, PolicyUsed) /\ query.cert \in Certificate
    BY <2>1, CallTypes DEF CallInv, Accepts, VerifyCert
  <2>3. query.cert.names \subseteq Presented(query.cert)
    BY DEF Presented
  <2> QED BY <2>2, <2>3 DEF MatchHostname
<1> QED BY <1>1, CallInvariant, PTL
=============================================================================
