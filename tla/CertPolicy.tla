----------------------------- MODULE CertPolicy -----------------------------
(***************************************************************************)
(* Which server certificate is good enough: VerifyCert and its helpers in  *)
(* internal/tlsutil/verify.go, and where the policy it applies comes from  *)
(* (config.go, loader.go).                                                 *)
(*                                                                         *)
(* A name is a host, a server name, a name in a certificate or a pattern   *)
(* of a rule.  Three relations between names come from libraries.          *)
(***************************************************************************)
EXTENDS Naturals

CONSTANTS
    Host,       \* names
    Wild,       \* the names that contain one of * ? $
    Covers,     \* <<d, n>> : VerifyHostname accepts n by the certificate name d
    Matches,    \* <<p, n>> : MatchPattern(p, n)
    Site,       \* name -> its public suffix plus one label, or None
    None

ASSUME CertPolicyAssumption ==
    /\ Wild \subseteq Host
    /\ Covers \subseteq Host \X Host
    /\ Matches \subseteq Host \X Host
    /\ None \notin Host

Policy == [enabled : BOOLEAN, strict : BOOLEAN, allowed : SUBSET Host]

\* check_hostname of config.toml as TOML gives it.  A string that is none of
\* the keywords is a list of one name; "invalid" is any other type.
Setting == [kind : {"false", "true", "strict", "names", "absent", "invalid"},
            names : SUBSET Host]

\* The error for an invalid type is dropped by every caller.
ParseCertPolicy(setting) ==
    [enabled |-> setting.kind \in {"true", "strict", "names"},
     strict  |-> setting.kind = "strict",
     allowed |-> IF setting.kind = "names" THEN setting.names ELSE {}]

\* A rule of [cert_verify], as the shared rules library returns it.
CertRule == [verify : BOOLEAN, allow : SUBSET Host]

ToLocalCertPolicy(rule) ==
    [enabled |-> rule.verify, strict |-> rule.verify, allowed |-> rule.allow]

\* A host's own rule goes before the global setting.
PolicyFor(rule, setting) ==
    IF rule # None THEN ToLocalCertPolicy(rule) ELSE ParseCertPolicy(setting)

\* What the server presented: DNSNames, CommonName, is it in its period of
\* validity, does a trusted root stand behind it, its extended key usage, and
\* the number of certificates sent.
Certificate == [names : SUBSET Host, cn : Host \cup {None}, inTime : BOOLEAN,
                trusted : BOOLEAN, eku : {"server", "other", "none"},
                length : Nat]

Security == [checkValidity : BOOLEAN, validateChain : BOOLEAN,
             checkEKU : BOOLEAN, allowedStrict : BOOLEAN, minChainLength : Nat]

\* CommonName counts only where there are no DNSNames.
Presented(cert) ==
    IF cert.names # {} THEN cert.names
    ELSE IF cert.cn # None THEN {cert.cn} ELSE {}

LooselyMatch(cert, n) ==
    /\ Site[n] # None
    /\ \E d \in Presented(cert) : Site[d] = Site[n]

\* Mutation of MatchHostname: strict is not looked at.
MatchHostnameLoosely(cert, n, policy) ==
    \/ n \in Wild /\ \E d \in Presented(cert) : <<n, d>> \in Matches
    \/ \E d \in cert.names : <<d, n>> \in Covers
    \/ LooselyMatch(cert, n)

MatchHostname(cert, n, policy) ==
    \/ n \in Wild /\ \E d \in Presented(cert) : <<n, d>> \in Matches
    \/ \E d \in cert.names : <<d, n>> \in Covers
    \/ ~policy.strict /\ LooselyMatch(cert, n)

HasServerAuthEKU(cert) == cert.eku = "server"

\* x509.Verify also looks at the dates, and at the key usage where there is one.
VerifyCertificateChain(cert, sec) ==
    /\ cert.trusted /\ cert.inTime /\ cert.eku # "other"
    /\ cert.length >= sec.minChainLength

\* Mutation of MatchAllowedPattern: the strict flag is read the wrong way.
MatchAllowedInverted(p, host, strict) ==
    IF strict THEN <<p, host>> \in Matches ELSE p = host

MatchAllowedPattern(p, host, strict) ==
    IF strict THEN p = host ELSE <<p, host>> \in Matches

\* `skip` is the environment variable TLS_INSECURE_SKIP_VERIFY; sni is None
\* when the rules strip the server name.
VerifyCert(cert, host, sni, policy, sec, skip) ==
    \/ skip
    \/ ~policy.enabled
    \/ /\ cert # None
       /\ sec.checkValidity => cert.inTime
       /\ sec.validateChain => VerifyCertificateChain(cert, sec)
       /\ sec.checkEKU => HasServerAuthEKU(cert)
       /\ IF policy.allowed # {}
            THEN \E p \in policy.allowed :
                    MatchAllowedPattern(p, host, sec.allowedStrict)
            ELSE \/ MatchHostname(cert, host, policy)
                 \/ sni # None /\ sni # host /\ MatchHostname(cert, sni, policy)
=============================================================================
