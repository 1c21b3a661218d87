----------------------------- MODULE TrustStore -----------------------------
(***************************************************************************)
(* internal/sysproxy: putting root.crt into the trust store of the         *)
(* operating system and taking it out again, each external command a step  *)
(* of its own.  The platform and its tools decide how:                     *)
(*   "trust"    Linux with p11-kit: `trust anchor --store` keeps whatever  *)
(*              it was given                                               *)
(*   "anchors"  other Linux: a file in the directory of anchors, from      *)
(*              which the update command builds the bundle of trusted      *)
(*              certificates                                               *)
(*   "darwin", "windows"  a key chain or store, addressed by common name   *)
(***************************************************************************)
EXTENDS CertAuthority, FiniteSets, Naturals

VARIABLES
    platform,   \* one of the four, fixed
    anchor,     \* the content of our file among the anchors, or None
    stored,     \* what `trust anchor` keeps
    bundle      \* the CAs of ours that the system trusts

storeVars == <<anchor, stored, bundle>>

Platform == {"trust", "anchors", "darwin", "windows"}

StoreTypeOK ==
    /\ platform \in Platform
    /\ anchor \in Content
    /\ stored \subseteq Authority /\ bundle \subseteq Authority

StoreInit ==
    /\ platform \in Platform
    /\ anchor = None /\ stored = {} /\ bundle = {}

Linux == platform \in {"trust", "anchors"}

\* verify-cert in a process of its own; security find-certificate and
\* certutil -verifystore compare the same certificate by its fingerprint.
IsCertInstalled == certFile \in bundle

\* Mutation of Extracted: the bundle takes what is there, parsed or not.
ExtractedUnparsed == stored \cup ({anchor} \ {None})

\* What update-ca-trust and update-ca-certificates make of the anchors.
Extracted == stored \cup ({anchor} \cap Authority)

\* trust anchor --store, and the extraction that it ends with.
StoreAnchor ==
    /\ platform = "trust" /\ certFile \in Authority
    /\ stored' = stored \cup {certFile}
    /\ bundle' = bundle \cup {certFile}
    /\ UNCHANGED anchor

\* sudo tee writes what ReadFile returned, be it whole or not.
WriteAnchor ==
    /\ platform = "anchors" /\ certFile # None
    /\ anchor' = certFile
    /\ UNCHANGED <<stored, bundle>>

AddToStore ==
    /\ certFile \in Authority
    /\ bundle' = bundle \cup {certFile}
    /\ UNCHANGED <<anchor, stored>>

\* security add-trusted-cert
AddToKeychain == platform = "darwin" /\ AddToStore

\* certutil -addstore
AddToRootStore == platform = "windows" /\ AddToStore

Extract ==
    /\ Linux
    /\ bundle' = Extracted
    /\ UNCHANGED <<anchor, stored>>

\* Mutation of RemoveAnchor: the name that install writes is not in the list.
RemoveOtherAnchor == Linux /\ UNCHANGED storeVars

\* sudo rm of the five paths that install may have written.
RemoveAnchor ==
    /\ Linux
    /\ anchor' = None
    /\ UNCHANGED <<stored, bundle>>

\* By common name, which all our CAs share: with several of them some may stay.
DeleteByName ==
    /\ \E left \in SUBSET bundle :
          /\ Cardinality(bundle) <= 1 => left = {}
          /\ bundle' = left
    /\ UNCHANGED <<anchor, stored>>

\* security delete-certificate -c
DeleteFromKeychain == platform = "darwin" /\ DeleteByName

\* certutil -delstore
DeleteFromRootStore == platform = "windows" /\ DeleteByName
=============================================================================
