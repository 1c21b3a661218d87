----------------------------- MODULE MCConnect ------------------------------
(* Small instances of the CONNECT handlers for TLC. *)
EXTENDS Connect, TLC

CONSTANTS c1, c2, c3, blocked, front, plain, bare

\* `blocked` is reached under the name `front`, `bare` without a name and
\* without verification, and `front` and `plain` have no rule for their name.
HostAlter == [h \in Host |-> CASE h = blocked -> front
                               [] h = bare    -> Strip
                               [] OTHER       -> Keep]

HostVerify == [h \in Host |-> IF h = bare THEN [verify |-> FALSE, allow |-> {}]
                              ELSE None]

Strict == [kind |-> "strict", names |-> {}]

Itself == {<<h, h>> : h \in Host}

OwnSite == [h \in Host |-> h]

Cert(n, inTime) == [names |-> {n}, cn |-> None, inTime |-> inTime,
                    trusted |-> FALSE, eku |-> "server", length |-> 1]

\* A certificate for the front, an expired one, another's, and none at all.
Certs == {Cert(front, FALSE), None}
         \cup {Cert(n, TRUE) : n \in Host \ {blocked, bare}}

Defaults == [checkValidity |-> TRUE, validateChain |-> FALSE, checkEKU |-> TRUE,
             allowedStrict |-> FALSE, minChainLength |-> 2]

Symmetry == Permutations({c1, c2, c3})
=============================================================================
