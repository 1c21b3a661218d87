------------------------------- MODULE MCHost -------------------------------
(* Small instances of Host for TLC. *)
EXTENDS Host, TLC

CONSTANTS p1, p2, a, b

Beside(c1, c2, proxies, platforms, saved) ==
    [commands |-> (p1 :> c1) @@ (p2 :> c2), proxies |-> proxies,
     platforms |-> platforms, saved |-> saved]

\* Commands about the CA beside an instance that installs it; commands about
\* the proxy setting, and the removal of everything, beside an instance that
\* makes it.
Scenarios == {
    Beside({"auto"},
           {"always", "install-cert", "uninstall-cert", "uninstall"},
           {FALSE}, {"trust", "anchors", "darwin"}, FALSE),
    Beside({"never"}, {"never", "set-proxy", "unset-proxy"},
           BOOLEAN, {"trust", "darwin", "windows"}, TRUE),
    Beside({"never"}, {"install", "uninstall"},
           {TRUE}, {"anchors", "windows"}, TRUE) }

Symmetry == Permutations(Authority)
=============================================================================
