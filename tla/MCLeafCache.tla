----------------------------- MODULE MCLeafCache -----------------------------
(* Small instances of LeafCache for TLC. *)
EXTENDS LeafCache, TLC

CONSTANTS p1, p2, a, b, c, g1, g2

Symmetry == Permutations(Authority) \cup Permutations(Handshake)
            \cup Permutations(Proc)
=============================================================================
