----------------------------- MODULE MCResolver -----------------------------
(* Small instances of the resolver for TLC. *)
EXTENDS Resolver, TLC

CONSTANTS a, b, c, v4, w4, v6, p1, p2

\* The rules exchange hosts a and b and map host c to an address.
SwappedHosts == (a :> b) @@ (b :> a) @@ (c :> v4)

\* Rules that exchange a and b treat them alike.
Symmetry == Permutations({p1, p2}) \cup Permutations({a, b})
=============================================================================
