------------------------------ MODULE MCLookup ------------------------------
(* A small instance of the resolver with its queries in detail. *)
EXTENDS Lookup, TLC

CONSTANTS a, c, v4, w4, v6, p1, p2, u1, u2

\* A rule maps host c to an address.
OneRule == (a :> a) @@ (c :> v4)
=============================================================================
