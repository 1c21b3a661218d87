---------------------------- MODULE MCSelfUpdate ----------------------------
(* Small instances of Fetch and SelfUpdate for TLC. *)
EXTENDS Fetch

CONSTANTS p1, p2

RunBesideOthers ==
    [p \in Proc |-> IF p = p1 THEN {"run"} ELSE Commands \ {"run"}]
Both == [p \in Proc |-> {"run", "update"}]
=============================================================================
