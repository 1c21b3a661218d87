------------------------------ MODULE MCTunnel ------------------------------
(* One connection with its tunnel, under the rules of MCConnect. *)
EXTENDS Tunnel, MCConnect
=============================================================================
