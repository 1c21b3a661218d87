----------------------------- MODULE SystemProxy -----------------------------
(***************************************************************************)
(* internal/sysproxy: the proxy setting of the desktop, which names the    *)
(* URL of the PAC file.  It is written in several commands, one slot each: *)
(*   Linux    gsettings or kwriteconfig5: the mode, then the URL           *)
(*   darwin   networksetup: one network interface after the other          *)
(*   windows  the registry: AutoConfigURL alone                            *)
(* A command that fails is logged and the next one is run.  All processes  *)
(* write the same URL but for the time in its query.                       *)
(***************************************************************************)
EXTENDS Naturals

VARIABLE pac    \* slot -> is it set to us?

Slot == {1, 2}

ProxyTypeOK == pac \in [Slot -> BOOLEAN]

ProxyInit == pac = [k \in Slot |-> FALSE]

\* How many commands SetPAC and ClearPAC run.
Writes(system) == IF system = "windows" THEN 1 ELSE 2

\* Mutation of SetSlot: every command writes the URL.
SetUrlOnly(k) == pac' = [pac EXCEPT ![2] = TRUE]

SetSlot(k) == pac' = [pac EXCEPT ![k] = TRUE]

ClearSlot(k) == pac' = [pac EXCEPT ![k] = FALSE]

\* Does a browser of this desktop use us?
PacActive(system) ==
    IF system = "darwin" THEN pac[1] \/ pac[2]
    ELSE \A k \in 1 .. Writes(system) : pac[k]
=============================================================================
