------------------------------ MODULE MCWarren ------------------------------
(* One player, the ten levels of the code, and a budget no walk exhausts.  *)
EXTENDS Warren

CONSTANTS s1, netA, curl

ASSUME WarrenAssumption

ThePlayer == [ip |-> netA, ua |-> curl]
OnlyPlayer == {ThePlayer}
WorldCodes == {c \in Code : c.kind \in {"level", "win", "decoy", "other"}}
AnyGate == [gate : 0..WinLevel, probe : {FALSE}]
=============================================================================
