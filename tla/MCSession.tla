----------------------------- MODULE MCSession -----------------------------
(***************************************************************************)
(* Small instances of SessionEngine.  Each asks its own question, so each  *)
(* has its own clients, codes and paths:                                   *)
(*   ladder    one attacker, every kind of code, a path behind level 2     *)
(*   restart   clients of two families and one without an address, with    *)
(*             storage, the clock, expiry and crashes                      *)
(***************************************************************************)
EXTENDS SessionEngine, TLC

CONSTANTS s1, s2, s3, netA, netB, curl, node

OneClient == {[ip |-> netA, ua |-> curl]}

\* Two address families, and a client whose socket has no address.
ManyClients ==
  {[ip |-> netA, ua |-> curl], [ip |-> netB, ua |-> curl], [ip |-> NoIp, ua |-> curl]}

\* Clients of two families, for SessionForeignProbe.
TwoClients == {c \in ManyClients : c.ip # NoIp}

\* Every kind of code; a bare hash is refused whatever level it is of, so one
\* bare hash stands for all.
EveryKind == {c \in Code : c.kind = "bare" => c.of = 2}

FewCodes == {[kind |-> "level", of |-> 1], [kind |-> "decoy", of |-> 0]}

OneCode == {[kind |-> "level", of |-> 1]}

OpenAndGated == {[gate |-> 0, probe |-> TRUE], [gate |-> 2, probe |-> FALSE]}
OpenOnly == [gate : {0}, probe : {FALSE}]

AnySid == Permutations(Sid)
=============================================================================
