------------------------------ MODULE MCRegistry ------------------------------
(* Instance of Registry.  What can be renamed without changing the system is *)
(* symmetric: no property here is a liveness property.                       *)
EXTENDS Registry, TLC

Symmetry ==
  Permutations(Host) \cup Permutations(Site) \cup Permutations(Token) \cup Permutations(Job)
=============================================================================
