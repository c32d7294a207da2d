------------------------------- MODULE Ladder -------------------------------
(***************************************************************************)
(* What the session engine promises about progress, whatever the world     *)
(* shows: a session climbs one level at a time and never goes down while   *)
(* it lives; it ends; and after a restart it is back at a level that had   *)
(* been saved, or it starts again from the bottom.                         *)
(***************************************************************************)
EXTENDS Naturals

CONSTANTS Sid, Height, Closed

VARIABLES level, saved   \* Sid -> 0..Height, or Closed

ladder == <<level, saved>>

LadderInit ==
  /\ level = [id \in Sid |-> Closed]
  /\ saved = [id \in Sid |-> Closed]

\* Where a session climbs from: one that does not exist yet is at the bottom.
Base(l) == IF l = Closed THEN 0 ELSE l

\* New sessions appear; at most one session, old or new, climbs by one.
Climb(N, C) ==
  /\ \A id \in N : level[id] = Closed
  /\ \A id \in C : Base(level[id]) < Height
  /\ level' = [id \in Sid |-> IF id \in C THEN Base(level[id]) + 1
                              ELSE IF id \in N THEN 0 ELSE level[id]]
  /\ UNCHANGED saved

\* The levels of the sessions S are saved; the sessions E end.
SaveAndEnd(S, E) ==
  /\ saved' = [id \in Sid |-> IF id \in S /\ level[id] # Closed THEN level[id] ELSE saved[id]]
  /\ level' = [id \in Sid |-> IF id \in E THEN Closed ELSE level[id]]

\* After a restart the sessions R are back where they were saved.
Recover(R) ==
  /\ \A id \in Sid : level[id] = Closed
  /\ level' = [id \in Sid |-> IF id \in R THEN saved[id] ELSE Closed]
  /\ UNCHANGED saved

LadderNext ==
  \/ \E N, C \in SUBSET Sid :
       (\A x, y \in C : x = y) /\ Climb(N, C)
  \/ \E S, E \in SUBSET Sid : SaveAndEnd(S, E)
  \/ \E R \in SUBSET Sid : Recover(R)

LadderSpec == LadderInit /\ [][LadderNext]_ladder
=============================================================================
