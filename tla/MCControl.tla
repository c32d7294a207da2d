------------------------------ MODULE MCControl ------------------------------
(* Surfaces: two profiles, a template of each and the starter ones.  The    *)
(* commands move the listener to another port and back, change the template *)
(* (to one that fits one profile only), rotate and restart.                 *)
EXTENDS NodeControl, TLC

Web == [id |-> "web", profile |-> "http"]
Docs == [id |-> "docs", profile |-> "wiki"]

MCDefault == [port |-> "p1", profile |-> "http", template |-> Web]

Cmd(id, kind, route, port, profile, template) ==
  [id |-> id, kind |-> kind, route |-> route, port |-> port, profile |-> profile,
   template |-> template]

ToWiki == Cmd(1, "configure", "commands", "p2", "wiki", Web)
ToThird == Cmd(2, "configure", "commands", "p3", "http", Web)
ApplyDocs == Cmd(3, "apply", "commands", "p1", "wiki", Docs)
ToControl == Cmd(4, "configure", "commands", "ctl", "http", Web)
Rotate == Cmd(5, "rotate", "control", "p1", "http", Web)
Restart == Cmd(6, "restart", "control", "p1", "http", Web)
RotateNoted == Cmd(7, "rotate", "commands", "p1", "http", Web)

SurfaceCommands == {ToWiki, ToThird, ApplyDocs, ToControl, Rotate}
OverlapCommands == {ToWiki, ToThird, ApplyDocs, Rotate, Restart}
RestartCommands == {ToWiki, ToThird, Restart}
MoveCommands == {ToWiki, ToThird}
RotateCommands == {Rotate}
NotedCommands == {RotateNoted}

Symmetry == Permutations(Call)
=============================================================================
