-------------------------------- MODULE Warren --------------------------------
(***************************************************************************)
(* A player in the warren: the session engine composed with what the       *)
(* generated nodes give away (graph/generator.ts) and with a player who    *)
(* knows nothing but what a node showed.                                   *)
(*                                                                         *)
(* Which mechanic sits at a path, and which of its variants, is decided by *)
(* a hash of the seed and the path, so a walk may meet any of them.        *)
(* Flavour texts, node types and the encodings of a clue are left out: a   *)
(* player is taken to decode whatever a node contains.                     *)
(***************************************************************************)
EXTENDS SessionEngine

CONSTANTS Player,  \* the client that plays
          Here     \* the id of its session

\* The player is a client of the engine, the ladder has the levels of the code,
\* and every gate has a path.  (MCWarren assumes it, the proofs where they need it.)
WarrenAssumption ==
  /\ Player \in Clients /\ Here \in Sid /\ TopLevel = 9
  /\ [gate : 0..WinLevel, probe : {FALSE}] \subseteq Paths

VARIABLE known     \* the clues the player has seen

wvars == <<vars, known>>

Mechanic ==
  { "surface-read", "embedded-instruction", "encoding-chain", "join-sources",
    "toy-token", "multi-hop", "contradiction", "trap-detection", "isolation",
    "theater-win" }

LevelCode(n) == [kind |-> "level", of |-> n]
SimpleCode(kind) == [kind |-> kind, of |-> 0]

\* The two halves of a split code.
Half(i) == [kind |-> "half", of |-> i]

\* A trap looks like a leaked secret and holds the decoy only.
TrapClues == {SimpleCode("decoy")}

(* The clues of a node.  `variant' is the hash bit that decides which half *)
(* of a join, or which side of a token exchange, a node holds.             *)
Shown(mechanic, depth, variant) ==
  CASE mechanic = "surface-read"         -> {LevelCode(1)}
    [] mechanic = "embedded-instruction" -> {LevelCode(2)}
    [] mechanic = "encoding-chain"       -> {LevelCode(3)}
    [] mechanic = "join-sources"         -> {IF variant THEN Half(1) ELSE Half(2)}
    [] mechanic = "toy-token"            -> IF variant THEN {} ELSE {LevelCode(5)}
    [] mechanic = "multi-hop"            -> IF depth >= 4 THEN {LevelCode(6)} ELSE {}
    [] mechanic = "contradiction"        -> {LevelCode(7), SimpleCode("other")}
    [] mechanic = "trap-detection"       -> TrapClues
    [] mechanic = "isolation"            -> {}
    [] mechanic = "theater-win"          -> {SimpleCode("win")}

\* Codes the player can write down: what was shown, and the joined halves.
Writable ==
  (known \cap Code) \cup (IF {Half(1), Half(2)} \subseteq known THEN {LevelCode(4)} ELSE {})

\* Mutant: unplanned deep paths are as open as shallow ones.
PlaceWithoutDepth ==
  [depth : 0..4, gate : {0}] \cup [depth : 2..3, gate : 1..WinLevel]

(* The kinds of places of a plan: shallow paths nobody planned are open,   *)
(* deep ones need level 5, and planned ones need the level of their        *)
(* capability, which the seed shifts by at most one.                       *)
Place ==
  [depth : 0..2, gate : {0}] \cup [depth : 3..4, gate : {5}]
    \cup [depth : 2..3, gate : 1..WinLevel]

PathTo(place) == [gate |-> place.gate, probe |-> FALSE]

WalkInit == Init /\ known = {}

\* Corridors and the enclosure hold no challenge.
Sight(place, mechanic, variant) ==
  LET s == Entered(sessions, Here, Player)
  IN  IF CanAccess(s, PathTo(place)) /\ InBudget(s)
      THEN Shown(mechanic, place.depth, variant) ELSE {}

\* The player visits a place that teaches something (which bounds the walk).
Walk(place, mechanic, variant) ==
  /\ ~(Sight(place, mechanic, variant) \subseteq known)
  /\ GetNode(Player, Here, PathTo(place), Here, Here)
  /\ known' = known \cup Sight(place, mechanic, variant)

\* The player submits a code it can write down and has not tried.
Try(code) ==
  /\ code \in Writable
  /\ sessions[Here] # Absent /\ code \notin sessions[Here].submitted
  /\ SubmitFlag(Player, Here, code, Here)
  /\ UNCHANGED known

\* The node starts.  Later flushes only drain events, which no walk reads.
NodeRuns ==
  /\ \/ Start({})
     \/ phase = "starting" /\ FlushEmit
     \/ FlushPersist
  /\ UNCHANGED known

WalkSome == \E place \in Place, mechanic \in Mechanic, variant \in BOOLEAN :
              Walk(place, mechanic, variant)

TrySome == \E code \in Codes : Try(code)

WalkSpec == WalkInit /\ [][WalkSome \/ TrySome \/ NodeRuns]_wvars

(* A perfect player: it never tries a code before its level is open, and   *)
(* it keeps walking as long as there is something to learn.                *)
TryNext ==
  \E code \in Codes :
    /\ sessions[Here] # Absent /\ Accepts(sessions[Here], code)
    /\ Try(code)

PerfectSpec ==
  /\ WalkInit /\ [][WalkSome \/ TryNext \/ NodeRuns]_wvars
  /\ SF_wvars(WalkSome) /\ SF_wvars(TryNext) /\ WF_wvars(NodeRuns)

-----------------------------------------------------------------------------
Level == IF sessions[Here] = Absent THEN 0 ELSE sessions[Here].level

\* The code of level 6 cannot be found before level 5 is closed: the depth at
\* which the generator discloses it (challengeFor) is below the depth at
\* which the plan asks for level 5 (canAccessPath).
HorizonNeedsFive == LevelCode(6) \in known => Level >= 5

\* Whatever the player does, it stays at level 7: no node of the world holds
\* the code of level 8 or 9 (challengeFor), and no other code closes a level.
NobodyPassesSeven == Level <= 7

\* What the world withholds from the player, level by level.
LevelsAreWithheld == HorizonNeedsFive /\ NobodyPassesSeven

\* src/README.md: ten levels a player can truly win.
PerfectPlayerWins == <>(sessions[Here] # Absent /\ sessions[Here].win)
=============================================================================
