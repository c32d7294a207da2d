----------------------------- MODULE NodeControl -----------------------------
(***************************************************************************)
(* A node under the commands of Central: the command journal               *)
(* (storage/indexer.ts), the routes that execute a command                 *)
(* (server/http.ts), the public listener that a command moves to another   *)
(* port (server/honeypot.ts), and start and restart (app/bootstrap.ts).    *)
(*                                                                         *)
(* Code between two waits for a socket runs alone; the database is called  *)
(* synchronously.  A call that has database writes ahead of it is busy,    *)
(* and while one is busy only busy calls go on, one write at a time.  The  *)
(* process may die between any two writes.                                 *)
(*                                                                         *)
(* Left out: commands without an effect on the node, a database that       *)
(* refuses a write, and a port refused to two calls that open one at once. *)
(***************************************************************************)
EXTENDS Integers, FiniteSets

CONSTANTS
  Command,     \* commands, each with its command_id, kind, route and body
  Call,        \* deliveries that can be in progress at once
  Default,     \* the surface of the deployment: port, profile and template
  ControlPort, \* the port of the control API
  None,        \* no port, no surface
  MaxRuns,     \* bound: executions of one command
  MaxFaults    \* bound: crashes and refused ports

Kinds == {"configure", "apply", "rotate", "restart"}
Ports == {c.port : c \in Command} \cup {Default.port}
Profiles == {c.profile : c \in Command} \cup {Default.profile}

\* createDefaultTemplate.
Starter(p) == [id |-> "starter", profile |-> p]

Templates ==
  {c.template : c \in Command} \cup {Default.template} \cup {Starter(p) : p \in Profiles}

Surface == [port : Ports, profile : Profiles, template : Templates]

\* templateAppliesToProfile.
Fits(t, p) == t.profile = "all" \/ p = "all" \/ t.profile = p

ASSUME ControlAssumption ==
  /\ \A c \in Command : c.kind \in Kinds /\ c.route \in {"control", "commands"}
  /\ Default \in Surface /\ Fits(Default.template, Default.profile)
  /\ Default.port # ControlPort
  /\ None \notin Ports \cup Surface \cup Command
  /\ MaxRuns \in Nat /\ MaxFaults \in Nat

VARIABLES
  phase,      \* "down", "starting" (the listener is not bound), "up", "stopping"
  asked,      \* port the start asked for
  active,     \* the honeypot server's port, profile and template
  listening,  \* its flag
  bound,      \* port the socket really accepts on, or None
  identity,   \* what the node reports to Central
  calls,      \* deliveries in progress: command, step, surfaces before and after
  engineGen,  \* generation new sessions are derived under
  stored,     \* table honeypot_config, or None
  journal,    \* table command_journal
  generation, \* table node_identity, challenge_generation
  begun,      \* history: executions begun of each command
  answered,   \* history: commands Central got a success for
  crossed,    \* history: since the start, a surface was asked for while the
              \* listener was on its way to another, or to that of the start
  cut,        \* history: rotations the node died in, between their two writes
  faults

listener == <<active, listening, bound>>
disk == <<stored, journal, generation>>
history == <<begun, answered, crossed, cut>>
vars == <<phase, asked, listener, identity, calls, engineGen, disk, history, faults>>

Steps == {"idle", "closing", "opening", "restoring", "saving", "journaling",
          "bumping", "leaving"}

At(step) == {d \in Call : calls[d].step = step}
Quiet == At("idle") = Call
Busy == At("saving") \cup At("journaling") \cup At("bumping") # {}

\* Steps that hold a surface to be put into force or back.
Moving == {"closing", "opening", "restoring", "saving"}

\* The listener is on its way to a surface.
OnItsWay == phase = "starting" \/ \E d \in Call : calls[d].step \in Moving

IdleCall == [command |-> None, step |-> "idle", old |-> None, new |-> None]

Goto(d, step) ==
  calls' = [calls EXCEPT ![d] = IF step = "idle" THEN IdleCall ELSE [@ EXCEPT !.step = step]]

-----------------------------------------------------------------------------
(* A command is delivered and looked up in the journal.                    *)

\* validateUpdate: the surface a command asks for.
Wanted(c) ==
  IF c.kind = "apply" THEN [active EXCEPT !.template = c.template]
  ELSE [port |-> c.port, profile |-> c.profile,
        template |-> IF Fits(active.template, c.profile) THEN active.template
                     ELSE Starter(c.profile)]

\* Mutant: a template of another profile is accepted.
AcceptableAnyTemplate(n) == n.port # ControlPort

Acceptable(n) == n.port # ControlPort /\ Fits(n.template, n.profile)

\* configure of the honeypot server up to its first wait.  Only a listening
\* server that changes its port touches the socket.
ConfigureIn(d, c) ==
  LET n == Wanted(c)
      moves == listening /\ n.port # active.port
      call == [command |-> c, old |-> active, new |-> n,
               step |-> IF moves THEN "closing" ELSE "saving"]
  IN IF ~Acceptable(n) THEN UNCHANGED <<calls, listener>>
     ELSE /\ calls' = [calls EXCEPT ![d] = call]
          /\ bound' = IF moves THEN None ELSE bound
          /\ active' = IF moves THEN active ELSE n
          /\ UNCHANGED listening

\* A lifecycle command has no handler: it goes to the journal at once.
Note(d, c) ==
  /\ calls' = [calls EXCEPT ![d].command = c, ![d].step = "journaling"]
  /\ UNCHANGED listener

\* Mutant: the journal is not asked.
KnownNever(c) == FALSE

Known(c) == c \in journal

\* executeCommand.
Deliver(d, c) ==
  /\ ~Busy /\ calls[d].step = "idle"
  /\ phase \in {"starting", "up"}
  /\ IF Known(c)
     THEN answered' = answered \cup {c} /\ UNCHANGED <<calls, listener, begun>>
     ELSE /\ begun[c] < MaxRuns
          /\ begun' = [begun EXCEPT ![c] = @ + 1]
          /\ IF c.kind \in {"configure", "apply"} THEN ConfigureIn(d, c) ELSE Note(d, c)
          /\ UNCHANGED answered
  /\ crossed' = (crossed \/ (calls'[d].step \in Moving /\ OnItsWay))
  /\ UNCHANGED <<phase, asked, identity, engineGen, disk, cut, faults>>

-----------------------------------------------------------------------------
(* The socket answers.                                                     *)

\* The last connection is gone: every call that waits for it goes on, the
\* last of them leaves its surface in the variables.
CloseEvent ==
  /\ ~Busy /\ At("closing") # {}
  /\ listening' = FALSE
  /\ \E d \in At("closing") : active' = calls[d].new
  /\ calls' = [d \in Call |-> IF d \in At("closing")
                              THEN [calls[d] EXCEPT !.step = "opening"] ELSE calls[d]]
  /\ UNCHANGED <<phase, asked, bound, identity, engineGen, disk, history, faults>>

\* The socket is bound to the port of one call; "listening" wakes every call
\* that waits for it.
Opened ==
  /\ ~Busy
  /\ listening' = TRUE
  /\ \E d \in At("opening") : bound' = calls[d].new.port
  /\ calls' = [d \in Call |-> IF d \in At("opening")
                              THEN [calls[d] EXCEPT !.step = "saving"] ELSE calls[d]]
  /\ UNCHANGED <<phase, asked, active, identity, engineGen, disk, history, faults>>

\* Mutant: the variables are not put back.
RefusedKeepsNew(d) ==
  /\ ~Busy /\ At("opening") = {d} /\ faults < MaxFaults
  /\ Goto(d, "restoring")
  /\ faults' = faults + 1
  /\ UNCHANGED <<phase, asked, listener, identity, engineGen, disk, history>>

\* The port is taken: the old surface is put back and its port asked for.
Refused(d) ==
  /\ ~Busy /\ At("opening") = {d} /\ faults < MaxFaults
  /\ active' = calls[d].old
  /\ Goto(d, "restoring")
  /\ faults' = faults + 1
  /\ UNCHANGED <<phase, asked, listening, bound, identity, engineGen, disk, history>>

\* Whatever comes of it, the command fails and is not journaled.
Restored(d) ==
  /\ ~Busy /\ calls[d].step = "restoring"
  /\ \/ bound' = calls[d].old.port /\ listening' = TRUE /\ UNCHANGED faults
     \/ faults < MaxFaults /\ faults' = faults + 1 /\ UNCHANGED <<bound, listening>>
  /\ Goto(d, "idle")
  /\ UNCHANGED <<phase, asked, active, identity, engineGen, disk, history>>

-----------------------------------------------------------------------------
(* The database writes of a command.                                       *)

\* saveHoneypotConfig and the identity that Central is given.
Save(d) ==
  /\ calls[d].step = "saving"
  /\ stored' = calls[d].new
  /\ identity' = IF calls[d].command.kind = "apply"
                 THEN [identity EXCEPT !.template = calls[d].new.template]
                 ELSE calls[d].new
  /\ Goto(d, "journaling")
  /\ UNCHANGED <<phase, asked, listener, engineGen, journal, generation,
                 history, faults>>

\* What is left to do after the journal: only the routes of the lifecycle act.
AfterJournal(c) ==
  CASE c.kind = "rotate" /\ c.route = "control" -> "bumping"
    [] c.kind = "restart" /\ c.route = "control" -> "leaving"
    [] OTHER -> "idle"

\* storeCommand; but for a rotation the answer follows.
Journal(d) ==
  LET c == calls[d].command
      after == AfterJournal(c)
  IN /\ calls[d].step = "journaling"
     /\ journal' = journal \cup {c}
     /\ answered' = IF after = "bumping" THEN answered ELSE answered \cup {c}
     /\ Goto(d, after)
     /\ UNCHANGED <<phase, asked, listener, identity, engineGen, stored, generation,
                    begun, crossed, cut, faults>>

\* Mutant: the engine is not told.
BumpStorageOnly(d) ==
  /\ calls[d].step = "bumping"
  /\ generation' = generation + 1
  /\ answered' = answered \cup {calls[d].command}
  /\ Goto(d, "idle")
  /\ UNCHANGED <<phase, asked, listener, identity, engineGen, stored, journal, begun, crossed, cut,
                 faults>>

\* The rotation itself: the stored generation, then the engine's.
Bump(d) ==
  /\ calls[d].step = "bumping"
  /\ generation' = generation + 1
  /\ engineGen' = generation + 1
  /\ answered' = answered \cup {calls[d].command}
  /\ Goto(d, "idle")
  /\ UNCHANGED <<phase, asked, listener, identity, stored, journal, begun, crossed, cut,
                 faults>>

-----------------------------------------------------------------------------
(* Restart, crash and start.                                               *)

\* Mutant: the request that asks for the restart waits for it.
LeaveBeforeAnswer(d) ==
  /\ ~Busy /\ calls[d].step = "leaving"
  /\ phase' = "stopping"
  /\ UNCHANGED <<asked, listener, identity, calls, engineGen, disk, history, faults>>

\* After the answer, onRestart closes the control API to new requests.
Leave(d) ==
  /\ ~Busy /\ calls[d].step = "leaving"
  /\ phase' = "stopping"
  /\ Goto(d, "idle")
  /\ UNCHANGED <<asked, listener, identity, engineGen, disk, history, faults>>

\* What is not on disk is gone.
Die ==
  /\ phase' = "down"
  /\ asked' = Default.port
  /\ active' = Default /\ listening' = FALSE /\ bound' = None
  /\ identity' = Default
  /\ calls' = [d \in Call |-> IdleCall]
  /\ engineGen' = 0
  /\ crossed' = FALSE
  /\ cut' = cut \cup {calls[d].command : d \in At("bumping")}
  /\ UNCHANGED <<disk, begun, answered>>

\* The control API has closed once every request in progress is answered.
Exit == phase = "stopping" /\ Quiet /\ Die /\ UNCHANGED faults

Crash == phase # "down" /\ faults < MaxFaults /\ faults' = faults + 1 /\ Die

\* start, up to the wait for the public listener: the control API is open.
Start ==
  LET s == IF stored = None THEN Default ELSE stored
  IN /\ phase = "down" /\ phase' = "starting"
     /\ Fits(s.template, s.profile)
     /\ active' = s /\ stored' = s /\ identity' = s
     /\ asked' = s.port
     /\ engineGen' = generation
     /\ UNCHANGED <<listening, bound, calls, journal, generation, history, faults>>

\* The public listener of the start is bound, or its port is taken and the
\* process ends.
Started ==
  /\ ~Busy /\ phase = "starting"
  /\ phase' = "up" /\ bound' = asked /\ listening' = TRUE
  /\ UNCHANGED <<asked, active, identity, calls, engineGen, disk, history, faults>>

NotStarted ==
  phase = "starting" /\ faults < MaxFaults /\ faults' = faults + 1 /\ Die

-----------------------------------------------------------------------------
Init ==
  /\ phase = "down"
  /\ asked = Default.port
  /\ active = Default /\ listening = FALSE /\ bound = None
  /\ identity = Default
  /\ calls = [d \in Call |-> IdleCall]
  /\ engineGen = 0
  /\ stored = None /\ journal = {} /\ generation = 0
  /\ begun = [c \in Command |-> 0] /\ answered = {}
  /\ crossed = FALSE /\ cut = {}
  /\ faults = 0

Step(d) ==
  \/ \E c \in Command : Deliver(d, c)
  \/ Refused(d) \/ Restored(d)
  \/ Save(d) \/ Journal(d) \/ Bump(d)
  \/ Leave(d)

Next ==
  \/ \E d \in Call : Step(d)
  \/ CloseEvent \/ Opened
  \/ Exit \/ Crash \/ Start \/ Started \/ NotStarted

Spec == Init /\ [][Next]_vars

\* The socket answers, a call that has begun goes on, and the supervisor starts
\* the process again.  No command is bound to arrive.
FairSpec ==
  /\ Spec
  /\ WF_vars(CloseEvent) /\ WF_vars(Opened)
  /\ WF_vars(Exit) /\ WF_vars(Start) /\ WF_vars(Started)
  /\ \A d \in Call :
       WF_vars(Restored(d) \/ Save(d) \/ Journal(d) \/ Bump(d) \/ Leave(d))

-----------------------------------------------------------------------------
(* Properties.                                                             *)

Calls ==
  [command : Command \cup {None}, step : Steps,
   old : Surface \cup {None}, new : Surface \cup {None}]

\* Every variable keeps its shape, and the flag of the honeypot server says so
\* whenever its socket accepts (listen, close).
TypeOK ==
  /\ phase \in {"down", "starting", "up", "stopping"}
  /\ asked \in Ports /\ bound \in Ports \cup {None}
  /\ active \in Surface /\ identity \in Surface
  /\ listening \in BOOLEAN /\ (bound # None => listening)
  /\ calls \in [Call -> Calls]
  /\ engineGen \in Nat /\ generation \in Nat
  /\ stored \in Surface \cup {None}
  /\ journal \subseteq Command /\ answered \subseteq Command
  /\ begun \in [Command -> 0..MaxRuns]
  /\ crossed \in BOOLEAN /\ cut \subseteq Command
  /\ faults \in 0..MaxFaults

Agreed == identity = active /\ stored = active /\ bound \in {active.port, None}

\* While the listener rests, what Central is told, what the node would serve
\* after a restart, what it serves now and where it accepts are one surface,
\* whatever ports were refused, whenever it crashed and whatever else is in
\* progress, unless two moves of the listener crossed; a restart heals that
\* (configure, configureHoneypot, applyHoneypotTemplate, start).
SurfaceAgrees == phase = "up" /\ ~OnItsWay /\ ~crossed => Agreed

\* The same of crossed moves, as configureHoneypot has it.
SurfaceAlwaysAgrees == phase = "up" /\ Quiet => Agreed

\* The surface on disk is one that start accepts, also when commands overtake
\* each other: the template fits the profile (validateUpdate, start).
StartableConfig == stored # None => Fits(stored.template, stored.profile)

Rotations == {c \in journal : c.kind = "rotate"}

\* The rotations that are neither under way nor were cut short by a crash.
Due ==
  {c \in Rotations : c.route = "control"}
    \ (cut \cup {calls[d].command : d \in At("bumping")})

\* A rotation command of the lifecycle route in the journal rotates once: not
\* again through repeated deliveries, overlaps or restarts, and it is lost only
\* if the node dies between its two writes (the rotate route, executeCommand).
RotatesOnce == generation = Cardinality(Due)

\* New sessions are derived under the stored generation, so that a restart does
\* not change the world of a generation (the rotate route, start).
EngineGenerationAgrees == phase = "up" /\ ~Busy => engineGen = generation

\* A command that Central got a success for is never begun again, also after a
\* restart: no restart loop, no second rotation (executeCommand).
NotAgainAfterAnswer ==
  [][\A c \in answered : begun'[c] = begun[c]]_vars

\* A node that was told to restart is up again in the end: closing waits for
\* every request in progress, also the one that asked for it (onRestart).
RestartCompletes == phase = "stopping" ~> phase = "up"

\* A command is executed once, however often it is delivered (executeCommand).
ExecutedOnce == \A c \in Command : begun[c] <= 1

\* A rotation that is in the journal has been done (the rotate route).
RecordedIsDone == phase = "up" /\ Quiet => generation = Cardinality(Rotations)

\* A surface command that succeeds leaves the node accepting on the port that
\* the command asked for (configure, configureHoneypot).
SuccessIsServed ==
  [][\A d \in Call :
       Journal(d) /\ calls[d].command.kind \in {"configure", "apply"}
         => bound = calls[d].new.port]_vars
=============================================================================
