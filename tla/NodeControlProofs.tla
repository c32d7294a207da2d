-------------------------- MODULE NodeControlProofs --------------------------
(***************************************************************************)
(* Proofs about NodeControl, for any commands, any number of deliveries in *)
(* progress at once, and faults anywhere.                                  *)
(*                                                                         *)
(* InProgress says what a call has on its way (the invariant behind the    *)
(* types); Sockets says which waits can coincide; Journaled relates the    *)
(* calls in progress to the journal; Settled relates the four copies of    *)
(* the surface at every step of a move of the listener that no other one   *)
(* crosses.                                                                *)
(***************************************************************************)
EXTENDS NodeControl, FiniteSetTheorems, TLAPS

\* A call is about a command, and about two surfaces while it moves between them.
InProgress(k) ==
  /\ k.step # "idle" => k.command \in Command
  /\ k.step \in Moving =>
       /\ k.old \in Surface /\ k.new \in Surface /\ Acceptable(k.new)
       /\ k.command.kind \in {"configure", "apply"}

\* Closing begins at an open socket; the socket is shut while a call opens one.
Sockets ==
  /\ At("closing") # {} => bound = None /\ listening
  /\ At("opening") # {} \/ At("restoring") # {} => ~listening
  /\ \A d \in At("restoring") : At("opening") = {} /\ At("restoring") = {d}
  /\ phase \in {"down", "starting"} =>
       ~listening /\ At("closing") = {} /\ At("opening") = {} /\ At("restoring") = {}

TypeInv ==
  /\ TypeOK
  /\ \A d \in Call : InProgress(calls[d])
  /\ Sockets

-----------------------------------------------------------------------------
(* Surfaces and calls.                                                     *)

LEMMA SurfaceParts ==
  ASSUME NEW s \in Surface
  PROVE  s.port \in Ports /\ s.profile \in Profiles /\ s.template \in Templates
BY DEF Surface

LEMMA WantedIsSurface ==
  ASSUME TypeOK, NEW c \in Command
  PROVE  Wanted(c) \in Surface
<1>1. c.port \in Ports /\ c.profile \in Profiles /\ c.template \in Templates
  BY DEF Ports, Profiles, Templates
<1>2. Starter(c.profile) \in Templates
  BY <1>1 DEF Templates
<1>3. active \in Surface
  BY DEF TypeOK
<1>4. active.template \in Templates
  BY <1>3, SurfaceParts
<1> QED  BY <1>1, <1>2, <1>3, <1>4 DEF Wanted, Surface

LEMMA GotoMoves ==
  ASSUME calls \in [Call -> Calls], NEW d \in Call, NEW s \in Steps, Goto(d, s)
  PROVE  /\ calls' \in [Call -> Calls]
         /\ \A e \in Call : e # d => calls'[e] = calls[e]
         /\ calls'[d].step = s
         /\ s = "idle" => calls'[d] = IdleCall
         /\ s # "idle" => /\ calls'[d].command = calls[d].command
                          /\ calls'[d].old = calls[d].old
                          /\ calls'[d].new = calls[d].new
<1>1. IdleCall \in Calls
  BY DEF IdleCall, Calls, Steps
<1>2. calls[d] \in Calls /\ [calls[d] EXCEPT !.step = s] \in Calls
  BY DEF Calls
<1>3. calls' = [calls EXCEPT ![d] = IF s = "idle" THEN IdleCall
                                    ELSE [calls[d] EXCEPT !.step = s]]
  BY DEF Goto
<1>4. calls' \in [Call -> Calls] /\ \A e \in Call : e # d => calls'[e] = calls[e]
  BY <1>1, <1>2, <1>3
<1>5. CASE s = "idle"
  BY <1>3, <1>4, <1>5 DEF IdleCall
<1>6. CASE s # "idle"
  <2>1. calls'[d] = [calls[d] EXCEPT !.step = s]
    BY <1>3, <1>6
  <2> QED  BY <1>2, <1>4, <1>6, <2>1 DEF Calls
<1> QED  BY <1>5, <1>6

\* What a step in progress may go to.
LEMMA GotoInProgress ==
  ASSUME TypeInv, NEW d \in Call, NEW s \in Steps, Goto(d, s),
         s # "idle" => calls[d].step # "idle",
         s \in Moving => calls[d].step \in Moving
  PROVE  calls' \in [Call -> Calls] /\ \A e \in Call : InProgress(calls'[e])
<1>1. calls \in [Call -> Calls]
  BY DEF TypeInv, TypeOK
<1>2. IdleCall.step = "idle"
  BY DEF IdleCall
<1>3. InProgress(calls'[d])
  BY <1>1, <1>2, GotoMoves DEF TypeInv, InProgress, Moving
<1> QED  BY <1>1, <1>3, GotoMoves DEF TypeInv

-----------------------------------------------------------------------------
(* Types and sockets.                                                      *)

LEMMA InitTyped == Init => TypeInv
<1> SUFFICES ASSUME Init
             PROVE  TypeInv
  OBVIOUS
<1>1. /\ IdleCall \in Calls /\ IdleCall.step = "idle"
  BY DEF IdleCall, Calls, Steps
<1>2. Default \in Surface /\ Default.port \in Ports
  BY ControlAssumption, SurfaceParts
<1>3. TypeOK
  <2>1. calls \in [Call -> Calls]
    BY <1>1 DEF Init
  <2>2. begun \in [Command -> 0..MaxRuns] /\ faults \in 0..MaxFaults
    BY ControlAssumption DEF Init
  <2>3. /\ phase \in {"down", "starting", "up", "stopping"}
        /\ asked \in Ports /\ active \in Surface /\ identity \in Surface
        /\ bound = None /\ listening = FALSE /\ stored = None
        /\ journal = {} /\ answered = {} /\ engineGen = 0 /\ generation = 0
        /\ crossed = FALSE /\ cut = {}
    BY <1>2 DEF Init
  <2> QED  BY <2>1, <2>2, <2>3 DEF TypeOK
<1>4. \A d \in Call : calls[d].step = "idle"
  BY <1>1 DEF Init
<1>5. Sockets
  BY <1>4 DEF Init, Sockets, At
<1> QED  BY <1>3, <1>4, <1>5 DEF TypeInv, InProgress, Moving

\* Steps that end the process keep no call.
LEMMA DieTyped ==
  ASSUME TypeInv, Die, faults' \in 0..MaxFaults
  PROVE  TypeInv'
<1>1. IdleCall \in Calls /\ IdleCall.step = "idle"
  BY DEF IdleCall, Calls, Steps
<1>2. Default \in Surface /\ Default.port \in Ports
  BY ControlAssumption, SurfaceParts
<1>3. calls' \in [Call -> Calls] /\ \A d \in Call : calls'[d].step = "idle"
  BY <1>1 DEF Die
<1>4. cut' \subseteq Command
  BY DEF Die, TypeInv, TypeOK, InProgress, At
<1>5. crossed' = FALSE
  BY DEF Die
<1>6. TypeOK'
  BY <1>2, <1>3, <1>4, <1>5 DEF TypeInv, TypeOK, Die, disk
<1>7. Sockets'
  BY <1>3 DEF Die, Sockets, At
<1> QED  BY <1>3, <1>6, <1>7 DEF TypeInv, InProgress, Moving

\* A step of a call that touches neither socket nor phase.
LEMMA GotoTyped ==
  ASSUME TypeInv, TypeOK', NEW d \in Call, NEW s \in Steps \ {"closing", "opening", "restoring"},
         Goto(d, s), calls[d].step \notin {"closing", "opening", "restoring"},
         s # "idle" => calls[d].step # "idle",
         s = "saving" => calls[d].step = "saving",
         UNCHANGED <<bound, listening>>, phase' \notin {"down", "starting"} \/ phase' = phase
  PROVE  TypeInv'
<1>1. \A e \in Call : InProgress(calls'[e])
  BY GotoInProgress DEF Moving
<1>2. calls \in [Call -> Calls]
  BY DEF TypeInv, TypeOK
<1>3. At("closing")' = At("closing") /\ At("opening")' = At("opening")
      /\ At("restoring")' = At("restoring")
  BY <1>2, GotoMoves DEF At
<1>4. Sockets'
  BY <1>3 DEF TypeInv, Sockets
<1> QED  BY <1>1, <1>4 DEF TypeInv

LEMMA DeliverTyped ==
  ASSUME TypeInv, NEW d \in Call, NEW c \in Command, Deliver(d, c)
  PROVE  TypeInv'
<1>1. /\ calls \in [Call -> Calls] /\ calls[d].step = "idle"
      /\ active \in Surface /\ begun \in [Command -> 0..MaxRuns]
  BY DEF Deliver, TypeInv, TypeOK
<1>2. begun' \in [Command -> 0..MaxRuns] /\ answered' \subseteq Command
  <2>1. begun[c] < MaxRuns => begun[c] + 1 \in 0..MaxRuns
    BY <1>1, ControlAssumption
  <2> QED  BY <1>1, <2>1 DEF Deliver, TypeInv, TypeOK
<1>3. /\ UNCHANGED <<phase, asked, identity, engineGen, stored, journal, generation, faults>>
      /\ cut' \subseteq Command /\ crossed' \in BOOLEAN
  <2>1. (crossed \/ (calls'[d].step \in Moving /\ OnItsWay)) \in BOOLEAN
    OBVIOUS
  <2>2. crossed' \in BOOLEAN
    BY <2>1 DEF Deliver
  <2> QED  BY <2>2 DEF Deliver, disk, TypeInv, TypeOK
<1>4. CASE UNCHANGED <<calls, listener>>
  <2>1. TypeOK'
    BY <1>2, <1>3, <1>4 DEF TypeInv, TypeOK, listener
  <2> QED  BY <1>3, <1>4, <2>1 DEF TypeInv, Sockets, At, listener
<1>5. CASE Note(d, c)
  <2>1. /\ calls' \in [Call -> Calls] /\ \A e \in Call \ {d} : calls'[e] = calls[e]
        /\ calls'[d].step = "journaling" /\ calls'[d].command = c
    BY <1>1, <1>5 DEF Note, Calls, Steps
  <2>2. TypeOK'
    BY <1>2, <1>3, <1>5, <2>1 DEF Note, TypeInv, TypeOK, listener
  <2>3. \A e \in Call : InProgress(calls'[e])
    BY <2>1 DEF TypeInv, InProgress, Moving
  <2>4. At("closing")' = At("closing") /\ At("opening")' = At("opening")
        /\ At("restoring")' = At("restoring")
    BY <1>1, <2>1 DEF At
  <2>5. Sockets'
    BY <1>3, <1>5, <2>4 DEF TypeInv, Sockets, Note, listener
  <2> QED  BY <2>2, <2>3, <2>5 DEF TypeInv
<1>6. CASE c.kind \in {"configure", "apply"} /\ ConfigureIn(d, c) /\ Acceptable(Wanted(c))
  <2> DEFINE moves == listening /\ Wanted(c).port # active.port
             s == IF moves THEN "closing" ELSE "saving"
  <2>1. Wanted(c) \in Surface /\ Wanted(c).port \in Ports
    BY WantedIsSurface, SurfaceParts DEF TypeInv
  <2>2. /\ calls' = [calls EXCEPT ![d] = [command |-> c, old |-> active, new |-> Wanted(c), step |-> s]]
        /\ bound' = IF moves THEN None ELSE bound
        /\ active' = IF moves THEN active ELSE Wanted(c)
        /\ listening' = listening
    BY <1>6 DEF ConfigureIn
  <2>3. /\ calls' \in [Call -> Calls] /\ \A e \in Call \ {d} : calls'[e] = calls[e]
        /\ calls'[d].step = s /\ calls'[d].command = c
        /\ calls'[d].old = active /\ calls'[d].new = Wanted(c)
    BY <1>1, <2>1, <2>2 DEF Calls, Steps
  <2>4. TypeOK'
    BY <1>1, <1>2, <1>3, <2>1, <2>2, <2>3 DEF TypeInv, TypeOK
  <2>5. \A e \in Call : InProgress(calls'[e])
    BY <1>1, <1>6, <2>1, <2>3 DEF TypeInv, InProgress, Moving
  <2>6. At("opening")' = At("opening") /\ At("restoring")' = At("restoring")
        /\ At("closing")' = IF moves THEN At("closing") \cup {d} ELSE At("closing")
    BY <1>1, <2>3 DEF At
  <2>7. Sockets'
    BY <1>3, <2>2, <2>6 DEF TypeInv, Sockets
  <2> QED  BY <2>4, <2>5, <2>7 DEF TypeInv
<1> QED
  BY <1>4, <1>5, <1>6 DEF Deliver, ConfigureIn

LEMMA CloseTyped == TypeInv /\ CloseEvent => TypeInv'
<1> SUFFICES ASSUME TypeInv, CloseEvent
             PROVE  TypeInv'
  OBVIOUS
<1>1. calls \in [Call -> Calls] /\ bound = None /\ listening
  BY DEF TypeInv, TypeOK, Sockets, CloseEvent
<1>2. PICK d \in At("closing") : active' = calls[d].new
  BY DEF CloseEvent
<1>3. active' \in Surface
  BY <1>2 DEF TypeInv, InProgress, Moving, At
<1>4. ASSUME NEW e \in Call
      PROVE  /\ calls'[e] \in Calls /\ InProgress(calls'[e])
             /\ calls[e].step = "closing" => calls'[e].step = "opening"
             /\ calls[e].step # "closing" => calls'[e].step = calls[e].step
  <2>1. calls[e] \in Calls /\ InProgress(calls[e])
    BY <1>1 DEF TypeInv
  <2>2. CASE e \in At("closing")
    <3>1. calls'[e] = [calls[e] EXCEPT !.step = "opening"] /\ calls[e].step = "closing"
      BY <2>2 DEF CloseEvent, At
    <3> QED  BY <2>1, <3>1 DEF Calls, Steps, InProgress, Moving
  <2>3. CASE e \notin At("closing")
    <3>1. calls'[e] = calls[e] /\ calls[e].step # "closing"
      BY <2>3 DEF CloseEvent, At
    <3> QED  BY <2>1, <3>1
  <2> QED  BY <2>2, <2>3
<1>5. calls' \in [Call -> Calls]
  <2>1. calls' = [e \in Call |-> calls'[e]]
    BY DEF CloseEvent
  <2> QED  BY <1>4, <2>1
<1>6. TypeOK'
  BY <1>1, <1>3, <1>5 DEF TypeInv, TypeOK, CloseEvent, disk, history
<1>7. At("closing")' = {} /\ At("restoring")' = {}
  <2>1. At("restoring") = {}
    BY <1>1 DEF TypeInv, Sockets
  <2> QED  BY <1>4, <2>1 DEF At
<1>8. Sockets'
  <2>1. phase \notin {"down", "starting"} /\ phase' = phase /\ ~listening'
    BY <1>1 DEF TypeInv, Sockets, CloseEvent
  <2> QED  BY <1>7, <2>1 DEF Sockets
<1> QED  BY <1>4, <1>6, <1>8 DEF TypeInv

LEMMA OpenTyped == TypeInv /\ Opened => TypeInv'
<1> SUFFICES ASSUME TypeInv, Opened
             PROVE  TypeInv'
  OBVIOUS
<1>1. calls \in [Call -> Calls]
  BY DEF TypeInv, TypeOK
<1>2. PICK d \in At("opening") : bound' = calls[d].new.port
  BY DEF Opened
<1>3. bound' \in Ports
  BY <1>2, SurfaceParts DEF TypeInv, InProgress, Moving, At
<1>4. ASSUME NEW e \in Call
      PROVE  /\ calls'[e] \in Calls /\ InProgress(calls'[e])
             /\ calls[e].step = "opening" => calls'[e].step = "saving"
             /\ calls[e].step # "opening" => calls'[e].step = calls[e].step
  <2>1. calls[e] \in Calls /\ InProgress(calls[e])
    BY <1>1 DEF TypeInv
  <2>2. CASE e \in At("opening")
    <3>1. calls'[e] = [calls[e] EXCEPT !.step = "saving"] /\ calls[e].step = "opening"
      BY <2>2 DEF Opened, At
    <3> QED  BY <2>1, <3>1 DEF Calls, Steps, InProgress, Moving
  <2>3. CASE e \notin At("opening")
    <3>1. calls'[e] = calls[e] /\ calls[e].step # "opening"
      BY <2>3 DEF Opened, At
    <3> QED  BY <2>1, <3>1
  <2> QED  BY <2>2, <2>3
<1>5. calls' \in [Call -> Calls]
  <2>1. calls' = [e \in Call |-> calls'[e]]
    BY DEF Opened
  <2> QED  BY <1>4, <2>1
<1>6. TypeOK'
  BY <1>1, <1>3, <1>5 DEF TypeInv, TypeOK, Opened, disk, history
<1>7. At("closing")' = {} /\ At("opening")' = {} /\ At("restoring")' = {}
  <2>1. At("closing") = {} /\ At("restoring") = {}
    BY <1>2 DEF TypeInv, Sockets
  <2> QED  BY <1>4, <2>1 DEF At
<1>8. Sockets'
  <2>1. phase \notin {"down", "starting"} /\ phase' = phase
    BY <1>2 DEF TypeInv, Sockets, Opened
  <2> QED  BY <1>7, <2>1 DEF Sockets
<1> QED  BY <1>4, <1>6, <1>8 DEF TypeInv

LEMMA RefusedTyped == ASSUME TypeInv, NEW d \in Call, Refused(d)  PROVE TypeInv'
<1>1. /\ calls \in [Call -> Calls] /\ calls[d].step = "opening"
      /\ calls[d].old \in Surface /\ ~listening
      /\ At("closing") = {} /\ At("opening") = {d} /\ At("restoring") = {}
      /\ phase \notin {"down", "starting"}
  <2>1. d \in At("opening") /\ At("opening") = {d}
    BY DEF Refused
  <2> QED  BY <2>1 DEF TypeInv, TypeOK, Sockets, InProgress, Moving, At
<1>2. Goto(d, "restoring") /\ "restoring" \in Steps
  BY DEF Refused, Steps
<1>3. calls' \in [Call -> Calls] /\ \A e \in Call : InProgress(calls'[e])
  BY <1>1, <1>2, GotoInProgress DEF Moving
<1>4. faults' \in 0..MaxFaults
  BY ControlAssumption DEF Refused, TypeInv, TypeOK
<1>5. TypeOK'
  BY <1>1, <1>3, <1>4 DEF Refused, TypeInv, TypeOK, disk, history
<1>6. At("closing")' = {} /\ At("opening")' = {} /\ At("restoring")' = {d}
  BY <1>1, <1>2, GotoMoves DEF At
<1>7. Sockets'
  BY <1>1, <1>6 DEF Sockets, Refused
<1> QED  BY <1>3, <1>5, <1>7 DEF TypeInv

LEMMA RestoredTyped == ASSUME TypeInv, NEW d \in Call, Restored(d)  PROVE TypeInv'
<1>1. /\ calls \in [Call -> Calls] /\ calls[d].step = "restoring"
      /\ calls[d].old \in Surface /\ ~listening
      /\ At("closing") = {} /\ At("opening") = {} /\ At("restoring") = {d}
      /\ phase \notin {"down", "starting"}
  <2>1. d \in At("restoring")
    BY DEF Restored, At
  <2> QED  BY <2>1 DEF TypeInv, TypeOK, Sockets, InProgress, Moving, At
<1>2. Goto(d, "idle") /\ "idle" \in Steps
  BY DEF Restored, Steps
<1>3. calls' \in [Call -> Calls] /\ \A e \in Call : InProgress(calls'[e])
  BY <1>1, <1>2, GotoInProgress DEF Moving
<1>4. /\ faults' \in 0..MaxFaults /\ bound' \in Ports \cup {None}
      /\ listening' \in BOOLEAN /\ (bound' # None => listening')
  <2>1. calls[d].old.port \in Ports /\ bound = None /\ listening = FALSE
    BY <1>1, SurfaceParts DEF TypeInv, TypeOK
  <2>2. faults \in 0..MaxFaults /\ (faults < MaxFaults => faults + 1 \in 0..MaxFaults)
    BY ControlAssumption DEF TypeInv, TypeOK
  <2>3. CASE bound' = calls[d].old.port /\ listening' = TRUE /\ UNCHANGED faults
    BY <2>1, <2>2, <2>3
  <2>4. CASE faults < MaxFaults /\ faults' = faults + 1 /\ UNCHANGED <<bound, listening>>
    BY <1>1, <2>1, <2>2, <2>4
  <2> QED  BY <2>3, <2>4 DEF Restored
<1>5. TypeOK'
  BY <1>3, <1>4 DEF Restored, TypeInv, TypeOK, disk, history
<1>6. At("closing")' = {} /\ At("opening")' = {} /\ At("restoring")' = {}
  BY <1>1, <1>2, GotoMoves DEF At
<1>7. Sockets'
  BY <1>1, <1>6 DEF Sockets, Restored
<1> QED  BY <1>3, <1>5, <1>7 DEF TypeInv

LEMMA WriteTyped ==
  ASSUME TypeInv, NEW d \in Call, Save(d) \/ Journal(d) \/ Bump(d)
  PROVE  TypeInv'
<1>1. calls \in [Call -> Calls] /\ InProgress(calls[d])
  BY DEF TypeInv, TypeOK
<1>2. CASE Save(d)
  <2>1. /\ calls[d].step = "saving" /\ calls[d].new \in Surface
        /\ Goto(d, "journaling") /\ "journaling" \in Steps
    BY <1>1, <1>2 DEF Save, InProgress, Moving, Steps
  <2>2. identity' \in Surface
    <3>1. identity \in Surface /\ calls[d].new.template \in Templates
      BY <2>1, SurfaceParts DEF TypeInv, TypeOK
    <3>2. [identity EXCEPT !.template = calls[d].new.template] \in Surface
      BY <3>1 DEF Surface
    <3> QED  BY <1>2, <2>1, <3>2 DEF Save
  <2>3. calls' \in [Call -> Calls]
    BY <1>1, <2>1, GotoMoves
  <2>4. TypeOK'
    BY <1>2, <2>1, <2>2, <2>3 DEF Save, TypeInv, TypeOK, listener, history
  <2> QED  BY <1>2, <2>1, <2>4, GotoTyped DEF Save, listener
<1>3. CASE Journal(d)
  <2> DEFINE s == AfterJournal(calls[d].command)
  <2>1. /\ calls[d].step = "journaling" /\ calls[d].command \in Command
        /\ Goto(d, s) /\ s \in {"bumping", "leaving", "idle"}
    BY <1>1, <1>3 DEF Journal, InProgress, AfterJournal
  <2>2. s \in Steps
    BY <2>1 DEF Steps
  <2>3. calls' \in [Call -> Calls]
    BY <1>1, <2>1, <2>2, GotoMoves
  <2>4. TypeOK'
    BY <1>3, <2>1, <2>3 DEF Journal, TypeInv, TypeOK, listener
  <2>5. UNCHANGED <<bound, listening, phase>>
    BY <1>3 DEF Journal, listener
  <2> QED  BY <2>1, <2>2, <2>4, <2>5, GotoTyped
<1>4. CASE Bump(d)
  <2>1. /\ calls[d].step = "bumping" /\ calls[d].command \in Command
        /\ Goto(d, "idle") /\ "idle" \in Steps
    BY <1>1, <1>4 DEF Bump, InProgress, Steps
  <2>2. calls' \in [Call -> Calls]
    BY <1>1, <2>1, GotoMoves
  <2>3. TypeOK'
    BY <1>4, <2>1, <2>2 DEF Bump, TypeInv, TypeOK, listener
  <2> QED  BY <1>4, <2>1, <2>3, GotoTyped DEF Bump, listener
<1> QED  BY <1>2, <1>3, <1>4

LEMMA LifeTyped ==
  ASSUME TypeInv, (\E d \in Call : Leave(d)) \/ Exit \/ Crash \/ Start \/ Started \/ NotStarted
  PROVE  TypeInv'
<1>1. ASSUME NEW d \in Call, Leave(d)
      PROVE  TypeInv'
  <2>1. calls[d].step = "leaving" /\ Goto(d, "idle") /\ "idle" \in Steps
    BY <1>1 DEF Leave, Steps
  <2>2. calls' \in [Call -> Calls]
    BY <2>1, GotoMoves DEF TypeInv, TypeOK
  <2>3. TypeOK'
    BY <1>1, <2>2 DEF Leave, TypeInv, TypeOK, listener, disk, history
  <2> QED  BY <1>1, <2>1, <2>3, GotoTyped DEF Leave, listener
<1>2. CASE Exit \/ Crash \/ NotStarted
  <2>1. Die /\ faults' \in 0..MaxFaults
    BY <1>2, ControlAssumption DEF Exit, Crash, NotStarted, TypeInv, TypeOK
  <2> QED  BY <2>1, DieTyped
<1>3. CASE Start
  <2> DEFINE s == IF stored = None THEN Default ELSE stored
  <2>1. s \in Surface /\ s.port \in Ports
    <3>1. s \in Surface
      BY ControlAssumption DEF TypeInv, TypeOK
    <3> QED  BY <3>1, SurfaceParts
  <2>2. /\ phase = "down" /\ phase' = "starting"
        /\ active' = s /\ stored' = s /\ identity' = s /\ asked' = s.port
        /\ engineGen' = generation
        /\ UNCHANGED <<listening, bound, calls, journal, generation, history, faults>>
    BY <1>3 DEF Start
  <2>3. TypeOK'
    BY <2>1, <2>2 DEF TypeInv, TypeOK, history
  <2>4. Sockets'
    BY <2>2 DEF TypeInv, Sockets, At
  <2> QED  BY <2>2, <2>3, <2>4 DEF TypeInv
<1>4. CASE Started
  <2>1. TypeOK'
    BY <1>4 DEF Started, TypeInv, TypeOK, disk, history
  <2>2. Sockets'
    BY <1>4 DEF Started, TypeInv, Sockets, At
  <2> QED  BY <1>4, <2>1, <2>2 DEF Started, TypeInv
<1> QED  BY <1>1, <1>2, <1>3, <1>4

LEMMA StutterTyped == TypeInv /\ UNCHANGED vars => TypeInv'
<1> SUFFICES ASSUME TypeInv, UNCHANGED vars
             PROVE  TypeInv'
  OBVIOUS
<1>1. TypeOK'
  BY DEF vars, listener, disk, history, TypeInv, TypeOK
<1>2. Sockets'
  BY DEF vars, listener, TypeInv, Sockets, At
<1> QED  BY <1>1, <1>2 DEF vars, TypeInv

LEMMA NextTyped == TypeInv /\ [Next]_vars => TypeInv'
<1> SUFFICES ASSUME TypeInv, [Next]_vars
             PROVE  TypeInv'
  OBVIOUS
<1>1. ASSUME NEW d \in Call, Step(d)
      PROVE  TypeInv'
  BY <1>1, DeliverTyped, RefusedTyped, RestoredTyped, WriteTyped, LifeTyped DEF Step
<1> QED
  BY <1>1, CloseTyped, OpenTyped, LifeTyped, StutterTyped DEF Next

LEMMA AlwaysTyped == Spec => []TypeInv
BY InitTyped, NextTyped, PTL DEF Spec

\* Every variable keeps its shape, and an open socket is known to be open, with
\* any number of commands overtaking each other.
THEOREM TypeCorrect == Spec => []TypeOK
<1>1. TypeInv => TypeOK
  BY DEF TypeInv
<1> QED  BY <1>1, AlwaysTyped, PTL

-----------------------------------------------------------------------------
(* What is stored can be started.                                          *)

LEMMA NextStartable == TypeInv /\ StartableConfig /\ [Next]_vars => StartableConfig'
<1> SUFFICES ASSUME TypeInv, StartableConfig, [Next]_vars
             PROVE  StartableConfig'
  OBVIOUS
<1>1. CASE UNCHANGED stored
  BY <1>1 DEF StartableConfig
<1>2. ASSUME NEW d \in Call, Save(d)
      PROVE  StartableConfig'
  <2>1. stored' = calls[d].new /\ Acceptable(calls[d].new)
    BY <1>2 DEF Save, TypeInv, InProgress, Moving
  <2> QED  BY <2>1 DEF StartableConfig, Acceptable
<1>3. CASE Start
  BY <1>3 DEF Start, StartableConfig
<1> QED
  BY <1>1, <1>2, <1>3
  DEF Next, Step, Deliver, Refused, Restored, Journal, Bump, Leave, CloseEvent, Opened,
      Exit, Crash, Started, NotStarted, Die, disk, history, vars

\* Whatever commands overtake each other, and whenever the node dies, the
\* surface it has stored is one that its start accepts.
THEOREM AlwaysStartable == Spec => []StartableConfig
<1>1. Init => StartableConfig
  BY DEF Init, StartableConfig
<1> QED  BY <1>1, AlwaysTyped, NextStartable, PTL DEF Spec

-----------------------------------------------------------------------------
(* The journal.                                                            *)

Rotating(k) == k.step # "idle" /\ k.command.kind = "rotate"

\* A call that goes on after the journal has its command in it; a rotation is
\* always busy, so there is one at most, and it is journaled for the first time.
Journaled ==
  /\ answered \subseteq journal
  /\ \A d \in Call :
       /\ calls[d].step \in {"bumping", "leaving"} => calls[d].command \in journal
       /\ calls[d].step = "bumping"
            => calls[d].command.kind = "rotate" /\ calls[d].command.route = "control"
       /\ calls[d].step = "leaving" => calls[d].command.kind = "restart"
       /\ Rotating(calls[d]) => calls[d].step \in {"journaling", "bumping"}
       /\ Rotating(calls[d]) /\ calls[d].step = "journaling" => calls[d].command \notin journal
  /\ \A d, e \in Call : Rotating(calls[d]) /\ Rotating(calls[e]) => d = e

JournalInv == TypeInv /\ Journaled

LEMMA IdleJournaled ==
  ASSUME answered \subseteq journal, \A d \in Call : calls[d].step = "idle"
  PROVE  Journaled
BY DEF Journaled, Rotating

\* Only a delivery and a write of a call change what Journaled speaks about.
LEMMA DeliverJournaled ==
  ASSUME JournalInv, NEW d \in Call, NEW c \in Command, Deliver(d, c)
  PROVE  Journaled'
<1>1. /\ calls \in [Call -> Calls] /\ calls[d].step = "idle" /\ journal' = journal
      /\ answered \subseteq journal
      /\ \A e \in Call : ~Rotating(calls[e])
  <2>1. ASSUME NEW e \in Call
        PROVE  ~Rotating(calls[e])
    <3>1. calls[e].step \notin {"journaling", "bumping"}
      BY DEF Deliver, Busy, At
    <3> QED  BY <3>1 DEF JournalInv, Journaled
  <2> QED  BY <2>1 DEF JournalInv, TypeInv, TypeOK, Deliver, disk, history, Journaled
<1>2. CASE UNCHANGED calls
  <2>1. answered' \subseteq journal'
    BY <1>1 DEF Deliver, Known
  <2> QED  BY <1>1, <1>2, <2>1 DEF JournalInv, Journaled
<1>3. ASSUME NEW k \in Calls, calls' = [calls EXCEPT ![d] = k], c \notin journal,
             k.command = c, k.step \in {"closing", "saving", "journaling"},
             answered' = answered, k.step # "journaling" => c.kind # "rotate"
      PROVE  Journaled'
  <2>1. calls'[d] = k /\ \A e \in Call : e # d => calls'[e] = calls[e]
    BY <1>1, <1>3
  <2>2. ASSUME NEW e \in Call
        PROVE  Rotating(calls'[e]) => e = d
    BY <1>1, <2>1
  <2>3. ASSUME NEW e \in Call
        PROVE  /\ calls'[e].step \in {"bumping", "leaving"} => calls'[e].command \in journal
               /\ calls'[e].step = "bumping"
                    => calls'[e].command.kind = "rotate" /\ calls'[e].command.route = "control"
               /\ calls'[e].step = "leaving" => calls'[e].command.kind = "restart"
               /\ Rotating(calls'[e]) => calls'[e].step \in {"journaling", "bumping"}
               /\ Rotating(calls'[e]) /\ calls'[e].step = "journaling"
                    => calls'[e].command \notin journal
    <3>1. CASE e = d
      BY <1>3, <2>1, <3>1 DEF Rotating
    <3>2. CASE e # d
      BY <1>1, <2>1, <3>2 DEF JournalInv, Journaled
    <3> QED  BY <3>1, <3>2
  <2> QED  BY <1>1, <1>3, <2>2, <2>3 DEF Journaled
<1>4. CASE Note(d, c) /\ c \notin journal /\ answered' = answered
  <2> DEFINE k == [calls[d] EXCEPT !.command = c, !.step = "journaling"]
  <2>1. k \in Calls /\ k.command = c /\ k.step = "journaling"
    BY <1>1 DEF Calls, Steps
  <2>2. calls' = [calls EXCEPT ![d] = k]
    BY <1>1, <1>4 DEF Note
  <2> QED  BY <1>3, <1>4, <2>1, <2>2
<1>5. CASE /\ c.kind \in {"configure", "apply"} /\ ConfigureIn(d, c) /\ c \notin journal
           /\ answered' = answered /\ Acceptable(Wanted(c))
  <2> DEFINE s == IF listening /\ Wanted(c).port # active.port THEN "closing" ELSE "saving"
             k == [command |-> c, old |-> active, new |-> Wanted(c), step |-> s]
  <2>1. active \in Surface /\ Wanted(c) \in Surface
    BY WantedIsSurface DEF JournalInv, TypeInv, TypeOK
  <2>2. k \in Calls /\ k.command = c /\ k.step \in {"closing", "saving"}
    BY <2>1 DEF Calls, Steps
  <2>3. calls' = [calls EXCEPT ![d] = k]
    BY <1>5 DEF ConfigureIn
  <2>4. c.kind # "rotate"
    BY <1>5
  <2> HIDE DEF k
  <2> QED  BY <1>3, <1>5, <2>2, <2>3, <2>4
<1> QED
  BY <1>2, <1>4, <1>5 DEF Deliver, Known, ConfigureIn

\* A step of a call that does not go to another write.
LEMMA StepJournaled ==
  ASSUME JournalInv, UNCHANGED <<journal, answered>>, calls' \in [Call -> Calls],
         \A e \in Call :
           \/ calls'[e] = calls[e]
           \/ calls'[e].step = "idle"
           \/ /\ calls[e].step \in Moving /\ calls'[e].step \notin {"idle", "bumping", "leaving"}
              /\ calls'[e].command = calls[e].command
  PROVE  Journaled'
<1>1. ASSUME NEW e \in Call
      PROVE  /\ Rotating(calls'[e]) => Rotating(calls[e]) /\ calls'[e] = calls[e]
             /\ calls'[e] # calls[e] => calls'[e].step \notin {"bumping", "leaving"}
  <2>1. calls[e].step \in Moving => calls[e].command.kind # "rotate"
    BY DEF JournalInv, TypeInv, InProgress
  <2> QED  BY <2>1 DEF Rotating, Moving
<1> QED  BY <1>1 DEF JournalInv, Journaled

LEMMA WriteJournaled ==
  ASSUME JournalInv, NEW d \in Call, Journal(d) \/ Bump(d)
  PROVE  Journaled'
<1>1. calls \in [Call -> Calls] /\ InProgress(calls[d])
  BY DEF JournalInv, TypeInv, TypeOK
<1>2. CASE Journal(d)
  <2> DEFINE c == calls[d].command
             s == AfterJournal(c)
  <2>1. /\ calls[d].step = "journaling" /\ c \in Command /\ s \in {"bumping", "leaving", "idle"}
        /\ s = "bumping" => c.kind = "rotate" /\ c.route = "control"
        /\ s = "leaving" => c.kind = "restart"
        /\ journal' = journal \cup {c} /\ answered' \subseteq answered \cup {c}
        /\ Goto(d, s)
    BY <1>1, <1>2 DEF Journal, InProgress, AfterJournal
  <2>2. /\ calls'[d].step = s /\ \A e \in Call : e # d => calls'[e] = calls[e]
        /\ s # "idle" => calls'[d].command = c
    BY <1>1, <2>1, GotoMoves DEF Steps
  <2>3. ASSUME NEW e \in Call, e # d, Rotating(calls[e])
        PROVE  calls[e].command # c
    <3>1. ~Rotating(calls[d])
      BY <2>3 DEF JournalInv, Journaled
    <3> QED  BY <2>1, <2>3, <3>1 DEF Rotating
  <2>4. ASSUME NEW e \in Call
        PROVE  /\ calls'[e].step \in {"bumping", "leaving"} => calls'[e].command \in journal'
               /\ calls'[e].step = "bumping"
                    => calls'[e].command.kind = "rotate" /\ calls'[e].command.route = "control"
               /\ calls'[e].step = "leaving" => calls'[e].command.kind = "restart"
               /\ Rotating(calls'[e]) => /\ calls'[e].step \in {"journaling", "bumping"}
                                         /\ Rotating(calls[e])
               /\ Rotating(calls'[e]) /\ calls'[e].step = "journaling"
                    => calls'[e].command \notin journal'
    <3>1. CASE e = d
      BY <2>1, <2>2, <3>1 DEF Rotating
    <3>2. CASE e # d
      BY <2>1, <2>2, <2>3, <3>2 DEF JournalInv, Journaled
    <3> QED  BY <3>1, <3>2
  <2> QED  BY <2>1, <2>4 DEF JournalInv, Journaled
<1>3. CASE Bump(d)
  <2>1. /\ calls[d].step = "bumping" /\ Goto(d, "idle") /\ "idle" \in Steps
        /\ journal' = journal /\ answered' = answered \cup {calls[d].command}
    BY <1>3 DEF Bump, Steps
  <2>2. answered' \subseteq journal'
    BY <2>1 DEF JournalInv, Journaled
  <2>3. /\ calls'[d].step = "idle" /\ \A e \in Call : e # d => calls'[e] = calls[e]
    BY <1>1, <2>1, GotoMoves
  <2> QED  BY <2>1, <2>2, <2>3 DEF JournalInv, Journaled, Rotating
<1> QED  BY <1>2, <1>3

LEMMA NextJournaled == JournalInv /\ [Next]_vars => Journaled'
<1> SUFFICES ASSUME JournalInv, [Next]_vars
             PROVE  Journaled'
  OBVIOUS
<1>1. calls \in [Call -> Calls] /\ calls' \in [Call -> Calls]
  BY NextTyped DEF JournalInv, TypeInv, TypeOK
<1>2. ASSUME NEW d \in Call, NEW s \in Steps, Goto(d, s), UNCHANGED <<journal, answered>>,
             s = "idle" \/ (calls[d].step \in Moving /\ s \notin {"bumping", "leaving"})
      PROVE  Journaled'
  <2>1. /\ calls'[d].step = s /\ \A e \in Call : e # d => calls'[e] = calls[e]
        /\ s # "idle" => calls'[d].command = calls[d].command
    BY <1>1, <1>2, GotoMoves
  <2> QED  BY <1>1, <1>2, <2>1, StepJournaled
<1>3. CASE CloseEvent \/ Opened
  <2>1. UNCHANGED <<journal, answered>>
    BY <1>3 DEF CloseEvent, Opened, disk, history
  <2>2. ASSUME NEW e \in Call
        PROVE  \/ calls'[e] = calls[e]
               \/ /\ calls[e].step \in Moving
                  /\ calls'[e].step \notin {"idle", "bumping", "leaving"}
                  /\ calls'[e].command = calls[e].command
    <3>1. calls[e] \in Calls
      BY <1>1
    <3>2. \/ calls'[e] = calls[e]
          \/ /\ calls[e].step \in {"closing", "opening"}
             /\ \/ calls'[e] = [calls[e] EXCEPT !.step = "opening"]
                \/ calls'[e] = [calls[e] EXCEPT !.step = "saving"]
      BY <1>3 DEF CloseEvent, Opened, At
    <3> QED  BY <3>1, <3>2 DEF Moving, Calls
  <2> QED  BY <1>1, <2>1, <2>2, StepJournaled
<1>4. ASSUME NEW d \in Call, Refused(d) \/ Restored(d) \/ Save(d) \/ Leave(d)
      PROVE  Journaled'
  <2>1. UNCHANGED <<journal, answered>>
    BY <1>4 DEF Refused, Restored, Save, Leave, disk, history
  <2>2. CASE Refused(d)
    <3>1. calls[d].step = "opening" /\ Goto(d, "restoring")
      BY <2>2 DEF Refused, At
    <3> QED  BY <1>2, <2>1, <3>1 DEF Steps, Moving
  <2>3. CASE Restored(d) \/ Leave(d)
    BY <1>2, <2>1, <2>3 DEF Restored, Leave, Steps
  <2>4. CASE Save(d)
    BY <1>2, <2>1, <2>4 DEF Save, Steps, Moving
  <2> QED  BY <1>4, <2>2, <2>3, <2>4
<1>5. CASE Exit \/ Crash \/ NotStarted
  <2>1. /\ calls' = [d \in Call |-> IdleCall] /\ UNCHANGED <<journal, answered>>
    BY <1>5 DEF Exit, Crash, NotStarted, Die, disk, history
  <2>2. \A e \in Call : calls'[e].step = "idle"
    BY <2>1 DEF IdleCall
  <2> QED  BY <1>1, <2>1, <2>2, StepJournaled
<1>6. CASE Start \/ Started \/ UNCHANGED vars
  <2>1. UNCHANGED <<journal, answered, calls>>
    BY <1>6 DEF Start, Started, vars, disk, history
  <2> QED  BY <1>1, <2>1, StepJournaled
<1> QED
  BY <1>3, <1>4, <1>5, <1>6, DeliverJournaled, WriteJournaled DEF Next, Step

LEMMA AlwaysJournaled == Spec => []JournalInv
<1>1. Init => JournalInv
  <2>1. ASSUME Init
        PROVE  Journaled
    BY <2>1, IdleJournaled DEF Init, IdleCall
  <2> QED  BY <2>1, InitTyped DEF JournalInv
<1>2. JournalInv /\ [Next]_vars => JournalInv'
  BY NextTyped, NextJournaled DEF JournalInv
<1> QED  BY <1>1, <1>2, PTL DEF Spec

\* A command that Central got a success for is never begun again, through
\* repeated deliveries, overlaps and restarts.
THEOREM AnsweredIsFinal == Spec => NotAgainAfterAnswer
<1> DEFINE Step1 == \A c \in answered : begun'[c] = begun[c]
<1>1. JournalInv /\ [Next]_vars => [Step1]_vars
  <2> SUFFICES ASSUME JournalInv, Next, NEW c \in answered
               PROVE  begun'[c] = begun[c]
    OBVIOUS
  <2>1. c \in journal
    BY DEF JournalInv, Journaled
  <2>2. ASSUME NEW d \in Call, NEW e \in Command, Deliver(d, e)
        PROVE  begun'[c] = begun[c]
    BY <2>1, <2>2 DEF Deliver, Known, JournalInv, TypeInv, TypeOK
  <2> QED
    BY <2>2 DEF Next, Step, Refused, Restored, Save, Journal, Bump, Leave, CloseEvent,
                Opened, Exit, Crash, Start, Started, NotStarted, Die, history
<1> QED  BY <1>1, AlwaysJournaled, PTL DEF Spec, NotAgainAfterAnswer

-----------------------------------------------------------------------------
(* Rotations.                                                              *)

\* The rotations between their two writes.
Bumping == {calls[d].command : d \in At("bumping")}

\* The rotations that the generation counts are in the journal, as are those
\* that were cut short, which no call goes on with.
Counted ==
  /\ IsFiniteSet(journal) /\ cut \subseteq journal /\ Bumping \cap cut = {}
  /\ generation = Cardinality(Due)

LEMMA DueIsFinite ==
  ASSUME IsFiniteSet(journal)
  PROVE  IsFiniteSet(Due)
BY FS_Subset DEF Due, Rotations

\* At most one call is between the two writes of a rotation.
LEMMA BumpsAlone ==
  ASSUME JournalInv, NEW d \in Call, Rotating(calls[d])
  PROVE  Bumping = IF calls[d].step = "bumping" THEN {calls[d].command} ELSE {}
<1>1. ASSUME NEW e \in At("bumping")
      PROVE  e = d
  BY <1>1 DEF JournalInv, Journaled, Rotating, At
<1> QED  BY <1>1 DEF Bumping, At

\* Of one call, only its own rotation comes or goes.
LEMMA SameBumping ==
  ASSUME \A e \in Call :
           \/ calls'[e].step # "bumping" /\ calls[e].step # "bumping"
           \/ calls'[e] = calls[e]
  PROVE  Bumping' = Bumping
BY DEF Bumping, At

LEMMA JournalCounted ==
  ASSUME JournalInv, Counted, NEW d \in Call, Journal(d)
  PROVE  Counted'
<1> DEFINE c == calls[d].command
           s == AfterJournal(c)
<1>1. /\ calls \in [Call -> Calls] /\ calls[d].step = "journaling"
      /\ s \in {"bumping", "leaving", "idle"}
      /\ s = "bumping" <=> (c.kind = "rotate" /\ c.route = "control")
      /\ journal' = journal \cup {c} /\ generation' = generation /\ cut' = cut /\ Goto(d, s)
  BY DEF Journal, AfterJournal, JournalInv, TypeInv, TypeOK
<1>2. /\ calls'[d].step = s /\ \A e \in Call : e # d => calls'[e] = calls[e]
      /\ s # "idle" => calls'[d].command = c
  BY <1>1, GotoMoves DEF Steps
<1>3. IsFiniteSet(journal')
  BY <1>1, FS_AddElement DEF Counted
<1>4. CASE s = "bumping"
  <2>1. Rotating(calls[d])
    BY <1>1, <1>4 DEF Rotating
  <2>2. c \notin journal /\ Bumping = {}
    BY <1>1, <2>1, BumpsAlone DEF JournalInv, Journaled
  <2>3. Bumping' = {c}
    <3>1. \A e \in Call : calls[e].step # "bumping"
      BY <2>2 DEF Bumping, At
    <3>2. \A e \in Call : calls'[e].step = "bumping" <=> e = d
      BY <1>2, <1>4, <3>1
    <3> QED  BY <1>2, <1>4, <3>2 DEF Bumping, At
  <2>4. Due' = Due
    BY <1>1, <1>4, <2>2, <2>3 DEF Due, Rotations, Bumping
  <2> QED  BY <1>1, <1>3, <2>2, <2>3, <2>4 DEF Counted
<1>5. CASE s # "bumping"
  <2>1. Bumping' = Bumping
    BY <1>1, <1>2, <1>5, SameBumping
  <2>2. Due' = Due
    BY <1>1, <1>5, <2>1 DEF Due, Rotations, Bumping
  <2> QED  BY <1>1, <1>3, <2>1, <2>2 DEF Counted
<1> QED  BY <1>4, <1>5

LEMMA BumpCounted ==
  ASSUME JournalInv, Counted, NEW d \in Call, Bump(d)
  PROVE  Counted'
<1> DEFINE c == calls[d].command
<1>1. /\ calls \in [Call -> Calls] /\ calls[d].step = "bumping" /\ Goto(d, "idle")
      /\ journal' = journal /\ cut' = cut /\ generation' = generation + 1
      /\ c \in journal /\ c.kind = "rotate" /\ c.route = "control"
  BY DEF Bump, JournalInv, Journaled, TypeInv, TypeOK
<1>2. calls'[d].step = "idle" /\ \A e \in Call : e # d => calls'[e] = calls[e]
  BY <1>1, GotoMoves DEF Steps
<1>3. Bumping = {c}
  <2>1. Rotating(calls[d])
    BY <1>1 DEF Rotating
  <2> QED  BY <1>1, <2>1, BumpsAlone
<1>4. Bumping' = {}
  <2>1. ASSUME NEW e \in At("bumping")
        PROVE  e = d
    BY <1>1, <2>1 DEF JournalInv, Journaled, Rotating, At
  <2> QED  BY <1>2, <2>1 DEF Bumping, At
<1>5. c \notin Due /\ Due' = Due \cup {c}
  BY <1>1, <1>3, <1>4 DEF Due, Rotations, Bumping, Counted
<1>6. Cardinality(Due') = Cardinality(Due) + 1
  BY <1>5, DueIsFinite, FS_AddElement DEF Counted
<1> QED  BY <1>1, <1>4, <1>6 DEF Counted

LEMMA NextCounted == JournalInv /\ Counted /\ [Next]_vars => Counted'
<1> SUFFICES ASSUME JournalInv, Counted, [Next]_vars
             PROVE  Counted'
  OBVIOUS
<1>1. calls \in [Call -> Calls]
  BY DEF JournalInv, TypeInv, TypeOK
<1>2. ASSUME UNCHANGED <<journal, generation, cut>>, Bumping' = Bumping
      PROVE  Counted'
  <2>1. Due' = Due
    BY <1>2 DEF Due, Rotations, Bumping
  <2> QED  BY <1>2, <2>1 DEF Counted
<1>3. CASE Exit \/ Crash \/ NotStarted
  <2>1. /\ cut' = cut \cup Bumping /\ calls' = [d \in Call |-> IdleCall]
        /\ UNCHANGED <<journal, generation>>
    BY <1>3 DEF Exit, Crash, NotStarted, Die, disk, history, Bumping
  <2>2. Bumping' = {}
    BY <2>1 DEF Bumping, At, IdleCall
  <2>3. Bumping \subseteq journal
    BY DEF JournalInv, Journaled, Bumping, At
  <2>4. Due' = Due
    BY <2>1, <2>2 DEF Due, Rotations, Bumping
  <2> QED  BY <2>1, <2>2, <2>3, <2>4 DEF Counted
<1>4. ASSUME ~(\E d \in Call : Journal(d) \/ Bump(d)), ~(Exit \/ Crash \/ NotStarted)
      PROVE  Counted'
  <2>1. UNCHANGED <<journal, generation, cut>>
    BY <1>4 DEF Next, Step, Deliver, Refused, Restored, Save, Leave, CloseEvent, Opened,
                Start, Started, disk, history, vars
  <2>2. ASSUME NEW e \in Call
        PROVE  \/ calls'[e].step # "bumping" /\ calls[e].step # "bumping"
               \/ calls'[e] = calls[e]
    <3>1. ASSUME NEW d \in Call, NEW s \in Steps, Goto(d, s), s # "bumping",
                 calls[d].step # "bumping"
          PROVE  \/ calls'[e].step # "bumping" /\ calls[e].step # "bumping"
                 \/ calls'[e] = calls[e]
      BY <1>1, <3>1, GotoMoves
    <3>2. ASSUME NEW d \in Call, Refused(d) \/ Restored(d) \/ Save(d) \/ Leave(d)
          PROVE  \/ calls'[e].step # "bumping" /\ calls[e].step # "bumping"
                 \/ calls'[e] = calls[e]
      BY <3>1, <3>2 DEF Refused, Restored, Save, Leave, Steps, At
    <3>3. ASSUME NEW d \in Call, NEW c \in Command, Deliver(d, c)
          PROVE  \/ calls'[e].step # "bumping" /\ calls[e].step # "bumping"
                 \/ calls'[e] = calls[e]
      BY <1>1, <3>3 DEF Deliver, ConfigureIn, Note, Calls
    <3>4. CASE CloseEvent \/ Opened
      BY <1>1, <3>4 DEF CloseEvent, Opened, Calls, At
    <3>5. CASE Start \/ Started \/ UNCHANGED vars
      BY <3>5 DEF Start, Started, vars
    <3> QED  BY <1>4, <3>2, <3>3, <3>4, <3>5 DEF Next, Step
  <2>3. Bumping' = Bumping
    BY <2>2, SameBumping
  <2> QED  BY <1>2, <2>1, <2>3
<1> QED  BY <1>3, <1>4, JournalCounted, BumpCounted

\* A rotation command rotates once, whatever is repeated and overtaken, unless
\* the node dies between its two writes.
THEOREM OneRotationPerCommand == Spec => []RotatesOnce
<1>1. Init => Counted
  <2> SUFFICES ASSUME Init
               PROVE  Counted
    OBVIOUS
  <2>1. Bumping = {} /\ Due = {} /\ journal = {} /\ generation = 0 /\ cut = {}
    BY DEF Init, Bumping, At, IdleCall, Rotations, Due
  <2> QED  BY <2>1, FS_EmptySet DEF Counted
<1>2. Counted => RotatesOnce
  BY DEF Counted, RotatesOnce
<1> QED  BY <1>1, <1>2, AlwaysJournaled, NextCounted, PTL DEF Spec

-----------------------------------------------------------------------------
(* One surface.                                                            *)

\* A process that is not running has no calls.
Running ==
  /\ phase = "down" => Quiet
  /\ phase # "down" => engineGen = generation

LEMMA NextRunning == TypeInv /\ Running /\ [Next]_vars => Running'
<1> SUFFICES ASSUME TypeInv, Running, [Next]_vars
             PROVE  Running'
  OBVIOUS
<1>1. ASSUME NEW d \in Call, Step(d)
      PROVE  Running'
  <2>1. phase # "down"
    <3>1. calls[d].step # "idle" => phase # "down"
      BY DEF Running, Quiet, At
    <3>2. d \in At("opening") => calls[d].step # "idle"
      BY DEF At
    <3> QED
      BY <1>1, <3>1, <3>2 DEF Step, Deliver, Refused, Restored, Save, Journal, Bump, Leave
  <2>2. phase' # "down" /\ (engineGen = generation => engineGen' = generation')
    BY <1>1, <2>1
    DEF Step, Deliver, Refused, Restored, Save, Journal, Bump, Leave, disk, history
  <2> QED  BY <2>1, <2>2 DEF Running
<1>2. CASE Exit \/ Crash \/ NotStarted
  <2>1. phase' = "down" /\ calls' = [d \in Call |-> IdleCall]
    BY <1>2 DEF Exit, Crash, NotStarted, Die
  <2> QED  BY <2>1 DEF Running, Quiet, At, IdleCall
<1>3. CASE CloseEvent \/ Opened
  <2>1. At("closing") # {} \/ At("opening") # {}
    BY <1>3 DEF CloseEvent, Opened
  <2>2. phase # "down"
    BY <2>1 DEF TypeInv, Sockets
  <2> QED  BY <1>3, <2>2 DEF CloseEvent, Opened, Running, disk, history
<1>4. CASE Start \/ Started \/ UNCHANGED vars
  BY <1>4 DEF Start, Started, vars, disk, history, Running, Quiet, At
<1> QED  BY <1>1, <1>2, <1>3, <1>4 DEF Next

\* The engine derives new sessions under the stored generation.
THEOREM GenerationAgrees == Spec => []EngineGenerationAgrees
<1>1. Init => Running
  BY DEF Init, Running, Quiet, At, IdleCall
<1>2. Running => EngineGenerationAgrees
  BY DEF Running, EngineGenerationAgrees
<1> QED  BY <1>1, <1>2, NextRunning, AlwaysTyped, PTL DEF Spec

\* Where the surfaces are while a call moves from one to the other: only the
\* variables of the listener run ahead, until both writes are done.
Along(k) ==
  /\ k.step \in {"closing", "restoring"} => active = k.old
  /\ k.step \in {"opening", "saving"} => active = k.new
  /\ k.step \in Moving =>
       /\ identity = k.old /\ stored = k.old
       /\ k.command.kind = "apply" => k.new = [k.old EXCEPT !.template = k.new.template]
  /\ k.step = "saving" => bound \in {k.new.port, None}

Resting == \A d \in Call : calls[d].step \notin Moving

\* One call at most moves the surface, and while none does the copies agree.
Settled ==
  /\ \A d, e \in Call : calls[d].step \in Moving /\ calls[e].step \in Moving => d = e
  /\ \A d \in Call : calls[d].step \in Moving => phase \in {"up", "stopping"}
  /\ Resting /\ phase # "down" => Agreed
  /\ phase = "starting" => asked = active.port
  /\ \A d \in Call : Along(calls[d])

\* What is left of Settled when the call that moves takes a step, or one begins
\* to move.
LEMMA OneSettled ==
  ASSUME Settled, NEW d \in Call, calls[d].step \in Moving \/ Resting,
         \A e \in Call : e # d => calls'[e] = calls[e],
         phase' # "starting",
         calls'[d].step \in Moving => phase' \in {"up", "stopping"},
         calls'[d].step \notin Moving => Agreed',
         Along(calls[d])'
  PROVE  Settled'
<1>1. \A e \in Call : e # d => calls[e].step \notin Moving
  BY DEF Settled, Resting
<1>2. \A e \in Call : e # d => calls'[e].step \notin Moving
  BY <1>1
<1>3. ASSUME NEW e \in Call, e # d
      PROVE  Along(calls[e])'
  <2>1. calls'[e].step \notin Moving
    BY <1>2, <1>3
  <2> QED  BY <2>1 DEF Along, Moving
<1>4. Resting' => Agreed'
  <2>1. Resting' => calls'[d].step \notin Moving
    BY DEF Resting
  <2> QED  BY <2>1
<1>5. \A e \in Call : Along(calls[e])'
  BY <1>3
<1> QED  BY <1>2, <1>4, <1>5 DEF Settled

\* A call that does not move the surface disturbs nothing.
LEMMA StillSettled ==
  ASSUME Settled, NEW d \in Call,
         calls[d].step \notin Moving, calls'[d].step \notin Moving,
         \A e \in Call : e # d => calls'[e] = calls[e],
         UNCHANGED <<asked, active, bound, identity, stored>>,
         phase # "down", phase' \in {phase, "stopping"}
  PROVE  Settled'
<1>1. \A e \in Call : calls[e].step \in Moving \/ calls'[e].step \in Moving
                        => calls'[e] = calls[e]
  OBVIOUS
<1>2. Resting' <=> Resting
  BY <1>1 DEF Resting
<1>3. Agreed' <=> Agreed
  BY DEF Agreed
<1>4. ASSUME NEW e \in Call
      PROVE  Along(calls[e])'
  <2>1. CASE calls'[e].step \in Moving
    <3>1. calls'[e] = calls[e] /\ Along(calls[e])
      BY <1>1, <2>1 DEF Settled
    <3> QED  BY <3>1 DEF Along
  <2>2. CASE calls'[e].step \notin Moving
    BY <2>2 DEF Along, Moving
  <2> QED  BY <2>1, <2>2
<1>5. phase' # "down" /\ (phase' = "starting" => phase = "starting")
  OBVIOUS
<1>6. \A e \in Call : calls'[e].step \in Moving => phase' \in {"up", "stopping"}
  BY <1>1 DEF Settled
<1>7. \A e, f \in Call : calls'[e].step \in Moving /\ calls'[f].step \in Moving => e = f
  BY <1>1 DEF Settled
<1>8. phase' = "starting" => asked' = active'.port
  BY <1>5 DEF Settled
<1>9. Resting' /\ phase' # "down" => Agreed'
  BY <1>2, <1>3 DEF Settled
<1>10. \A e \in Call : Along(calls[e])'
  BY <1>4
<1> QED  BY <1>6, <1>7, <1>8, <1>9, <1>10 DEF Settled

LEMMA DeliverSettled ==
  ASSUME TypeInv, Settled, NEW d \in Call, NEW c \in Command, Deliver(d, c), ~crossed'
  PROVE  Settled'
<1>1. /\ calls \in [Call -> Calls] /\ calls[d].step = "idle" /\ phase \in {"starting", "up"}
      /\ UNCHANGED <<phase, asked, identity, stored>>
      /\ calls'[d].step \in Moving => ~OnItsWay
  BY DEF TypeInv, TypeOK, Deliver, disk
<1>2. CASE UNCHANGED <<calls, listener>>
  BY <1>1, <1>2, StillSettled DEF Moving, listener
<1>3. CASE Note(d, c)
  <2>1. /\ calls'[d].step = "journaling" /\ \A e \in Call : e # d => calls'[e] = calls[e]
    BY <1>1, <1>3 DEF Note, Calls
  <2> QED  BY <1>1, <1>3, <2>1, StillSettled DEF Moving, Note, listener
<1>4. CASE c.kind \in {"configure", "apply"} /\ ConfigureIn(d, c) /\ Acceptable(Wanted(c))
  <2> DEFINE moves == listening /\ Wanted(c).port # active.port
  <2>1. /\ bound' = IF moves THEN None ELSE bound
        /\ active' = IF moves THEN active ELSE Wanted(c)
    BY <1>4 DEF ConfigureIn
  <2>2. /\ calls'[d].step = IF moves THEN "closing" ELSE "saving"
        /\ calls'[d].command = c /\ calls'[d].old = active /\ calls'[d].new = Wanted(c)
        /\ \A e \in Call : e # d => calls'[e] = calls[e]
    BY <1>1, <1>4 DEF ConfigureIn
  <2>3. phase = "up" /\ Resting
    BY <1>1, <2>2 DEF OnItsWay, Resting, Moving
  <2>4. Agreed
    BY <2>3 DEF Settled
  <2>5. c.kind = "apply" => Wanted(c) = [active EXCEPT !.template = Wanted(c).template]
    <3>1. active \in Surface
      BY DEF TypeInv, TypeOK
    <3> QED  BY <3>1 DEF Wanted, Surface
  <2>6. ~moves => bound' \in {Wanted(c).port, None}
    <3>1. ~listening => bound = None
      BY DEF TypeInv, TypeOK
    <3> QED  BY <2>1, <2>4, <3>1 DEF Agreed
  <2>7. Along(calls[d])'
    BY <1>1, <2>1, <2>2, <2>4, <2>5, <2>6 DEF Along, Moving, Agreed
  <2>8. calls'[d].step \in Moving
    BY <2>2 DEF Moving
  <2> QED  BY <1>1, <2>2, <2>3, <2>7, <2>8, OneSettled
<1> QED
  BY <1>2, <1>3, <1>4 DEF Deliver, ConfigureIn

LEMMA SocketSettled ==
  ASSUME TypeInv, Settled,
         CloseEvent \/ Opened \/ \E d \in Call : Refused(d) \/ Restored(d)
  PROVE  Settled'
<1>1. /\ calls \in [Call -> Calls] /\ \A e \in Call : Along(calls[e])
      /\ \A e \in Call : calls[e].step \in Moving => phase \in {"up", "stopping"}
      /\ \A d, e \in Call : calls[d].step \in Moving /\ calls[e].step \in Moving => d = e
  BY DEF TypeInv, TypeOK, Settled
<1>2. CASE CloseEvent
  <2>1. PICK d \in At("closing") : active' = calls[d].new
    BY <1>2 DEF CloseEvent
  <2>2. d \in Call /\ calls[d].step = "closing" /\ calls[d].step \in Moving
    BY <2>1 DEF At, Moving
  <2>3. At("closing") = {d}
    BY <1>1, <2>1, <2>2 DEF At, Moving
  <2>4. /\ UNCHANGED <<phase, bound, identity, stored>>
        /\ calls'[d] = [calls[d] EXCEPT !.step = "opening"]
        /\ \A e \in Call : e # d => calls'[e] = calls[e]
    BY <1>2, <2>2, <2>3 DEF CloseEvent, disk
  <2>5. Along(calls[d])' /\ calls'[d].step \in Moving
    BY <1>1, <2>1, <2>2, <2>4 DEF Along, Moving, Calls
  <2>6. phase' \in {"up", "stopping"}
    BY <1>1, <2>2, <2>4
  <2> QED  BY <2>2, <2>4, <2>5, <2>6, OneSettled
<1>3. CASE Opened
  <2>1. PICK d \in At("opening") : bound' = calls[d].new.port
    BY <1>3 DEF Opened
  <2>2. d \in Call /\ calls[d].step = "opening" /\ calls[d].step \in Moving
    BY <2>1 DEF At, Moving
  <2>3. At("opening") = {d}
    BY <1>1, <2>1, <2>2 DEF At, Moving
  <2>4. /\ UNCHANGED <<phase, active, identity, stored>>
        /\ calls'[d] = [calls[d] EXCEPT !.step = "saving"]
        /\ \A e \in Call : e # d => calls'[e] = calls[e]
    BY <1>3, <2>2, <2>3 DEF Opened, disk
  <2>5. Along(calls[d])' /\ calls'[d].step \in Moving
    BY <1>1, <2>1, <2>2, <2>4 DEF Along, Moving, Calls
  <2>6. phase' \in {"up", "stopping"}
    BY <1>1, <2>2, <2>4
  <2> QED  BY <2>2, <2>4, <2>5, <2>6, OneSettled
<1>4. ASSUME NEW d \in Call, Refused(d)
      PROVE  Settled'
  <2>1. /\ calls[d].step = "opening" /\ Goto(d, "restoring") /\ active' = calls[d].old
        /\ UNCHANGED <<phase, bound, identity, stored>>
    BY <1>4 DEF Refused, At, disk
  <2>2. /\ calls'[d].step = "restoring" /\ calls'[d].command = calls[d].command
        /\ calls'[d].old = calls[d].old /\ calls'[d].new = calls[d].new
        /\ \A e \in Call : e # d => calls'[e] = calls[e]
    BY <1>1, <2>1, GotoMoves DEF Steps
  <2>3. Along(calls[d])'
    BY <1>1, <2>1, <2>2 DEF Along, Moving
  <2>4. calls[d].step \in Moving /\ calls'[d].step \in Moving
    BY <2>1, <2>2 DEF Moving
  <2>5. phase' \in {"up", "stopping"}
    BY <1>1, <2>1, <2>4
  <2> QED  BY <2>2, <2>3, <2>4, <2>5, OneSettled
<1>5. ASSUME NEW d \in Call, Restored(d)
      PROVE  Settled'
  <2>1. /\ calls[d].step = "restoring" /\ Goto(d, "idle")
        /\ UNCHANGED <<phase, active, identity, stored>>
        /\ bound = None /\ bound' \in {calls[d].old.port, None}
    BY <1>5 DEF Restored, At, disk, TypeInv, TypeOK, Sockets
  <2>2. /\ calls'[d].step = "idle" /\ \A e \in Call : e # d => calls'[e] = calls[e]
    BY <1>1, <2>1, GotoMoves DEF Steps
  <2>3. Agreed'
    BY <1>1, <2>1 DEF Along, Moving, Agreed
  <2>4. Along(calls[d])' /\ calls'[d].step \notin Moving
    BY <2>2 DEF Along, Moving
  <2>5. calls[d].step \in Moving /\ phase' \in {"up", "stopping"}
    BY <1>1, <2>1 DEF Moving
  <2> QED  BY <2>2, <2>3, <2>4, <2>5, OneSettled
<1> QED  BY <1>2, <1>3, <1>4, <1>5

LEMMA WriteSettled ==
  ASSUME TypeInv, Running, Settled, NEW d \in Call,
         Save(d) \/ Journal(d) \/ Bump(d) \/ Leave(d)
  PROVE  Settled'
<1>1. calls \in [Call -> Calls] /\ Along(calls[d])
  BY DEF TypeInv, TypeOK, Settled
<1>2. calls[d].step # "idle" /\ phase # "down"
  BY DEF Save, Journal, Bump, Leave, Running, Quiet, At
<1>3. CASE Save(d)
  <2>1. /\ calls[d].step = "saving" /\ Goto(d, "journaling") /\ stored' = calls[d].new
        /\ identity' = IF calls[d].command.kind = "apply"
                       THEN [identity EXCEPT !.template = calls[d].new.template]
                       ELSE calls[d].new
        /\ UNCHANGED <<phase, active, bound>>
    BY <1>3 DEF Save, listener
  <2>2. Agreed'
    BY <1>1, <2>1 DEF Along, Moving, Agreed
  <2>3. calls'[d].step = "journaling" /\ \A e \in Call : e # d => calls'[e] = calls[e]
    BY <1>1, <2>1, GotoMoves DEF Steps
  <2>4. Along(calls[d])' /\ calls'[d].step \notin Moving
    BY <2>3 DEF Along, Moving
  <2>5. calls[d].step \in Moving /\ phase' \in {"up", "stopping"}
    BY <2>1 DEF Moving, Settled
  <2> QED  BY <2>2, <2>3, <2>4, <2>5, OneSettled
<1>4. CASE Journal(d) \/ Bump(d) \/ Leave(d)
  <2>1. /\ calls[d].step \in {"journaling", "bumping", "leaving"}
        /\ UNCHANGED <<asked, active, bound, stored, identity>>
        /\ phase' \in {phase, "stopping"}
    BY <1>4 DEF Journal, Bump, Leave, listener, disk
  <2>2. PICK s \in {"bumping", "leaving", "idle"} : Goto(d, s)
    BY <1>4 DEF Journal, Bump, Leave, AfterJournal
  <2>3. calls'[d].step = s /\ \A e \in Call : e # d => calls'[e] = calls[e]
    BY <1>1, <2>2, GotoMoves DEF Steps
  <2>4. calls[d].step \notin Moving /\ calls'[d].step \notin Moving
    BY <2>1, <2>2, <2>3 DEF Moving
  <2> QED  BY <1>2, <2>1, <2>3, <2>4, StillSettled
<1> QED  BY <1>3, <1>4

LEMMA LifeSettled ==
  ASSUME TypeInv, Running, Settled, Start \/ Started
  PROVE  Settled'
<1>1. CASE Start
  <2>1. \A d \in Call : calls'[d].step = "idle"
    BY <1>1 DEF Start, Running, Quiet, At
  <2>2. Agreed' /\ asked' = active'.port /\ phase' = "starting"
    BY <1>1 DEF Start, Agreed, TypeInv, TypeOK, Sockets
  <2> QED  BY <2>1, <2>2 DEF Settled, Along, Moving
<1>2. CASE Started
  <2>1. /\ phase = "starting" /\ phase' = "up" /\ bound' = asked
        /\ UNCHANGED <<active, stored, identity, calls>>
    BY <1>2 DEF Started, disk
  <2>2. \A d \in Call : calls[d].step \notin Moving
    BY <2>1 DEF Settled
  <2>3. Agreed'
    BY <2>1, <2>2 DEF Agreed, Settled, Resting
  <2>4. \A d \in Call : calls'[d].step \notin Moving
    BY <2>1, <2>2
  <2>5. \A d \in Call : Along(calls[d])'
    BY <2>4 DEF Along, Moving
  <2> QED  BY <2>1, <2>3, <2>4, <2>5 DEF Settled
<1> QED  BY <1>1, <1>2

\* Where no call moves and nothing has begun to run, nothing can disagree.
LEMMA DownSettled ==
  ASSUME phase = "down", \A d \in Call : calls[d].step = "idle"
  PROVE  Settled
BY DEF Settled, Along, Moving

Surfaces == TypeInv /\ Running /\ (~crossed => Settled)

LEMMA NextSurfaces == Surfaces /\ [Next]_vars => Surfaces'
<1> SUFFICES ASSUME Surfaces, [Next]_vars, ~crossed'
             PROVE  Settled'
  BY NextTyped, NextRunning DEF Surfaces
<1>1. CASE Exit \/ Crash \/ NotStarted
  <2>1. phase' = "down" /\ calls' = [d \in Call |-> IdleCall]
    BY <1>1 DEF Exit, Crash, NotStarted, Die
  <2>2. \A d \in Call : calls'[d].step = "idle"
    BY <2>1 DEF IdleCall
  <2> QED  BY <2>1, <2>2 DEF Settled, Along, Moving
<1>2. ASSUME NEW d \in Call, Step(d)
      PROVE  Settled'
  <2>1. ~crossed
    BY <1>2 DEF Step, Deliver, Refused, Restored, Save, Journal, Bump, Leave, history
  <2> QED
    BY <1>2, <2>1, DeliverSettled, SocketSettled, WriteSettled DEF Step, Surfaces
<1>3. CASE CloseEvent \/ Opened \/ Start \/ Started
  <2>1. ~crossed
    BY <1>3 DEF CloseEvent, Opened, Start, Started, history
  <2> QED  BY <1>3, <2>1, SocketSettled, LifeSettled DEF Surfaces
<1>4. CASE UNCHANGED vars
  <2>1. Settled /\ UNCHANGED <<phase, asked, active, bound, identity, stored, calls>>
    BY <1>4 DEF vars, listener, disk, history, Surfaces
  <2> QED  BY <2>1 DEF Settled, Along, Agreed, Resting
<1> QED  BY <1>1, <1>2, <1>3, <1>4 DEF Next

\* Whatever calls are in progress at once, whatever ports are refused and
\* whenever the node dies: while the listener rests, Central is told, the disk
\* holds and the listener serves one surface, unless two of its moves crossed.
THEOREM OneSurface == Spec => []SurfaceAgrees
<1>1. Init => Surfaces
  <2> SUFFICES ASSUME Init
               PROVE  Surfaces
    OBVIOUS
  <2>1. phase = "down" /\ \A d \in Call : calls[d].step = "idle"
    BY DEF Init, IdleCall
  <2> QED  BY <2>1, InitTyped, DownSettled DEF Surfaces, Running, Quiet, At
<1>2. Surfaces => SurfaceAgrees
  <2> SUFFICES ASSUME Surfaces, phase = "up", ~OnItsWay, ~crossed
               PROVE  Agreed
    BY DEF SurfaceAgrees
  <2>1. Settled /\ Resting
    BY DEF Surfaces, OnItsWay, Resting
  <2> QED  BY <2>1 DEF Settled
<1> QED  BY <1>1, <1>2, NextSurfaces, PTL DEF Spec
=============================================================================
