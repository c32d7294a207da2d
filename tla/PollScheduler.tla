----------------------------- MODULE PollScheduler -----------------------------
(***************************************************************************)
(* When Central polls whom, and how it starts and stops                    *)
(* (central/poller.ts, app.ts, main.ts).                                   *)
(*                                                                         *)
(* A cycle takes the rows of the registry as they are when it begins, in   *)
(* one list, from which a few workers take the next node each; the start   *)
(* runs the first cycle and only then sets the interval.  What one poll    *)
(* does is Registry and EventFeed: here it ends, well or badly, because    *)
(* the client gives up on a silent node.                                   *)
(*                                                                         *)
(* The program listens to SIGINT and SIGTERM once app.start has returned,  *)
(* that is after the first cycle; a signal before that ends it at once,    *)
(* and so does a second one, for which stop returns without waiting.       *)
(***************************************************************************)
EXTENDS Integers, FiniteSets, Sequences, SequencesExt

CONSTANTS
  Site,
  Worker, \* concurrency
  None

PollSchedulerAssumption ==
  /\ IsFiniteSet(Site) /\ IsFiniteSet(Worker) /\ Worker # {}
  /\ None \notin Site \cup Seq(Site) /\ "done" \notin Site

VARIABLES
  registered, \* the sites in central_nodes
  phase,      \* of the program, see Phase
  running,
  timer,      \* the interval is set
  cycle,      \* currentCycle: the nodes it has still to begin with, or None
  poll,       \* worker -> site it polls, or None; or "done" when it has run out
  result      \* lastResults: site -> connected, or None

vars == <<registered, phase, running, timer, cycle, poll, result>>
poller == <<running, timer, cycle, poll, result>>

\* "first": the first cycle, no signal handlers yet; "stopping": poller.stop
\* waits; "draining": server.close waits; "closed": exit(0) comes next.
Phase == {"down", "first", "up", "stopping", "draining", "closed"}
Polled == {poll[w] : w \in Worker} \cap Site

-----------------------------------------------------------------------------
(* Operators.                                                              *)

Register(s) ==
  /\ phase \in {"first", "up", "stopping"} /\ s \notin registered
  /\ registered' = registered \cup {s}
  /\ UNCHANGED <<phase, poller>>

Unregister(s) ==
  /\ phase \in {"first", "up", "stopping"} /\ s \in registered
  /\ registered' = registered \ {s}
  /\ UNCHANGED <<phase, poller>>

-----------------------------------------------------------------------------
(* A cycle.                                                                *)

\* Mutant: a cycle begins whether or not one is under way.
BeginAnyway ==
  \E order \in SetToSeqs(registered) :
    /\ cycle' = order
    /\ poll' = [w \in Worker |-> IF poll[w] \in Site THEN poll[w] ELSE None]

\* runCycle: joins the cycle that is under way, or begins one (runCycleBody).
Begin ==
  IF cycle # None
  THEN UNCHANGED <<cycle, poll>>
  ELSE \E order \in SetToSeqs(registered) :
         /\ cycle' = order
         /\ poll' = [w \in Worker |-> None]

\* A worker takes the next node, or has run out of nodes.
Take(w) ==
  /\ cycle # None /\ poll[w] = None
  /\ IF cycle = <<>>
     THEN poll' = [poll EXCEPT ![w] = "done"] /\ UNCHANGED cycle
     ELSE poll' = [poll EXCEPT ![w] = Head(cycle)] /\ cycle' = Tail(cycle)
  /\ UNCHANGED <<registered, phase, running, timer, result>>

\* pollNodeTask: whatever happens there is a result, and the worker goes on.
PollEnds(w, ok) ==
  /\ poll[w] \in Site
  /\ poll' = [poll EXCEPT ![w] = None]
  /\ result' = [result EXCEPT ![poll[w]] = ok]
  /\ UNCHANGED <<registered, phase, running, timer, cycle>>

Over == cycle # None /\ \A w \in Worker : poll[w] = "done"

\* Mutant: a cycle with a failed poll stays the current one.
CycleEndsWell ==
  /\ Over
  /\ cycle' = IF \E s \in Site : result[s] = FALSE THEN cycle ELSE None
  /\ IF phase = "first" THEN phase' = "up" /\ timer' = TRUE ELSE UNCHANGED <<phase, timer>>
  /\ UNCHANGED <<registered, running, poll, result>>

\* The workers are done: currentCycle is cleared.  After the first cycle the
\* interval is set and main takes signals.
CycleEnds ==
  /\ Over
  /\ cycle' = None
  /\ IF phase = "first" THEN phase' = "up" /\ timer' = TRUE ELSE UNCHANGED <<phase, timer>>
  /\ UNCHANGED <<registered, running, poll, result>>

-----------------------------------------------------------------------------
(* The program.                                                            *)

\* app.start once the server listens: poller.start.
Start ==
  /\ phase = "down" /\ phase' = "first"
  /\ running' = TRUE
  /\ Begin
  /\ UNCHANGED <<registered, timer, result>>

\* The interval.
Tick ==
  /\ timer /\ running
  /\ Begin
  /\ UNCHANGED <<registered, phase, running, timer, result>>

\* The first signal: app.stop.
Stop ==
  /\ phase = "up" /\ phase' = "stopping"
  /\ running' = FALSE /\ timer' = FALSE
  /\ UNCHANGED <<registered, cycle, poll, result>>

\* The cycle has ended: poller.stop returns.
Stopped ==
  /\ phase = "stopping" /\ cycle = None /\ phase' = "draining"
  /\ UNCHANGED <<registered, poller>>

\* server.close has let the last handler go, and storage.close follows.
Close ==
  /\ phase = "draining" /\ phase' = "closed"
  /\ UNCHANGED <<registered, poller>>

\* exit(0); a signal before the handlers are there or while stop waits; or a
\* crash.  The registry is in the database, the rest is gone.
Exit ==
  /\ phase # "down" /\ phase' = "down"
  /\ running' = FALSE /\ timer' = FALSE /\ cycle' = None
  /\ poll' = [w \in Worker |-> None]
  /\ result' = [s \in Site |-> None]
  /\ UNCHANGED registered

Init ==
  /\ registered \in SUBSET Site
  /\ phase = "down" /\ running = FALSE /\ timer = FALSE
  /\ cycle = None
  /\ poll = [w \in Worker |-> None]
  /\ result = [s \in Site |-> None]

Next ==
  \/ \E s \in Site : Register(s) \/ Unregister(s)
  \/ \E w \in Worker : Take(w) \/ \E ok \in BOOLEAN : PollEnds(w, ok)
  \/ CycleEnds \/ Start \/ Tick \/ Stop \/ Stopped \/ Close \/ Exit

Spec == Init /\ [][Next]_vars

\* Promises and intervals run (the event loop), and polls end: a request is
\* given up when the node is silent, and its answer is bounded.  Nobody has to
\* start, stop, register or remove.
Fairness ==
  /\ \A w \in Worker : WF_vars(Take(w) \/ \E ok \in BOOLEAN : PollEnds(w, ok))
  /\ WF_vars(CycleEnds) /\ WF_vars(Tick)
  /\ WF_vars(Stopped \/ Close)

FairSpec == Spec /\ Fairness

-----------------------------------------------------------------------------
(* Correctness.                                                            *)

TypeOK ==
  /\ registered \subseteq Site /\ phase \in Phase
  /\ {running, timer} \subseteq BOOLEAN
  /\ cycle # None => cycle \in Seq(Site) /\ IsInjective(cycle)
  /\ \A w \in Worker : poll[w] \in Site \cup {None, "done"}
  /\ result \in [Site -> BOOLEAN \cup {None}]

\* No node is polled by two workers at a time, whatever is registered and
\* removed during a cycle and however long it outlasts the interval: both
\* would read from one cursor.
OnePollPerNode ==
  /\ \A v, w \in Worker : poll[v] = poll[w] /\ poll[v] \in Site => v = w
  /\ cycle # None => ToSet(cycle) \cap Polled = {}

\* When the database is closed no poll is under way: it would open the
\* database again.
ClosedIsQuiet == phase \in {"draining", "closed"} => cycle = None /\ Polled = {}

\* A node that stays registered while Central runs is polled again and again,
\* however its polls and those of the others end.
PolledForever ==
  \A s \in Site : <>[](s \in registered /\ phase = "up") => []<>(s \in Polled)

\* A stop comes to its end, through the nodes its last cycle still has to poll.
StopEnds == phase = "stopping" ~> phase \in {"closed", "down"}
=============================================================================
