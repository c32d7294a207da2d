------------------------------- MODULE Forwarder -------------------------------
(***************************************************************************)
(* The forwarding of events from an Edge to Central's secure ingest        *)
(* (central/forwarder.ts; central/server.ts and ingest.ts for the reply).  *)
(*                                                                         *)
(* The bus hands every event to the sink, which queues it and drains the   *)
(* queue in batches: a batch is posted, after a failure posted again under *)
(* a new request id, and after the last failure put back at the END of a   *)
(* queue that is trimmed at its head.  Then nothing drains the queue until *)
(* the next write, or the flush of a stop.                                 *)
(*                                                                         *)
(* The network may lose the request or the answer, and Central may still   *)
(* handle a request its sender has given up (one such at a time: the bound *)
(* of `late').  Central writes a batch item by item and each item in two   *)
(* steps: the tables keyed by what the event says (events, flags,          *)
(* attacker_activity), then a row of central_events.  A crash or an        *)
(* exception leaves it anywhere in between.  The database may refuse any   *)
(* of these: the storage then keeps the row in memory, where no reader     *)
(* finds it while the database answers, and the batch goes on and is       *)
(* acknowledged.                                                           *)
(*                                                                         *)
(* This is one life of the forwarder: its queue is in memory and ends with *)
(* the process.                                                            *)
(***************************************************************************)
EXTENDS Integers, Sequences, FiniteSets, Functions

CONSTANTS
  MaxEvents, \* written in this life
  Batch, MaxQueue, MaxRetries,
  MaxDenied  \* bound: events the database refuses

ForwarderAssumption ==
  /\ MaxEvents \in Nat /\ MaxDenied \in Nat
  /\ Batch \in Nat \ {0} /\ MaxRetries \in Nat
  /\ MaxQueue \in Nat /\ MaxQueue >= Batch \* 1000 and 64: never set otherwise

VARIABLES
  phase,   \* "up", "closing" (servers closed, last events), "flushing", "down"
  queue, batch, attempt,
  stage,   \* of the drain: "idle", "posting", "waiting" (backoff)
  written, sent, dropped, \* events, by what the counters count
  failed,  \* the last batch was put back
  saved,   \* Central: events in the tables keyed by content
  rows,    \* Central: event -> its rows in central_events (2: more than one)
  denied,  \* Central: events of which the database refused a statement
  late,    \* a request Central has yet to handle, given up by the Edge
  reply    \* to the post under way: "none" yet, "written" (the batch is, and the
           \* answer under way), "cut" (Central died on it or threw)

edge == <<queue, batch, attempt, stage, written, sent, dropped, failed>>
tables == <<saved, rows, denied>>
central == <<tables, late, reply>>
vars == <<phase, edge, central>>

\* Events are numbered as they are written.
Event == 1..MaxEvents
Stage == {"idle", "posting", "waiting"}

-----------------------------------------------------------------------------
(* Central.                                                                *)

\* persistIngestBatch, stopped after n items and perhaps half of the next.  An
\* event carries no id, so that its row in central_events gets one at random;
\* what the first step writes is keyed by the content and written once.  `no' is
\* what the database refuses, by step.
Persist(b, n, half, no) ==
  /\ saved' = saved \cup ({b[i] : i \in 1..n + half} \ no[1])
  /\ rows' = [e \in Event |->
       IF rows[e] < 2 /\ e \notin no[2] /\ \E i \in 1..n : b[i] = e
       THEN rows[e] + 1 ELSE rows[e]]
  /\ denied' = denied \cup no[1] \cup no[2]

\* A request is written so far.
Reached(b, n, half) ==
  \E no \in (SUBSET {b[i] : i \in 1..n + half}) \X (SUBSET {b[i] : i \in 1..n}) :
    /\ Cardinality(denied \cup no[1] \cup no[2]) <= MaxDenied
    /\ Persist(b, n, half, no)

\* POST /api/v1/events/secure: the request of the post under way, which is
\* answered when the whole of it was gone through.
Handle ==
  /\ stage = "posting" /\ reply = "none"
  /\ \E n \in 0..Len(batch), half \in 0..1 :
       /\ n + half <= Len(batch) /\ Reached(batch, n, half)
       /\ reply' \in IF n = Len(batch) THEN {"written", "cut"} ELSE {"cut"}
  /\ UNCHANGED <<phase, edge, late>>

\* One that was given up meanwhile.
LateRequest ==
  /\ late # <<>> /\ late' = <<>>
  /\ \E n \in 0..Len(late), half \in 0..1 :
       n + half <= Len(late) /\ Reached(late, n, half)
  /\ UNCHANGED <<phase, edge, reply>>

-----------------------------------------------------------------------------
(* The Edge.                                                               *)

\* One round of drain's loop.
Drain(q) ==
  /\ batch' = SubSeq(q, 1, IF Len(q) < Batch THEN Len(q) ELSE Batch)
  /\ queue' = SubSeq(q, Len(batch') + 1, Len(q))
  /\ stage' = IF q = <<>> THEN "idle" ELSE "posting"
  /\ attempt' = 0

\* enqueueAndFlush: the drain under way, if any, will come to it.
Write(e) ==
  /\ phase \in {"up", "closing"} /\ e = Cardinality(written) + 1
  /\ written' = written \cup {e}
  /\ IF stage = "idle"
     THEN Drain(Append(queue, e))
     ELSE queue' = Append(queue, e) /\ UNCHANGED <<batch, attempt, stage>>
  /\ UNCHANGED <<phase, sent, dropped, failed, central>>

\* Mutant: an answer is not held against the id of the request it answers.
PostedAnyAnswer ==
  /\ stage = "posting" /\ reply = "written" /\ UNCHANGED reply
  /\ sent' = sent \cup Range(batch) /\ failed' = FALSE
  /\ Drain(queue)
  /\ UNCHANGED <<phase, written, dropped, tables, late>>

\* postBatch: an authentic answer to this request with a status of 2xx.
Posted ==
  /\ stage = "posting" /\ reply = "written" /\ reply' = "none"
  /\ sent' = sent \cup Range(batch) /\ failed' = FALSE
  /\ Drain(queue)
  /\ UNCHANGED <<phase, written, dropped, tables, late>>

\* The post fails: Central was cut short, or its answer or the request is lost;
\* or the request has yet to get there.
Unanswered ==
  /\ reply' = "none" /\ UNCHANGED tables
  /\ \/ UNCHANGED late
     \/ reply = "none" /\ late = <<>> /\ late' = batch

Retry ==
  /\ stage = "posting" /\ attempt < MaxRetries
  /\ Unanswered
  /\ stage' = "waiting" /\ attempt' = attempt + 1
  /\ UNCHANGED <<phase, queue, batch, written, sent, dropped, failed>>

BackoffEnds ==
  /\ stage = "waiting" /\ stage' = "posting"
  /\ UNCHANGED <<phase, queue, batch, attempt, written, sent, dropped, failed, central>>

\* sendBatch, the end of it: oldest events out, the batch in again.
Trim ==
  LET overflow == Len(queue) + Len(batch) - MaxQueue
      n == IF overflow > 0 THEN overflow ELSE 0
  IN /\ dropped' = dropped \cup Range(SubSeq(queue, 1, n))
     /\ queue' = SubSeq(queue, n + 1, Len(queue)) \o batch

\* The last attempt failed: the drain ends.
GiveUp ==
  /\ stage = "posting" /\ attempt = MaxRetries
  /\ Unanswered
  /\ Trim /\ batch' = <<>>
  /\ stage' = "idle" /\ attempt' = 0
  /\ failed' = TRUE
  /\ UNCHANGED <<phase, written, sent>>

-----------------------------------------------------------------------------
(* The program around it (app/bootstrap.ts stop and onRestart).            *)

Close ==
  /\ phase = "up" /\ phase' = "closing"
  /\ UNCHANGED <<edge, central>>

\* The last events are written: remote.flush joins the drain or starts one.
Flush ==
  /\ phase = "closing" /\ phase' = "flushing"
  /\ IF stage = "idle" THEN Drain(queue) ELSE UNCHANGED <<queue, batch, attempt, stage>>
  /\ UNCHANGED <<written, sent, dropped, failed, central>>

Exit ==
  /\ phase = "flushing" /\ stage = "idle" /\ phase' = "down"
  /\ UNCHANGED <<edge, central>>

Init ==
  /\ phase = "up" /\ stage = "idle" /\ attempt = 0
  /\ queue = <<>> /\ batch = <<>> /\ late = <<>>
  /\ written = {} /\ sent = {} /\ dropped = {} /\ saved = {} /\ denied = {}
  /\ failed = FALSE /\ reply = "none"
  /\ rows = [e \in Event |-> 0]

Next ==
  \/ \E e \in Event : Write(e)
  \/ Posted \/ Retry \/ BackoffEnds \/ GiveUp \/ Handle \/ LateRequest
  \/ Close \/ Flush \/ Exit

Spec == Init /\ [][Next]_vars

\* A post ends (fetch gives up on headers or a body that do not come), a
\* backoff is a timer, and a stop that has begun goes on.  Nothing says that
\* posts ever succeed, that events are written, or that the node is stopped.
Fairness ==
  /\ WF_vars(Posted \/ Retry \/ GiveUp \/ BackoffEnds)
  /\ WF_vars(Flush \/ Exit)

FairSpec == Spec /\ Fairness

-----------------------------------------------------------------------------
(* Correctness.                                                            *)

TypeOK ==
  /\ phase \in {"up", "closing", "flushing", "down"} /\ stage \in Stage
  /\ {queue, batch, late} \subseteq Seq(Event)
  /\ attempt \in 0..MaxRetries
  /\ (stage = "idle") = (batch = <<>>) /\ Len(batch) <= Batch
  /\ rows \in [Event -> 0..2]
  /\ reply \in {"none", "written", "cut"}

\* An event the bus handed over is in one place: waiting, in the batch, counted
\* as dropped, or acknowledged.  Failures, requeues and trims lose or double
\* none.
NothingVanishes ==
  /\ IsInjective(queue \o batch)
  /\ written = sent \cup dropped \cup Range(queue \o batch)
  /\ \A e \in written : Cardinality({s \in {1, 2, 3} : e \in <<sent, dropped, Range(queue \o batch)>>[s]}) = 1

\* An event that counts as sent is in all of Central's tables, through whichever of
\* its posts, unless the database refused it there: then it may be nowhere, and is
\* not sent again.
SentIsStored == \A e \in sent \ denied : e \in saved /\ rows[e] > 0

\* Events wait with nobody at work only after a failure.
WaitsOnlyAfterFailure == stage = "idle" /\ queue # <<>> => failed

\* A stop is not held up for ever by a Central that does not answer.
StopEnds == phase \in {"closing", "flushing"} ~> phase = "down"

\* "the central plane reconciles by deterministic event ids" (forwarder.ts,
\* sendBatch): an event has one row at Central however often it was posted.
StoredOnce == \A e \in Event : rows[e] <= 1

\* "Bounded in-memory queue so a downstream outage cannot stall the engine"
\* (forwarder.ts, RemoteSinkConfig).
QueueBounded == Len(queue) + Len(batch) <= MaxQueue
=============================================================================
