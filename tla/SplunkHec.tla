------------------------------- MODULE SplunkHec -------------------------------
(***************************************************************************)
(* The Splunk HEC adapter (central/splunk-hec.ts).                         *)
(*                                                                         *)
(* accept queues an event, sheds the oldest beyond MaxQueue and starts a   *)
(* drain if there is none; a batch that fails to the end is given up, and  *)
(* the queue sheds again as if the batch were put back.  What accept is  *)
(* given comes from the sink of central/app.ts.                            *)
(***************************************************************************)
EXTENDS Integers, Sequences, Functions

CONSTANTS
  MaxEvents, \* bound: accepted in this life
  BatchSize, MaxQueue, MaxRetries

SplunkHecAssumption ==
  {MaxEvents, MaxQueue, MaxRetries} \subseteq Nat /\ BatchSize \in Nat \ {0}

VARIABLES
  accepted,  \* how many events were; they are numbered
  queue, batch, attempt,
  stage,     \* of the drain: "idle", "posting", "waiting" (backoff)
  lost,      \* events shed or given up
  sent       \* the events of the batches that were acknowledged, in order

vars == <<accepted, queue, batch, attempt, stage, lost, sent>>

-----------------------------------------------------------------------------
\* One round of drain's loop; its end looks at the queue again.
Drain(q) ==
  LET n == IF Len(q) < BatchSize THEN Len(q) ELSE BatchSize
  IN /\ batch' = SubSeq(q, 1, n) /\ queue' = SubSeq(q, n + 1, Len(q))
     /\ stage' = IF n = 0 THEN "idle" ELSE "posting"
     /\ attempt' = 0

\* Mutant: the drain ends with the batch.
DrainOne(q) ==
  /\ batch' = <<>> /\ queue' = q
  /\ stage' = "idle" /\ attempt' = 0

Sent ==
  /\ stage = "posting"
  /\ sent' = sent \o batch
  /\ Drain(queue)
  /\ UNCHANGED <<accepted, lost>>

\* The newest that are within the bound.
Shed(q, max) == SubSeq(q, IF Len(q) > max THEN Len(q) - max + 1 ELSE 1, Len(q))

Accept ==
  /\ accepted < MaxEvents /\ accepted' = accepted + 1
  /\ LET q == Append(queue, accepted')
         kept == Shed(q, MaxQueue)
     IN /\ lost' = lost \cup (Range(q) \ Range(kept))
        /\ IF stage = "idle" THEN Drain(kept)
           ELSE queue' = kept /\ UNCHANGED <<batch, attempt, stage>>
  /\ UNCHANGED sent

\* A post failed, or was given up after timeoutMs.
Retry ==
  /\ stage = "posting" /\ attempt < MaxRetries
  /\ stage' = "waiting" /\ attempt' = attempt + 1
  /\ UNCHANGED <<accepted, queue, batch, lost, sent>>

BackoffEnds ==
  /\ stage = "waiting" /\ stage' = "posting"
  /\ UNCHANGED <<accepted, queue, batch, attempt, lost, sent>>

\* The batch is not put back, and yet room is made for it.
GiveUp ==
  /\ stage = "posting" /\ attempt = MaxRetries
  /\ LET kept == Shed(queue, MaxQueue - Len(batch))
     IN /\ lost' = lost \cup Range(batch) \cup (Range(queue) \ Range(kept))
        /\ Drain(kept)
  /\ UNCHANGED <<accepted, sent>>

Init ==
  /\ accepted = 0 /\ queue = <<>> /\ batch = <<>> /\ attempt = 0
  /\ stage = "idle" /\ lost = {} /\ sent = <<>>

Next == Accept \/ Sent \/ Retry \/ BackoffEnds \/ GiveUp

Spec == Init /\ [][Next]_vars

-----------------------------------------------------------------------------
HecTypeOK ==
  /\ accepted \in 0..MaxEvents /\ attempt \in 0..MaxRetries
  /\ stage \in {"idle", "posting", "waiting"} /\ (stage = "idle") = (batch = <<>>)
  /\ Len(queue) <= MaxQueue /\ Len(batch) <= BatchSize

\* Nobody has to call flush: events never wait without a drain that will come
\* to them, whatever shedding and failing batches have left behind.
HecNeverStalls == stage = "idle" => queue = <<>>

\* Splunk is sent the events in the order they were accepted, with gaps, and
\* none after it was given up.
HecInOrder ==
  LET all == sent \o batch \o queue
  IN /\ \A i, j \in DOMAIN all : i < j => all[i] < all[j]
     /\ Range(all) \cap lost = {} /\ Range(all) \cup lost = 1..accepted
=============================================================================
