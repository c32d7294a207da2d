-------------------------------- MODULE Channel --------------------------------
(***************************************************************************)
(* The encrypted channel between Central and a node                        *)
(* (security/control-channel.ts) and its two receivers (server/http.ts and *)
(* the secure ingest of central/server.ts: the same code twice).           *)
(*                                                                         *)
(* A message is sealed once, under a fresh request id and nonce, with the  *)
(* sender's time.  The network may deliver it late, several times or not   *)
(* at all; what fails authentication is not a message.  The receiver takes *)
(* what is at most Skew away from its own clock and not in its replay      *)
(* cache, from which it first prunes what it saw more than Keep ago.  The  *)
(* cache is in memory.                                                     *)
(***************************************************************************)
EXTENDS Integers

CONSTANTS
  Msg,
  Skew,   \* CONTROL_CHANNEL_MAX_CLOCK_SKEW_MS: five minutes
  Keep,   \* of the replay cache: ten minutes
  Drift,  \* bound: how far the sender's clock is off
  MaxNow  \* bound

ASSUME ChannelAssumption ==
  /\ Skew \in Nat /\ Keep \in Nat /\ Keep >= 2 * Skew
  /\ Drift \in Nat /\ MaxNow \in Nat

VARIABLES
  now,     \* the receiver's clock
  drift,   \* of the sender's clock
  sealed, stamp, \* the messages, and their timestamp_ms
  cache, seenAt, \* seenControlMessages: the entries, and when they were made
  handled  \* message -> how often it was, in this life of the receiver

vars == <<now, drift, sealed, stamp, cache, seenAt, handled>>

-----------------------------------------------------------------------------
\* validateTimestamp
Fresh(m) == stamp[m] - now <= Skew /\ now - stamp[m] <= Skew

\* Mutant: the cache keeps a message as long as one may be late.
KeptForSkew == {m \in cache : now - seenAt[m] <= Skew}

\* What the prune leaves.
Kept == {m \in cache : now - seenAt[m] <= Keep}

Tick ==
  /\ now < MaxNow /\ now' = now + 1
  /\ UNCHANGED <<drift, sealed, stamp, cache, seenAt, handled>>

\* sealControlMessage
Seal(m) ==
  /\ m \notin sealed /\ sealed' = sealed \cup {m}
  /\ stamp' = [stamp EXCEPT ![m] = now + drift]
  /\ UNCHANGED <<now, drift, cache, seenAt, handled>>

\* openControlMessage, the prune, the replay check: the message is handled.
Receive(m) ==
  /\ m \in sealed /\ Fresh(m) /\ m \notin Kept
  /\ cache' = Kept \cup {m}
  /\ seenAt' = [seenAt EXCEPT ![m] = now]
  /\ handled' = [handled EXCEPT ![m] = @ + 1]
  /\ UNCHANGED <<now, drift, sealed, stamp>>

\* A replay still prunes; what is late or early does not get that far.
Refuse(m) ==
  /\ m \in sealed /\ Fresh(m) /\ m \in Kept
  /\ cache' = Kept
  /\ UNCHANGED <<now, drift, sealed, stamp, seenAt, handled>>

\* The receiver restarts, or crashes.
Restart ==
  /\ cache' = {}
  /\ handled' = [m \in Msg |-> 0]
  /\ UNCHANGED <<now, drift, sealed, stamp, seenAt>>

Init ==
  /\ now = 0 /\ drift \in -Drift..Drift
  /\ sealed = {} /\ stamp = [m \in Msg |-> 0]
  /\ cache = {} /\ seenAt = [m \in Msg |-> 0]
  /\ handled = [m \in Msg |-> 0]

Next ==
  \/ Tick \/ Restart
  \/ \E m \in Msg : Seal(m) \/ Receive(m) \/ Refuse(m)

Spec == Init /\ [][Next]_vars

-----------------------------------------------------------------------------
TypeOK ==
  /\ now \in 0..MaxNow /\ drift \in -Drift..Drift
  /\ sealed \subseteq Msg /\ stamp \in [Msg -> Int]
  /\ cache \subseteq sealed /\ seenAt \in [Msg -> 0..MaxNow]
  /\ handled \in [Msg -> Nat]

\* However often and late the network delivers a message, and whatever the
\* sender's clock shows, a receiver handles it once in its life: when its entry
\* leaves the cache, the message is too old to be taken.
HandledOnce == \A m \in Msg : handled[m] <= 1

\* The inductive part: the entry of a handled message stays until the message
\* is stale, which it can be no later than 2 * Skew after it was handled.
HandledIsCachedOrStale ==
  \A m \in Msg :
    /\ handled[m] > 0 => m \in sealed /\ (m \in cache \/ now - stamp[m] > Skew)
    /\ m \in cache => handled[m] > 0 /\ stamp[m] - seenAt[m] <= Skew
=============================================================================
