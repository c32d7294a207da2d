------------------------------- MODULE RateLimit -------------------------------
(***************************************************************************)
(* The requests the public listener lets through (server/honeypot.ts): per *)
(* client address, up to Limit in any window.  A request over the limit    *)
(* leaves no mark; the marks of the window are thrown out as requests      *)
(* come, a bucket never.                                                   *)
(***************************************************************************)
EXTENDS Integers, Sequences, FiniteSets

CONSTANTS
  Client, \* addresses
  Limit,  \* RATE_LIMIT_MAX
  Window, \* RATE_LIMIT_WINDOW_MS, in ticks
  MaxTime \* bound

VARIABLES
  now,
  bucket,  \* address -> the requests, by number, whose timestamps are kept
  through, \* history: address -> timestamps of all requests let through, in order
  turned   \* history: the last request turned away: [client, at], at MaxTime + 1 before

rateVars == <<now, bucket, through, turned>>

RateLimitAssumption ==
  Limit \in Nat \ {0} /\ Window \in Nat \ {0} /\ MaxTime \in Nat

RateInit ==
  /\ now = 0
  /\ bucket = [c \in Client |-> {}] /\ through = [c \in Client |-> <<>>]
  /\ turned \in [client: Client, at: {MaxTime + 1}]

\* What isRateLimited keeps in the bucket.
Mark(c, kept) ==
  bucket' = [bucket EXCEPT ![c] =
    IF Cardinality(kept) >= Limit THEN kept ELSE kept \cup {Len(through[c]) + 1}]

\* isRateLimited.
Request(c) ==
  LET kept == {i \in bucket[c] : now - through[c][i] < Window}
  IN /\ Mark(c, kept)
     /\ IF Cardinality(kept) >= Limit
        THEN turned' = [client |-> c, at |-> now] /\ UNCHANGED through
        ELSE through' = [through EXCEPT ![c] = Append(@, now)] /\ UNCHANGED turned
     /\ UNCHANGED now

\* A request without an address is let through unmarked, as is the passing of time.
Tick == now < MaxTime /\ now' = now + 1 /\ UNCHANGED <<bucket, through, turned>>

RateNext == (\E c \in Client : Request(c)) \/ Tick

-----------------------------------------------------------------------------
\* Requests of a client let through in the window that ends at a time.
InWindow(c, end) == {i \in DOMAIN through[c] : end - Window < through[c][i] /\ through[c][i] <= end}

\* No window, wherever it begins, holds more requests of a client than the limit,
\* and a request is turned away only when the window before it was full of
\* requests let through: those turned away do not prolong it.
LimitIsExact ==
  /\ \A c \in Client, end \in 0 .. now : Cardinality(InWindow(c, end)) <= Limit
  /\ turned.at <= now => Cardinality(InWindow(turned.client, turned.at)) = Limit
=============================================================================
