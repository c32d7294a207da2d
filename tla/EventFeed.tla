------------------------------ MODULE EventFeed ------------------------------
(***************************************************************************)
(* The event feed of one node (storage/indexer.ts, server/http.ts) and the *)
(* poll by which Central collects it (central/poller.ts, node-client.ts,   *)
(* ingest.ts).                                                             *)
(*                                                                         *)
(* The node saves an event under the sequence "<millisecond>_<hash>" and   *)
(* serves pages of the events after a cursor in the order of sequences.    *)
(* Central reads its cursor, asks for a page, saves the rows one by one in *)
(* two tables, then saves the cursor.  Replies get lost, Central may die   *)
(* between any two writes, and a write may fail.                           *)
(*                                                                         *)
(* An event is the number of its hash: hashes order the events of one      *)
(* millisecond.  Left out: the checks of site and stream, whose failure is *)
(* one more lost reply, and reads that fail.  Two histories, late and      *)
(* refused, remember what the code knowingly lets go.                      *)
(***************************************************************************)
EXTENDS Integers, FiniteSets

CONSTANTS
  Event,     \* event ids: numbers, in the order of the hashes
  Malformed, \* events that Central cannot project: persistEvent throws
  Limit,     \* rows of a page
  None,      \* no time, no cursor, no event
  MaxTime,   \* bound: ticks of the node's clock
  MaxFaults  \* bound: lost replies, refused writes and crashes

ASSUME FeedAssumption ==
  /\ Event \subseteq Nat
  /\ IsFiniteSet(Event)
  /\ Malformed \subseteq Event
  /\ Limit \in Nat \ {0}
  /\ None \notin Nat
  /\ MaxTime \in Nat \ {0} /\ MaxFaults \in Nat

VARIABLES
  clock,     \* the node's clock
  at,        \* event_envelopes: event -> when it was saved, or None
  late,      \* history: events saved in a millisecond a page had reached
  pc,        \* Central: "idle", "asked" or "saving"
  todo,      \* rows of the page in hand that are not saved yet
  half,      \* the row saved in central_events and not yet in events, or None
  next,      \* the cursor the page came with
  saveError, \* TRUE when a row of the page in hand could not be projected
  cursor,    \* poll_cursors: the last event consumed, or None
  collected, \* central_events
  ingested,  \* events, and the tables derived from them
  refused,   \* history: events of which the database refused a row
  faults

node == <<clock, at, late>>
tables == <<collected, ingested, refused>>
central == <<pc, todo, half, next, saveError, cursor, tables>>
vars == <<node, central, faults>>

Fed == {e \in Event : at[e] # None}

\* The order of sequences.
Before(e, f) == at[e] < at[f] \/ (at[e] = at[f] /\ e < f)

-----------------------------------------------------------------------------
(* The node.                                                               *)

\* A page that Central has, or had when it saved its cursor, reaches up to a
\* millisecond.
Reached(t) ==
  \/ cursor # None /\ t <= at[cursor]
  \/ pc = "saving" /\ next # None /\ t <= at[next]

\* saveEvent of a flush: INSERT OR IGNORE, so an event keeps its first place.
SaveEvents(E) ==
  /\ E # {}
  /\ at' = [e \in Event |-> IF e \in E /\ at[e] = None THEN clock ELSE at[e]]
  /\ late' = late \cup {e \in E : at[e] = None /\ Reached(clock)}
  /\ UNCHANGED <<clock, central, faults>>

\* Time passes, or the clock is set back.
Tick ==
  /\ clock' \in {clock + 1, clock - 1}
  /\ clock' \in 0..MaxTime
  /\ UNCHANGED <<at, late, central, faults>>

\* The events after a cursor.
After(c) == IF c = None THEN Fed ELSE {e \in Fed : Before(c, e)}

\* Mutant: the rows are not ordered.
IsPageUnordered(P, c) ==
  /\ P \subseteq After(c)
  /\ Cardinality(P) <= Limit
  /\ P = After(c) \/ Cardinality(P) = Limit

\* getEventPage: the first rows after the cursor, at most Limit of them.
IsPage(P, c) ==
  /\ P \subseteq After(c)
  /\ Cardinality(P) <= Limit
  /\ P = After(c) \/ Cardinality(P) = Limit
  /\ \A e \in P, f \in After(c) \ P : Before(e, f)

\* next_cursor: the last row, or the same cursor when there is none.
IsNext(n, P, c) ==
  IF P = {} THEN n = c ELSE n \in P /\ \A e \in P : ~Before(n, e)

-----------------------------------------------------------------------------
(* One poll by Central.                                                    *)

\* pollNode: the identity came back, the cursor is read, a page is asked for.
Ask ==
  /\ pc = "idle"
  /\ pc' = "asked"
  /\ UNCHANGED <<node, todo, half, next, saveError, cursor, tables, faults>>

\* The node answers and the answer arrives.  Nothing of Central changes in
\* between, and what the node saves then may as well be saved after this step:
\* the rows of the page are fixed here.
Page(P, n) ==
  /\ pc = "asked"
  /\ IsPage(P, cursor) /\ IsNext(n, P, cursor)
  /\ pc' = "saving" /\ todo' = P /\ next' = n /\ saveError' = FALSE
  /\ UNCHANGED <<node, half, cursor, tables, faults>>

\* A write of the row of e into a table: done, or refused by the database and
\* kept in memory only.
Write(e, table) ==
  \/ /\ table' = table \cup {e}
     /\ UNCHANGED <<refused, faults>>
  \/ /\ faults < MaxFaults
     /\ refused' = refused \cup {e} /\ faults' = faults + 1
     /\ UNCHANGED table

\* Mutant: no row is written twice, so a half-saved row is skipped.
SaveRowOnce(e) ==
  /\ pc = "saving" /\ half = None
  /\ e \in todo /\ \A f \in todo : ~Before(f, e)
  /\ Write(e, collected)
  /\ half' = IF e \in collected THEN None ELSE e
  /\ todo' = todo \ {e}
  /\ UNCHANGED <<node, pc, next, saveError, cursor, ingested>>

\* saveCentralEvent, row by row.
SaveRow(e) ==
  /\ pc = "saving" /\ half = None
  /\ e \in todo /\ \A f \in todo : ~Before(f, e)
  /\ Write(e, collected)
  /\ half' = e /\ todo' = todo \ {e}
  /\ UNCHANGED <<node, pc, next, saveError, cursor, ingested>>

\* persistEvent for the same row.  It throws for a malformed one, and the page
\* goes on with the next row.
Ingest ==
  /\ pc = "saving" /\ half # None
  /\ IF half \in Malformed
       THEN saveError' = TRUE /\ UNCHANGED <<ingested, refused, faults>>
       ELSE Write(half, ingested) /\ UNCHANGED saveError
  /\ half' = None
  /\ UNCHANGED <<node, pc, todo, next, cursor, collected>>

\* Mutant: the cursor is saved although a row of the page was not.
SaveCursorAnyway ==
  /\ pc = "saving" /\ todo = {} /\ half = None
  /\ cursor' = next
  /\ pc' = "idle" /\ saveError' = FALSE
  /\ UNCHANGED <<node, todo, half, next, tables, faults>>

\* savePollCursor after the last row: the cursor of the page, or the old one
\* again when a row could not be saved, so that the page is fetched anew.  A
\* refused write leaves the old row too.
SaveCursor ==
  /\ pc = "saving" /\ todo = {} /\ half = None
  /\ \/ cursor' = (IF saveError THEN cursor ELSE next) /\ UNCHANGED faults
     \/ faults < MaxFaults /\ faults' = faults + 1 /\ UNCHANGED cursor
  /\ pc' = "idle" /\ saveError' = FALSE
  /\ UNCHANGED <<node, todo, half, next, tables>>

\* The request or the reply is lost, refused or late.
Lose ==
  /\ pc = "asked" /\ faults < MaxFaults
  /\ pc' = "idle" /\ faults' = faults + 1
  /\ UNCHANGED <<node, todo, half, next, saveError, cursor, tables>>

\* Central dies between two writes and starts again.
Crash ==
  /\ pc # "idle" /\ faults < MaxFaults
  /\ pc' = "idle" /\ todo' = {} /\ half' = None /\ saveError' = FALSE
  /\ faults' = faults + 1
  /\ UNCHANGED <<node, next, cursor, tables>>

-----------------------------------------------------------------------------
Init ==
  /\ clock = 1
  /\ at = [e \in Event |-> None] /\ late = {}
  /\ pc = "idle" /\ todo = {} /\ half = None
  /\ next = None /\ saveError = FALSE /\ cursor = None
  /\ collected = {} /\ ingested = {} /\ refused = {}
  /\ faults = 0

SomePage == \E P \in SUBSET Event : \E n \in Event \cup {None} : Page(P, n)
SomeRow == \E e \in Event : SaveRow(e)

Next ==
  \/ \E E \in SUBSET Event : SaveEvents(E)
  \/ Tick
  \/ Ask
  \/ SomePage
  \/ SomeRow
  \/ Ingest
  \/ SaveCursor
  \/ Lose
  \/ Crash

Spec == Init /\ [][Next]_vars

\* The interval of the poller starts a poll again and again, a request ends in
\* a reply or a timeout, and a page in hand is processed.
FairSpec ==
  Spec /\ WF_vars(Ask) /\ WF_vars(SomePage) /\ WF_vars(SomeRow)
       /\ WF_vars(Ingest) /\ WF_vars(SaveCursor)

-----------------------------------------------------------------------------
\* Every variable keeps its shape, and a poll that is over has no rows left.
TypeOK ==
  /\ clock \in 0..MaxTime
  /\ at \in [Event -> 0..MaxTime \cup {None}] /\ late \subseteq Event
  /\ pc \in {"idle", "asked", "saving"}
  /\ todo \subseteq Event /\ half \in Event \cup {None}
  /\ next \in Event \cup {None} /\ cursor \in Event \cup {None}
  /\ saveError \in BOOLEAN
  /\ collected \subseteq Event /\ ingested \subseteq Event /\ refused \subseteq Event
  /\ faults \in 0..MaxFaults
  /\ pc # "saving" => todo = {} /\ half = None

\* The events at or before a cursor: Central never asks for them again.
Passed(c) == IF c = None THEN {} ELSE Fed \ After(c)

Fetched == collected \cap ingested

\* What is behind the saved cursor is in both tables, unless the database
\* refused a row of it or the node saved it in a millisecond that a page had
\* reached: rows are written before the cursor, pages are read in order from it,
\* a row that cannot be projected holds the cursor back, and no clock that is
\* set back, lost reply or crash costs an event more (processPage,
\* getEventPage, saveEvent).
NothingSkipped == Passed(cursor) \subseteq Fetched \cup late \cup refused

\* What the comments of savePollCursor and of processPage make of that: no event
\* is late, no refused write is passed.
NothingIsLate == Passed(cursor) \subseteq Fetched \cup refused
NoRefusalIsPassed == Passed(cursor) \subseteq Fetched \cup late

\* The saved cursor never goes back: not on an empty page, not after a crash or
\* a failed write, not when the node's clock is set back (getEventPage,
\* savePollCursor).
CursorOnlyAdvances ==
  [][cursor # None => cursor' # None /\ (cursor' = cursor \/ Before(cursor, cursor'))]_vars

Collected == INSTANCE Collection WITH
  fed <- Fed, fetched <- Fetched, excused <- late \cup refused, settled <- Passed(cursor)

\* The poll implements a collection that settles only what it fetched or is
\* excused: a cursor moves over many rows at once, a crash half-way settles none
\* of them, and an event that comes too late is settled as it is fed.
ImplementsCollection == Collected!CollectionSpec

\* A row that cannot be projected is in the way of the events after it.
Blocked(e) == e \in Fed /\ \E m \in Malformed \cap Fed : m = e \/ Before(m, e)

\* Every event that was fed is collected in both tables in the end, through
\* lost replies and crashes between the two writes of a row (processPage), but
\* for late and refused ones, and for those behind a row that cannot be
\* projected, whose page is fetched for ever.
EverythingCollected ==
  \A e \in Event :
    at[e] # None ~> e \in Fetched \cup late \cup refused \/ Blocked(e)
=============================================================================
