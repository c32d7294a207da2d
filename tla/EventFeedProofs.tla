--------------------------- MODULE EventFeedProofs ---------------------------
(***************************************************************************)
(* Proofs about EventFeed, for any events, page size, times and faults.    *)
(*                                                                         *)
(* Two invariants.  Follows: a page in hand ends at the saved cursor or     *)
(* behind it, so the cursor only advances.  Gathered: whatever lies behind *)
(* the cursor of the page in hand is in both tables, excused, or still in  *)
(* hand.  What the node saves behind a cursor is late, by the order of     *)
(* sequences.                                                              *)
(***************************************************************************)
EXTENDS EventFeed, TLAPS

\* A cursor is an event of the feed.
InFeed(c) == c # None => c \in Fed

Follows ==
  /\ InFeed(cursor)
  /\ pc = "saving" =>
       /\ InFeed(next)
       /\ cursor # None => next # None /\ (next = cursor \/ Before(cursor, next))

\* Nothing more is expected of these events.
Done == Fetched \cup late \cup refused

Gathered ==
  /\ collected \subseteq Fed /\ ingested \subseteq Fed /\ todo \subseteq Fed
  /\ half # None => half \in Fed /\ half \in collected \cup refused
  /\ Passed(cursor) \subseteq Done
  /\ pc = "saving" /\ ~saveError => Passed(next) \subseteq Done \cup todo \cup {half}

CursorInv == TypeOK /\ Follows

Inv == CursorInv /\ Gathered

-----------------------------------------------------------------------------
(* The order of the feed.                                                  *)

LEMMA FedTimes ==
  ASSUME TypeOK, NEW e \in Fed
  PROVE  e \in Event /\ e \in Nat /\ at[e] \in Nat /\ e # None
BY FeedAssumption DEF TypeOK, Fed

LEMMA BeforeIsOrder ==
  ASSUME TypeOK, NEW e \in Fed, NEW f \in Fed, NEW g \in Fed
  PROVE  /\ ~Before(e, e)
         /\ e # f => Before(e, f) \/ Before(f, e)
         /\ ~(Before(e, f) /\ Before(f, e))
         /\ Before(e, f) /\ Before(f, g) => Before(e, g)
<1>1. /\ e \in Nat /\ at[e] \in Nat
      /\ f \in Nat /\ at[f] \in Nat
      /\ g \in Nat /\ at[g] \in Nat
  BY FedTimes
<1> QED  BY <1>1 DEF Before

\* A later cursor has passed everything an earlier one has.
LEMMA PassedGrows ==
  ASSUME TypeOK, NEW c, NEW d, InFeed(c), InFeed(d),
         c # None => d # None /\ (d = c \/ Before(c, d))
  PROVE  Passed(c) \subseteq Passed(d)
<1>1. CASE c = None
  BY <1>1 DEF Passed
<1>2. CASE c # None
  <2>1. c \in Fed /\ d \in Fed /\ d # None
    BY <1>2 DEF InFeed
  <2>2. ASSUME NEW e \in Fed, ~Before(c, e)
        PROVE  ~Before(d, e)
    BY <1>2, <2>1, <2>2, BeforeIsOrder
  <2> QED  BY <1>2, <2>1, <2>2 DEF Passed, After
<1> QED  BY <1>1, <1>2

\* What the page passes was passed before, or is in the page.
LEMMA PageGathers ==
  ASSUME TypeOK, NEW P, NEW n, InFeed(cursor), IsPage(P, cursor), IsNext(n, P, cursor)
  PROVE  /\ InFeed(n)
         /\ cursor # None => n # None /\ (n = cursor \/ Before(cursor, n))
         /\ Passed(n) \subseteq Passed(cursor) \cup P
<1>1. P \subseteq Fed
  BY DEF IsPage, After
<1>2. CASE P = {}
  BY <1>2 DEF IsNext
<1>3. CASE P # {}
  <2>1. n \in P /\ n \in Fed /\ n # None /\ \A e \in P : ~Before(n, e)
    BY <1>1, <1>3, FedTimes DEF IsNext
  <2>2. cursor # None => Before(cursor, n)
    BY <2>1 DEF IsPage, After
  <2>3. ASSUME NEW e \in Passed(n), e \notin P
        PROVE  e \in Passed(cursor)
    <3>1. e \in Fed /\ ~Before(n, e)
      BY <2>1, <2>3 DEF Passed, After
    <3>2. e \notin After(cursor)
      BY <2>1, <2>3, <3>1 DEF IsPage
    <3>3. cursor # None
      BY <3>1, <3>2 DEF After
    <3> QED  BY <3>1, <3>2, <3>3 DEF Passed
  <2> QED  BY <2>1, <2>2, <2>3 DEF InFeed
<1> QED  BY <1>2, <1>3

-----------------------------------------------------------------------------
(* Types.                                                                  *)

LEMMA InitTyped == Init => TypeOK
<1> SUFFICES ASSUME Init
             PROVE  TypeOK
  OBVIOUS
<1>1. clock \in 0..MaxTime /\ faults \in 0..MaxFaults
  BY FeedAssumption DEF Init
<1>2. saveError \in BOOLEAN
  BY DEF Init
<1>3. at \in [Event -> 0..MaxTime \cup {None}] /\ late \subseteq Event
  BY DEF Init
<1> QED  BY <1>1, <1>2, <1>3 DEF Init, TypeOK

\* A write leaves the table it went to, or the note that it was refused.
LEMMA WriteTyped ==
  ASSUME TypeOK, NEW e \in Event
  PROVE  /\ Write(e, collected) =>
              /\ collected' \subseteq Event /\ refused' \subseteq Event
              /\ faults' \in 0..MaxFaults
         /\ Write(e, ingested) =>
              /\ ingested' \subseteq Event /\ refused' \subseteq Event
              /\ faults' \in 0..MaxFaults
<1>1. faults \in Nat /\ faults \in 0..MaxFaults /\ MaxFaults \in Nat
  BY FeedAssumption DEF TypeOK
<1>2. collected \subseteq Event /\ ingested \subseteq Event /\ refused \subseteq Event
  BY DEF TypeOK
<1>3. faults < MaxFaults => faults + 1 \in 0..MaxFaults
  BY <1>1
<1> QED  BY <1>1, <1>2, <1>3 DEF Write

LEMMA NextTyped == TypeOK /\ [Next]_vars => TypeOK'
<1> SUFFICES ASSUME TypeOK, [Next]_vars
             PROVE  TypeOK'
  OBVIOUS
<1> USE FeedAssumption
<1>1. ASSUME NEW E \in SUBSET Event, SaveEvents(E)
      PROVE  TypeOK'
  <2>1. at' \in [Event -> 0..MaxTime \cup {None}] /\ late' \subseteq Event
    BY <1>1 DEF TypeOK, SaveEvents
  <2> QED  BY <1>1, <2>1 DEF TypeOK, SaveEvents, central, tables
<1>2. CASE Tick
  BY <1>2 DEF TypeOK, Tick, central, tables
<1>3. CASE Ask
  BY <1>3 DEF TypeOK, Ask, node, tables
<1>4. ASSUME NEW P \in SUBSET Event, NEW n \in Event \cup {None}, Page(P, n)
      PROVE  TypeOK'
  BY <1>4 DEF TypeOK, Page, node, tables
<1>5. ASSUME NEW e \in Event, SaveRow(e)
      PROVE  TypeOK'
  BY <1>5, WriteTyped DEF TypeOK, SaveRow, node
<1>6. CASE Ingest
  <2>1. half \in Event
    BY <1>6 DEF TypeOK, Ingest
  <2>2. /\ ingested' \subseteq Event /\ refused' \subseteq Event
        /\ faults' \in 0..MaxFaults /\ saveError' \in BOOLEAN
    BY <1>6, <2>1, WriteTyped DEF TypeOK, Ingest
  <2> QED  BY <1>6, <2>2 DEF TypeOK, Ingest, node
<1>7. CASE SaveCursor
  <2>1. faults' \in 0..MaxFaults /\ cursor' \in Event \cup {None}
    BY <1>7 DEF TypeOK, SaveCursor
  <2> QED  BY <1>7, <2>1 DEF TypeOK, SaveCursor, node, tables
<1>8. CASE Lose
  <2>1. faults' \in 0..MaxFaults
    BY <1>8 DEF TypeOK, Lose
  <2> QED  BY <1>8, <2>1 DEF TypeOK, Lose, node, tables
<1>9. CASE Crash
  <2>1. faults' \in 0..MaxFaults
    BY <1>9 DEF TypeOK, Crash
  <2> QED  BY <1>9, <2>1 DEF TypeOK, Crash, node, tables
<1>10. CASE UNCHANGED vars
  BY <1>10 DEF TypeOK, vars, node, central, tables
<1> QED
  BY <1>1, <1>2, <1>3, <1>4, <1>5, <1>6, <1>7, <1>8, <1>9, <1>10
  DEF Next, SomePage, SomeRow

\* Every variable keeps its type, whatever the clock and the database do.
THEOREM TypeCorrect == Spec => []TypeOK
BY InitTyped, NextTyped, PTL DEF Spec

-----------------------------------------------------------------------------
(* The cursor.                                                             *)

\* The feed only grows, and an event keeps its place in it.
LEMMA FeedGrows ==
  ASSUME TypeOK, [Next]_vars, NEW e \in Fed
  PROVE  e \in Fed' /\ at'[e] = at[e]
<1>1. CASE \E E \in SUBSET Event : SaveEvents(E)
  BY <1>1 DEF SaveEvents, Fed, TypeOK
<1>2. CASE UNCHANGED at
  BY <1>2 DEF Fed
<1> QED
  BY <1>1, <1>2 DEF Next, vars, node, Tick, Ask, SomePage, Page, SomeRow, SaveRow,
                    Ingest, SaveCursor, Lose, Crash

LEMMA InFeedStays ==
  ASSUME TypeOK, [Next]_vars, NEW c, InFeed(c)
  PROVE  c # None => c \in Fed'
BY FeedGrows DEF InFeed

LEMMA InitFollows == Init => Follows
BY DEF Init, Follows, InFeed

LEMMA NextFollows == CursorInv /\ [Next]_vars => Follows'
<1> SUFFICES ASSUME TypeOK, Follows, [Next]_vars
             PROVE  Follows'
  BY DEF CursorInv
<1>0. TypeOK'
  BY NextTyped
<1>1. CASE UNCHANGED <<pc, next, cursor>>
  <2>1. InFeed(cursor)'
    BY <1>1, InFeedStays DEF Follows, InFeed
  <2>2. ASSUME pc' = "saving"
        PROVE  /\ InFeed(next)'
               /\ cursor' # None => next' # None /\ (next' = cursor' \/ Before(cursor, next)')
    <3>1. /\ InFeed(cursor) /\ InFeed(next)
          /\ cursor # None => next # None /\ (next = cursor \/ Before(cursor, next))
      BY <1>1, <2>2 DEF Follows
    <3>2. InFeed(next)'
      BY <1>1, <3>1, InFeedStays DEF InFeed
    <3>3. ASSUME cursor # None, Before(cursor, next), next # None
          PROVE  Before(cursor, next)'
      <4>1. at'[cursor] = at[cursor] /\ at'[next] = at[next]
        BY <3>1, <3>3, FeedGrows DEF InFeed
      <4> QED  BY <1>1, <3>3, <4>1 DEF Before
    <3> QED  BY <1>1, <3>1, <3>2, <3>3
  <2> QED  BY <2>1, <2>2 DEF Follows
<1>2. ASSUME NEW P \in SUBSET Event, NEW n \in Event \cup {None}, Page(P, n)
      PROVE  Follows'
  <2>1. /\ InFeed(cursor) /\ IsPage(P, cursor) /\ IsNext(n, P, cursor)
        /\ next' = n /\ cursor' = cursor /\ at' = at
    BY <1>2 DEF Page, Follows, node
  <2>2. InFeed(n) /\ (cursor # None => n # None /\ (n = cursor \/ Before(cursor, n)))
    BY <2>1, PageGathers
  <2> QED  BY <2>1, <2>2 DEF Follows, InFeed, Fed, Before
<1>3. CASE SaveCursor
  BY <1>3 DEF SaveCursor, Follows, InFeed, Fed, node
<1>4. CASE Ask \/ Lose \/ Crash
  BY <1>4 DEF Ask, Lose, Crash, Follows, InFeed, Fed, node
<1> QED
  BY <1>1, <1>2, <1>3, <1>4
  DEF Next, vars, central, node, SaveEvents, Tick, SomePage, SomeRow, SaveRow, Ingest

LEMMA CursorInvariance == Spec => []CursorInv
<1>1. Init => CursorInv
  BY InitTyped, InitFollows DEF CursorInv
<1>2. CursorInv /\ [Next]_vars => CursorInv'
  BY NextTyped, NextFollows DEF CursorInv
<1> QED  BY <1>1, <1>2, PTL DEF Spec

\* The saved cursor never goes back, whatever is lost, fails or crashes and
\* however the node's clock is set.
THEOREM CursorAdvances == Spec => CursorOnlyAdvances
<1> DEFINE Advance == cursor # None => cursor' # None /\ (cursor' = cursor \/ Before(cursor, cursor'))
<1>1. CursorInv /\ [Next]_vars => [Advance]_vars
  <2> SUFFICES ASSUME CursorInv, [Next]_vars
               PROVE  Advance
    OBVIOUS
  <2>1. CASE SaveCursor
    BY <2>1 DEF SaveCursor, CursorInv, Follows
  <2>2. CASE UNCHANGED cursor
    BY <2>2
  <2> QED
    BY <2>1, <2>2 DEF Next, vars, central, SaveEvents, Tick, Ask, SomePage, Page, SomeRow,
                      SaveRow, Ingest, Lose, Crash
<1> QED  BY <1>1, CursorInvariance, PTL DEF Spec, CursorOnlyAdvances

-----------------------------------------------------------------------------
(* Nothing is skipped.                                                     *)

LEMMA InitGathered == Init => Gathered
BY FeedAssumption DEF Init, Gathered, Done, Passed, Fed

\* What the node saves behind a cursor of Central is late.
LEMMA SavedBehindIsLate ==
  ASSUME TypeOK, NEW E \in SUBSET Event, SaveEvents(E),
         NEW c, InFeed(c), c = cursor \/ (pc = "saving" /\ c = next)
  PROVE  Passed(c)' \subseteq Passed(c) \cup {e \in E : at[e] = None /\ Reached(clock)}
<1> USE FeedAssumption
<1>1. TypeOK' /\ [Next]_vars
  BY NextTyped DEF Next
<1>2. \A e \in Fed : e \in Fed' /\ at'[e] = at[e]
  BY <1>1, FeedGrows
<1>3. \A e \in Fed' \ Fed : at'[e] = clock /\ e \in E /\ at[e] = None
  BY DEF SaveEvents, Fed, TypeOK
<1>4. CASE c = None
  BY <1>4 DEF Passed
<1>5. CASE c # None
  <2>1. c \in Fed /\ c \in Nat /\ at[c] \in Nat /\ at'[c] = at[c] /\ clock \in Nat
    BY <1>2, <1>5, FedTimes DEF InFeed, TypeOK
  <2>2. ASSUME NEW e \in Fed' \ Fed, ~Before(c, e)'
        PROVE  Reached(clock)
    <3>1. ~(at'[c] < at'[e])
      BY <2>2 DEF Before
    <3>2. clock <= at[c]
      BY <1>3, <2>1, <2>2, <3>1
    <3> QED  BY <1>5, <3>2 DEF Reached
  <2>3. ASSUME NEW e \in Fed
        PROVE  Before(c, e)' = Before(c, e)
    BY <1>2, <2>1, <2>3 DEF Before
  <2>4. Passed(c) = Fed \ {e \in Fed : Before(c, e)}
    BY <1>5 DEF Passed, After
  <2>5. Passed(c)' = Fed' \ {e \in Fed' : Before(c, e)'}
    BY <1>5 DEF Passed, After
  <2> QED  BY <1>2, <1>3, <2>2, <2>3, <2>4, <2>5
<1> QED  BY <1>4, <1>5

LEMMA SaveEventsKeeps ==
  ASSUME Inv, NEW E \in SUBSET Event, SaveEvents(E)
  PROVE  Gathered'
<1>1. TypeOK /\ Follows /\ Gathered /\ [Next]_vars
  BY DEF Inv, CursorInv, Next
<1>2. Fed \subseteq Fed'
  BY <1>1, FeedGrows
<1>3. /\ UNCHANGED <<pc, todo, half, next, saveError, cursor, collected, ingested, refused>>
      /\ late' = late \cup {e \in E : at[e] = None /\ Reached(clock)}
  BY DEF SaveEvents, central, tables
<1>4. Done' = Done \cup {e \in E : at[e] = None /\ Reached(clock)}
  BY <1>3 DEF Done, Fetched
<1>5. Passed(cursor)' \subseteq Done'
  <2>1. InFeed(cursor) /\ Passed(cursor) \subseteq Done
    BY <1>1 DEF Follows, Gathered
  <2>2. ASSUME NEW c, c = cursor
        PROVE  Passed(c)' \subseteq Done'
    BY <1>1, <1>4, <2>1, <2>2, SavedBehindIsLate
  <2> QED  BY <1>3, <2>2 DEF Passed, After, Before, Fed
<1>6. pc' = "saving" /\ ~saveError' => Passed(next)' \subseteq (Done \cup todo \cup {half})'
  <2> SUFFICES ASSUME pc = "saving", ~saveError
               PROVE  Passed(next)' \subseteq Done' \cup todo \cup {half}
    BY <1>3
  <2>1. InFeed(next) /\ Passed(next) \subseteq Done \cup todo \cup {half}
    BY <1>1 DEF Follows, Gathered
  <2>2. ASSUME NEW c, c = next
        PROVE  Passed(c)' \subseteq Done' \cup todo \cup {half}
    BY <1>1, <1>4, <2>1, <2>2, SavedBehindIsLate
  <2> QED  BY <1>3, <2>2 DEF Passed, After, Before, Fed
<1> QED  BY <1>1, <1>2, <1>3, <1>5, <1>6 DEF Gathered

\* Nothing else touches the feed: what is passed by a cursor stays the same.
LEMMA SameFeedSamePassed ==
  ASSUME at' = at, NEW c
  PROVE  Fed' = Fed /\ Passed(c)' = Passed(c)
BY DEF Fed, Passed, After, Before

\* The page is in hand as a whole.
LEMMA PageKeeps ==
  ASSUME Inv, NEW P \in SUBSET Event, NEW n \in Event \cup {None}, Page(P, n)
  PROVE  Gathered'
<1>1. TypeOK /\ Follows /\ Gathered /\ InFeed(cursor)
  BY DEF Inv, CursorInv, Follows
<1>2. /\ IsPage(P, cursor) /\ IsNext(n, P, cursor)
      /\ todo' = P /\ next' = n
      /\ UNCHANGED <<at, late, half, cursor, collected, ingested, refused>>
  BY DEF Page, node, tables
<1>3. Passed(n) \subseteq Passed(cursor) \cup P
  BY <1>1, <1>2, PageGathers
<1>4. P \subseteq Fed
  BY <1>2 DEF IsPage, After
<1>5. Passed(cursor)' = Passed(cursor) /\ Passed(next)' = Passed(n) /\ Fed' = Fed
  BY <1>2 DEF Passed, After, Before, Fed
<1>6. Done' = Done
  BY <1>2 DEF Done, Fetched
<1> QED  BY <1>1, <1>2, <1>3, <1>4, <1>5, <1>6 DEF Gathered

\* A row leaves the hand for the first table, the half-saved row for the other;
\* a row that is refused is excused, and a malformed one holds the cursor back.
LEMMA RowsKeep ==
  ASSUME Inv, Ingest \/ \E e \in Event : SaveRow(e)
  PROVE  Gathered'
<1> USE FeedAssumption
<1>1. TypeOK /\ Follows /\ Gathered
  BY DEF Inv, CursorInv
<1>2. UNCHANGED <<at, late, pc, next, cursor>>
  BY DEF Ingest, SaveRow, node
<1>3. Passed(cursor)' = Passed(cursor) /\ Passed(next)' = Passed(next) /\ Fed' = Fed
  BY <1>2 DEF Passed, After, Before, Fed
<1>4. CASE Ingest
  <2>1. /\ half # None /\ half' = None /\ half \in Fed /\ half \in collected \cup refused
        /\ todo' = todo /\ collected' = collected
    BY <1>1, <1>4 DEF Ingest, Gathered
  <2>2. CASE half \in Malformed
    <3>1. saveError' /\ UNCHANGED <<ingested, refused>>
      BY <1>4, <2>2 DEF Ingest
    <3> QED  BY <1>1, <1>2, <1>3, <2>1, <3>1 DEF Gathered, Done, Fetched
  <2>3. CASE half \notin Malformed
    <3>1. saveError' = saveError /\ Write(half, ingested)
      BY <1>4, <2>3 DEF Ingest
    <3>2. /\ ingested' \subseteq ingested \cup {half} /\ ingested \subseteq ingested'
          /\ refused \subseteq refused'
          /\ half \in ingested' \cup refused'
      BY <3>1 DEF Write
    <3>3. Done \cup {half} \subseteq Done'
      BY <1>2, <2>1, <3>2 DEF Done, Fetched
    <3> QED  BY <1>1, <1>2, <1>3, <2>1, <3>1, <3>2, <3>3 DEF Gathered
  <2> QED  BY <2>2, <2>3
<1>5. ASSUME NEW e \in Event, SaveRow(e)
      PROVE  Gathered'
  <2>1. /\ Write(e, collected) /\ ingested' = ingested /\ saveError' = saveError
        /\ half = None /\ half' = e /\ e \in todo /\ todo' = todo \ {e}
    BY <1>5 DEF SaveRow
  <2>2. /\ collected' \subseteq collected \cup {e} /\ collected \subseteq collected'
        /\ refused \subseteq refused'
        /\ e \in collected' \cup refused'
    BY <2>1 DEF Write
  <2>3. Done \subseteq Done'
    BY <1>2, <2>1, <2>2 DEF Done, Fetched
  <2>4. None \notin Passed(next) /\ e \in Fed
    BY <1>1, <2>1 DEF Passed, Fed, Gathered
  <2> QED  BY <1>1, <1>2, <1>3, <2>1, <2>2, <2>3, <2>4 DEF Gathered
<1> QED  BY <1>4, <1>5

\* When the cursor is saved nothing is in hand any more.
LEMMA SaveCursorKeeps ==
  ASSUME Inv, SaveCursor
  PROVE  Gathered'
<1>1. TypeOK /\ Gathered
  BY DEF Inv, CursorInv
<1>2. /\ pc = "saving" /\ todo = {} /\ half = None /\ pc' = "idle"
      /\ UNCHANGED <<at, late, todo, half, next, collected, ingested, refused>>
      /\ cursor' = cursor \/ (~saveError /\ cursor' = next)
  BY <1>1 DEF SaveCursor, node, tables, TypeOK
<1>3. None \notin Passed(next)
  BY FeedAssumption DEF Passed, Fed
<1>4. Passed(cursor) \subseteq Done /\ (~saveError => Passed(next) \subseteq Done)
  BY <1>1, <1>2, <1>3 DEF Gathered
<1>5. Passed(cursor)' = Passed(cursor) \/ (~saveError /\ Passed(cursor)' = Passed(next))
  BY <1>2 DEF Passed, After, Before, Fed
<1>6. Done' = Done /\ Fed' = Fed
  BY <1>2 DEF Done, Fetched, Fed
<1> QED  BY <1>1, <1>2, <1>4, <1>5, <1>6 DEF Gathered

LEMMA NextInv ==
  ASSUME Inv, [Next]_vars
  PROVE  Inv'
<1>1. TypeOK /\ Follows /\ Gathered
  BY DEF Inv, CursorInv
<1>2. CursorInv'
  BY <1>1, NextTyped, NextFollows DEF CursorInv
<1>3. CASE \E E \in SUBSET Event : SaveEvents(E)
  BY <1>2, <1>3, SaveEventsKeeps DEF Inv
<1>4. CASE SomePage
  BY <1>2, <1>4, PageKeeps DEF Inv, SomePage
<1>5. CASE SomeRow \/ Ingest
  BY <1>2, <1>5, RowsKeep DEF Inv, SomeRow
<1>6. CASE SaveCursor
  BY <1>2, <1>6, SaveCursorKeeps DEF Inv
<1>7. CASE Tick \/ Ask \/ Lose \/ Crash \/ UNCHANGED vars
  <2>1. /\ UNCHANGED <<at, late, next, cursor, collected, ingested, refused>>
        /\ todo' \in {todo, {}} /\ half' \in {half, None}
        /\ pc' = "saving" => pc = "saving" /\ UNCHANGED <<todo, half, saveError>>
    BY <1>7 DEF Tick, Ask, Lose, Crash, vars, node, central, tables
  <2>2. Passed(cursor)' = Passed(cursor) /\ Passed(next)' = Passed(next) /\ Fed' = Fed
    BY <2>1 DEF Passed, After, Before, Fed
  <2>3. Done' = Done
    BY <2>1 DEF Done, Fetched
  <2>4. Gathered'
    BY <1>1, <2>1, <2>2, <2>3 DEF Gathered
  <2> QED  BY <1>2, <2>4 DEF Inv
<1> QED  BY <1>3, <1>4, <1>5, <1>6, <1>7 DEF Next

LEMMA Invariance == Spec => []Inv
<1>1. Init => Inv
  BY InitTyped, InitFollows, InitGathered DEF Inv, CursorInv
<1>2. Inv /\ [Next]_vars => Inv'
  BY NextInv
<1> QED  BY <1>1, <1>2, PTL DEF Spec

\* Behind the saved cursor only events are missing from the tables of Central
\* that came too late or were refused by its database, whatever the clock, the
\* network and the database do and wherever Central dies.
THEOREM NothingIsSkipped == Spec => []NothingSkipped
<1>1. Inv => NothingSkipped
  BY DEF Inv, Gathered, Done, NothingSkipped
<1> QED  BY <1>1, Invariance, PTL

-----------------------------------------------------------------------------
(* The poll implements the abstract collection.                            *)

Settled == Passed(cursor)
Excused == late \cup refused

LEMMA InitMaps == Init => Collected!CollectionInit
BY DEF Init, Collected!CollectionInit, Fed, Passed, Fetched

\* Saving the cursor settles what was fetched or excused; the second write of a
\* row fetches it; a refused write excuses it; feeding excuses, and may settle,
\* what comes late; every other step stutters.
LEMMA NextMaps ==
  ASSUME Inv, Inv', [Next]_vars
  PROVE  [Collected!CollectionNext]_<<Fed, Fetched, Excused, Settled>>
<1>1. TypeOK /\ Follows /\ Gathered
  BY DEF Inv, CursorInv
<1>2. ASSUME NEW E \in SUBSET Event, SaveEvents(E)
      PROVE  Collected!Feed
  <2> DEFINE Late == {e \in E : at[e] = None /\ Reached(clock)}
             S == Settled' \ Settled
  <2>1. Fed' = Fed \cup E
    <3>1. clock # None
      BY <1>1, FeedAssumption DEF TypeOK
    <3> QED  BY <1>2, <3>1 DEF SaveEvents, Fed
  <2>2. /\ UNCHANGED <<cursor, refused>> /\ Fetched' = Fetched
        /\ Excused' = Excused \cup Late
    BY <1>2 DEF SaveEvents, central, tables, Fetched, Excused
  <2>3. Settled' \subseteq Settled \cup Late
    <3>1. ASSUME NEW c, c = cursor
          PROVE  Passed(c)' \subseteq Passed(c) \cup Late
      BY <1>1, <1>2, <3>1, SavedBehindIsLate DEF Follows
    <3> QED  BY <2>2, <3>1 DEF Settled, Passed, After, Before, Fed
  <2>4. Settled \subseteq Settled'
    <3>1. [Next]_vars /\ \A e \in Fed : e \in Fed' /\ at'[e] = at[e]
      BY <1>1, FeedGrows
    <3>2. CASE cursor = None
      BY <2>2, <3>2 DEF Settled, Passed
    <3>3. CASE cursor # None
      <4>1. cursor \in Fed
        BY <1>1, <3>3 DEF Follows, InFeed
      <4>2. \A e \in Fed : Before(cursor, e)' <=> Before(cursor, e)
        BY <2>2, <3>1, <4>1 DEF Before
      <4> QED  BY <2>2, <3>1, <3>3, <4>2 DEF Settled, Passed, After
    <3> QED  BY <3>2, <3>3
  <2>5. /\ E \in SUBSET Event /\ Late \in SUBSET E /\ S \in SUBSET Late
        /\ Settled' = Settled \cup S
    BY <2>3, <2>4
  <2> HIDE DEF Late, S
  <2> QED  BY <2>1, <2>2, <2>5 DEF Collected!Feed, Settled, Fetched, Excused
<1>3. CASE SomeRow \/ Ingest
  <2>1. Fed' = Fed /\ Settled' = Settled /\ late' = late
    BY <1>3 DEF SomeRow, SaveRow, Ingest, node, Fed, Settled, Passed, After, Before
  <2>2. PICK e \in Fed :
           /\ collected' \in {collected, collected \cup {e}}
           /\ ingested' \in {ingested, ingested \cup {e}}
           /\ \/ refused' = refused
              \/ refused' = refused \cup {e} /\ UNCHANGED <<collected, ingested>>
    <3>1. ASSUME NEW e \in Event, SaveRow(e)
          PROVE  /\ e \in Fed /\ Write(e, collected) /\ ingested' = ingested
      BY <1>1, <3>1 DEF SaveRow, Gathered
    <3>2. CASE Ingest
      <4>1. half \in Fed /\ collected' = collected
        BY <1>1, <3>2 DEF Ingest, Gathered
      <4>2. Write(half, ingested) \/ UNCHANGED <<ingested, refused>>
        BY <3>2 DEF Ingest
      <4> QED  BY <4>1, <4>2 DEF Write
    <3>3. CASE SomeRow
      BY <3>1, <3>3 DEF SomeRow, Write
    <3> QED  BY <1>3, <3>2, <3>3
  <2>3. CASE refused' = refused
    <3>1. Excused' = Excused /\ Fetched' \in {Fetched, Fetched \cup {e}}
      BY <2>1, <2>2, <2>3 DEF Fetched, Excused
    <3> QED
      BY <2>1, <3>1 DEF Collected!CollectionNext, Collected!Fetch, Settled, Fetched, Excused
  <2>4. CASE refused' = refused \cup {e} /\ UNCHANGED <<collected, ingested>>
    BY <2>1, <2>4 DEF Collected!CollectionNext, Collected!Refuse, Settled, Fetched, Excused
  <2> QED  BY <2>2, <2>3, <2>4
<1>4. CASE SaveCursor
  <2>1. /\ Fed' = Fed /\ Fetched' = Fetched /\ Excused' = Excused
        /\ Settled' = Settled \/ (Settled' = Passed(next) /\ pc = "saving")
    BY <1>4 DEF SaveCursor, node, tables, Fed, Settled, Passed, After, Before, Fetched, Excused
  <2>2. pc = "saving" => Settled \subseteq Passed(next)
    BY <1>1, PassedGrows DEF Follows, Settled
  <2>3. Settled' \subseteq Fetched \cup Excused
    BY <2>1 DEF Inv, Gathered, Done, Settled, Fetched, Excused
  <2>4. Settled' = Settled \cup Settled'
    BY <2>1, <2>2
  <2> QED
    BY <2>1, <2>3, <2>4
    DEF Collected!CollectionNext, Collected!Settle, Settled, Fetched, Excused
<1>5. CASE Tick \/ Ask \/ SomePage \/ Lose \/ Crash \/ UNCHANGED vars
  BY <1>5 DEF Tick, Ask, SomePage, Page, Lose, Crash, vars, node, central, tables,
              Fed, Settled, Passed, After, Before, Fetched, Excused
<1> QED  BY <1>2, <1>3, <1>4, <1>5 DEF Next, Collected!CollectionNext

\* Every behaviour of feed and poll is one of the abstract collection.
THEOREM CollectionImplemented == Spec => ImplementsCollection
<1>1. Inv /\ Inv' /\ [Next]_vars =>
        [Collected!CollectionNext]_<<Fed, Fetched, late \cup refused, Passed(cursor)>>
  BY NextMaps DEF Excused, Settled
<1> QED
  BY <1>1, InitMaps, Invariance, PTL
  DEF Spec, ImplementsCollection, Collected!CollectionSpec
=============================================================================
