----------------------------- MODULE ConsoleRefresh -----------------------------
(***************************************************************************)
(* How the console page follows Central (central/ui.ts): fetchAll sends    *)
(* one request per loader, on a timer and by hand; each loader shows its   *)
(* answer when it comes.  Nothing ties the rounds to one another: a round  *)
(* may start before the one before has ended, the answers of both come in  *)
(* any order, and the last to come is what is shown.                       *)
(***************************************************************************)
EXTENDS Integers

CONSTANTS
  Loader,    \* "me", "stats", "nodes", ...
  MaxValue,  \* bound: contents of a resource; those of "stats" are its flags
  MaxChanges,\* bound: changes of what Central serves
  MaxRounds  \* bound: rounds under way at a time

VARIABLES
  doc,     \* what Central would answer a loader with
  changes, \* number of changes of doc
  shown,   \* what the page shows, Nothing before; of "stats", previousFlags too
  call,    \* round -> loader -> its request: idle, sent, answered, failed
  timer,   \* the sync timer runs
  first,   \* history: flags in the first answer shown
  alerted  \* history: flags announced by alerts

refreshVars == <<doc, changes, shown, call, timer, first, alerted>>

ConsoleRefreshAssumption ==
  "stats" \in Loader /\ MaxValue \in Nat /\ MaxChanges \in Nat /\ MaxRounds \in Nat \ {0}

Round == 1 .. MaxRounds
Value == 0 .. MaxValue
Nothing == -1
Idle == [is |-> "idle", got |-> Nothing]
Sent == [is |-> "sent", got |-> Nothing]
Failed == [is |-> "failed", got |-> Nothing]
Answered(v) == [is |-> "answered", got |-> v]

RefreshInit ==
  /\ doc = [l \in Loader |-> 0]
  /\ changes = 0
  /\ shown = [l \in Loader |-> Nothing]
  /\ call = [r \in Round |-> [l \in Loader |-> IF r = 1 THEN Sent ELSE Idle]]
  /\ timer = TRUE
  /\ first = Nothing /\ alerted = 0

\* Central's data change; the flags of a Central that lost its tables fall.
Change(l) ==
  /\ changes < MaxChanges
  /\ \E v \in Value \ {doc[l]} : doc' = [doc EXCEPT ![l] = v]
  /\ changes' = changes + 1
  /\ UNCHANGED <<shown, call, timer, first, alerted>>

\* fetchAll.
FetchAll(r) ==
  /\ call[r] = [l \in Loader |-> Idle]
  /\ call' = [call EXCEPT ![r] = [l \in Loader |-> Sent]]
  /\ UNCHANGED <<doc, changes, shown, timer, first, alerted>>

Tick == timer /\ \E r \in Round : FetchAll(r)

\* The refresh button.
Refresh == \E r \in Round : FetchAll(r)

\* resetSyncTimer: a rate, or "Manual only".
SetRate ==
  /\ timer' \in BOOLEAN
  /\ UNCHANGED <<doc, changes, shown, call, first, alerted>>

\* apiFetch: Central reads what it serves when the request is there ...
Serve(r, l) ==
  /\ call[r][l] = Sent
  /\ call' = [call EXCEPT ![r][l] = Answered(doc[l])]
  /\ UNCHANGED <<doc, changes, shown, timer, first, alerted>>

\* ... or the request fails: Central away, an error, an answer lost on its way.
Lose(r, l) ==
  /\ call[r][l] = Sent
  /\ call' = [call EXCEPT ![r][l] = Failed]
  /\ UNCHANGED <<doc, changes, shown, timer, first, alerted>>

\* Mutant: the answer is compared with the statistics it has just replaced.
AlertLate(v) == alerted' = alerted

\* fetchStats: a count above the one shown before is announced.
Alert(v) ==
  alerted' = IF shown["stats"] # Nothing /\ v > shown["stats"]
             THEN alerted + (v - shown["stats"]) ELSE alerted

\* Mutant: statistics that are not higher than those shown are left out.
TakeHigher(r, l) ==
  /\ call[r][l].is = "answered"
  /\ call' = [call EXCEPT ![r][l] = Idle]
  /\ shown' = [shown EXCEPT ![l] = IF l = "stats" /\ call[r][l].got <= @ THEN @ ELSE call[r][l].got]
  /\ first' = IF l = "stats" /\ first = Nothing THEN call[r][l].got ELSE first
  /\ IF l = "stats" THEN Alert(call[r][l].got) ELSE UNCHANGED alerted
  /\ UNCHANGED <<doc, changes, timer>>

\* A loader shows the answer that has come, whichever round it is of.
Take(r, l) ==
  /\ call[r][l].is = "answered"
  /\ call' = [call EXCEPT ![r][l] = Idle]
  /\ shown' = [shown EXCEPT ![l] = call[r][l].got]
  /\ first' = IF l = "stats" /\ first = Nothing THEN call[r][l].got ELSE first
  /\ IF l = "stats" THEN Alert(call[r][l].got) ELSE UNCHANGED alerted
  /\ UNCHANGED <<doc, changes, timer>>

\* A failure leaves what is shown, but for the chip of fetchMe, which turns to
\* 'Local'.
TakeFailure(r, l) ==
  /\ call[r][l] = Failed
  /\ call' = [call EXCEPT ![r][l] = Idle]
  /\ shown' = IF l = "me" THEN [shown EXCEPT ![l] = Nothing] ELSE shown
  /\ UNCHANGED <<doc, changes, timer, first, alerted>>

RefreshNext ==
  \/ \E l \in Loader : Change(l)
  \/ Tick \/ Refresh \/ SetRate
  \/ \E r \in Round, l \in Loader :
       Serve(r, l) \/ Lose(r, l) \/ Take(r, l) \/ TakeFailure(r, l)

\* The timer ticks, every request ends in an answer or a failure, and Central,
\* asked again and again, answers: requests are not lost for ever.
RefreshFairness ==
  /\ WF_refreshVars(Tick)
  /\ \A l \in Loader :
       /\ SF_refreshVars(\E r \in Round : Serve(r, l))
       /\ WF_refreshVars(\E r \in Round : Take(r, l) \/ TakeFailure(r, l))

-----------------------------------------------------------------------------
RefreshTypeOK ==
  /\ doc \in [Loader -> Value]
  /\ shown \in [Loader -> Value \cup {Nothing}]
  /\ call \in [Round -> [Loader -> {Idle, Sent, Failed} \cup {Answered(v) : v \in Value}]]
  /\ timer \in BOOLEAN
  /\ first \in Value \cup {Nothing} /\ alerted \in Nat

\* However the answers overtake one another, no flag is counted on the page that
\* was neither there at the first answer nor announced.
RisesAreAnnounced == first # Nothing => shown["stats"] <= first + alerted

\* As long as the timer runs, the page comes to show what Central serves: answers
\* out of date are replaced, and no failure stops the rounds.
PageCatchesUp == <>[]timer => \A l \in Loader : []<>(shown[l] = doc[l])
=============================================================================
