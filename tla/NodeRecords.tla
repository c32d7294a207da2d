------------------------------ MODULE NodeRecords ------------------------------
(***************************************************************************)
(* What a node keeps of an event: the bus and its sinks (events/bus.ts,    *)
(* app/bootstrap.ts, logging/sinks.ts, logging/eventlog.ts) and the tables *)
(* behind them (storage/indexer.ts).                                       *)
(*                                                                         *)
(* A flush emits its events at once.  Every sink gets every event; each    *)
(* begins in the order of registration and runs to its first await, which  *)
(* puts the flag rows, alone, after all the rest.  Each statement is a     *)
(* transaction of its own: the process may die before any of them, and the *)
(* database may refuse any of them, for which the storage keeps the row in *)
(* memory.  Statements that follow one another in one sink's write are not *)
(* reached after a refusal.                                                *)
(***************************************************************************)
EXTENDS Integers, Sequences, FiniteSets, SequencesExt

CONSTANTS
  Client,   \* sessions
  MaxEvents \* bound: emitted, numbered in order

VARIABLES
  emitted,  \* events, in order: [by, flag], a flag.hit or a session.upsert
  todo,     \* statements of the flush still to be run: <<table, event>>
  table,    \* table -> the events it has a row of
  memory,   \* table -> the events kept in memory for it
  activity, \* attacker_activity: <<client, flag>> -> the event in its row, or 0
  lost,     \* history: events whose statements a crash cut short
  refused   \* history: events of which a statement was refused

vars == <<emitted, todo, table, memory, activity, lost, refused>>

NodeRecordsAssumption == MaxEvents \in Nat

\* "v2": the normalized projection, in event_envelopes like the raw "envelope".
Tables == {"v2", "events", "envelope", "flags"}

-----------------------------------------------------------------------------
\* Mutant: the envelope, which the feed serves, is written first.
EnvelopeFirst(e) == << <<"v2", e>>, <<"activity", e>>, <<"envelope", e>>, <<"events", e>> >>

\* The sinks up to their first await: event_log, attacker_activity, storage.
Statements(e) == << <<"v2", e>>, <<"activity", e>>, <<"events", e>>, <<"envelope", e>> >>

\* flush: the events it drained from the engine.
Flush(new) ==
  /\ todo = <<>> /\ Len(emitted) + Len(new) <= MaxEvents
  /\ emitted' = emitted \o new
  /\ LET e(i) == Len(emitted) + i
         Flag(i) == IF new[i].flag THEN << <<"flags", e(i)>> >> ELSE <<>>
     IN todo' = FlattenSeq([i \in DOMAIN new |-> Statements(e(i))])
                  \o FlattenSeq([i \in DOMAIN new |-> Flag(i)])
  /\ UNCHANGED <<table, memory, activity, lost, refused>>

Key(e) == <<emitted[e].by, emitted[e].flag>>

\* INSERT OR REPLACE by an id that names the session and the type only.
WriteActivity(e) == activity' = [activity EXCEPT ![Key(e)] = e]

\* A statement is run.
Write ==
  /\ todo # <<>> /\ todo' = Tail(todo)
  /\ LET t == Head(todo)[1]  e == Head(todo)[2]
     IN IF t = "activity"
        THEN WriteActivity(e) /\ UNCHANGED table
        ELSE table' = [table EXCEPT ![t] = @ \cup {e}] /\ UNCHANGED activity
  /\ UNCHANGED <<emitted, memory, lost, refused>>

\* A statement is refused.  The event and its envelope are one write: after a
\* refusal of either, the event is kept.  (The lists of the activity and of the
\* projections serve nothing: they are left out.)
Refuse ==
  /\ todo # <<>>
  /\ LET t == Head(todo)[1]  e == Head(todo)[2]
     IN /\ todo' = IF t = "events" THEN Tail(Tail(todo)) ELSE Tail(todo)
        /\ memory' = IF t \in {"events", "envelope"}
             THEN [memory EXCEPT !["events"] = @ \cup {e}]
             ELSE IF t = "flags" THEN [memory EXCEPT !["flags"] = @ \cup {e}] ELSE memory
        /\ refused' = refused \cup {e}
  /\ UNCHANGED <<emitted, table, activity, lost>>

\* The process dies and is started again.
Crash ==
  /\ lost' = lost \cup {todo[i][2] : i \in DOMAIN todo}
       \cup UNION {memory[t] : t \in DOMAIN memory}
  /\ todo' = <<>>
  /\ memory' = [t \in {"events", "flags"} |-> {}]
  /\ UNCHANGED <<emitted, table, activity, refused>>

Init ==
  /\ emitted = <<>> /\ todo = <<>>
  /\ table = [t \in Tables |-> {}]
  /\ memory = [t \in {"events", "flags"} |-> {}]
  /\ activity = [k \in Client \X BOOLEAN |-> 0]
  /\ lost = {} /\ refused = {}

Event == [by : Client, flag : BOOLEAN]

Next ==
  \/ \E a \in Event : Flush(<<a>>) \/ \E b \in Event : Flush(<<a, b>>)
  \/ Write \/ Refuse \/ Crash

Spec == Init /\ [][Next]_vars

-----------------------------------------------------------------------------
RecordsTypeOK ==
  /\ emitted \in Seq(Event)
  /\ \A t \in Tables : table[t] \subseteq DOMAIN emitted
  /\ activity \in [Client \X BOOLEAN -> 0..MaxEvents]

\* The feed serves envelopes: it never serves an event of which the node has no
\* evidence row, whatever was refused or cut short.
ServedIsRecorded == table["envelope"] \subseteq table["events"]

\* With nothing left to do, an event is in its tables or in the memory of the
\* process, unless a crash came between; a refusal of one sink's statement costs
\* the other sinks nothing.
EveryEventIsKept ==
  todo = <<>> => \A e \in DOMAIN emitted \ lost :
    /\ e \in table["envelope"] \cup memory["events"]
    /\ emitted[e].flag => e \in table["flags"] \cup memory["flags"]
    /\ e \notin refused => e \in table["v2"]

\* The row of a session's activity is never older than one that was written and
\* not refused.
ActivityIsNewest ==
  todo = <<>> => \A e \in DOMAIN emitted \ (lost \cup refused) : activity[Key(e)] >= e
=============================================================================
