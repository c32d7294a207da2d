------------------------------- MODULE Migration -------------------------------
(***************************************************************************)
(* The opening of a database by the storage (storage/indexer.ts init,      *)
(* migrateLegacySchema, ensureColumn, createTables), from one whose tables *)
(* have the keys of an earlier version.                                    *)
(*                                                                         *)
(* Five tables are rebuilt in turn, each by a script of statements without *)
(* a transaction: create the new table, copy, drop the old one, rename.    *)
(* The process may die between any two of them, and a statement may fail   *)
(* (a full disk), which ends the migration but not the opening.            *)
(***************************************************************************)
EXTENDS Integers, Sequences

VARIABLES
  main,   \* table -> its form under its own name, see Form
  had,    \* the tables there were rows in to begin with
  rows,   \* table -> the rows of the earlier version are in it
  new,    \* table -> what <table>_new is: "none", "empty", "copy"
  doing,  \* "off", "rebuild", "columns", "create", "database", "memory"
  at,     \* rebuild: the number of the table it has come to
  next,   \* rebuild: the statement it comes to
  calm    \* history: nothing has gone wrong so far

vars == <<had, main, rows, new, doing, at, next, calm>>

Table == <<"events", "event_envelopes", "central_events", "sessions", "flags">>
T == {Table[i] : i \in DOMAIN Table}

\* "widened": the old key, with the column site_id.
Form == {"absent", "legacy", "widened", "current"}
HasSiteId(t) == main[t] \in {"widened", "current"}

-----------------------------------------------------------------------------
(* init                                                                    *)

Start ==
  /\ doing = "off" /\ doing' = "rebuild" /\ at' = 1 /\ next' = "guard"
  /\ UNCHANGED <<had, main, rows, new, calm>>

NextTable ==
  /\ at' = at + 1 /\ next' = "guard"
  /\ doing' = IF at = Len(Table) THEN "columns" ELSE "rebuild"

\* What a statement that throws does: the rest of the migration is skipped.
Abandon ==
  /\ doing' = "columns" /\ UNCHANGED <<at, next>>

Guard(t) ==
  /\ next = "guard"
  /\ IF main[t] # "absent" /\ ~HasSiteId(t)
     THEN next' = "create" /\ UNCHANGED <<doing, at>>
     ELSE NextTable
  /\ UNCHANGED <<had, main, rows, new, calm>>

\* The table may be there, from a migration that was cut short.
Create(t) ==
  /\ next = "create"
  /\ IF new[t] = "none"
     THEN new' = [new EXCEPT ![t] = "empty"] /\ next' = "copy" /\ UNCHANGED <<doing, at>>
     ELSE Abandon /\ UNCHANGED new
  /\ UNCHANGED <<had, main, rows, calm>>

Copy(t) ==
  /\ next = "copy" /\ next' = "drop"
  /\ new' = [new EXCEPT ![t] = "copy"]
  /\ UNCHANGED <<had, main, rows, doing, at, calm>>

Drop(t) ==
  /\ next = "drop" /\ next' = "rename"
  /\ main' = [main EXCEPT ![t] = "absent"] /\ rows' = [rows EXCEPT ![t] = FALSE]
  /\ UNCHANGED <<had, new, doing, at, calm>>

\* The rename, and the indexes, which may be there already.
Rename(t) ==
  /\ next = "rename"
  /\ main' = [main EXCEPT ![t] = "current"]
  /\ rows' = [rows EXCEPT ![t] = new[t] = "copy"]
  /\ new' = [new EXCEPT ![t] = "none"]
  /\ NextTable
  /\ UNCHANGED <<had, calm>>

\* A statement fails.
Fail ==
  /\ doing = "rebuild" /\ next # "guard"
  /\ Abandon /\ calm' = FALSE
  /\ UNCHANGED <<had, main, rows, new>>

\* ensureColumn: of the five tables only this one may get its site_id here.
Columns ==
  /\ doing = "columns" /\ doing' = "create"
  /\ main' = [main EXCEPT !["event_envelopes"] = IF @ = "legacy" THEN "widened" ELSE @]
  /\ UNCHANGED <<had, rows, new, at, next, calm>>

\* createTables: what is absent, and an index on central_events(site_id), for
\* want of which the storage keeps nothing at all.
CreateTables ==
  /\ doing = "create"
  /\ main' = [t \in T |-> IF main[t] = "absent" THEN "current" ELSE main[t]]
  /\ doing' = IF main["central_events"] = "legacy" THEN "memory" ELSE "database"
  /\ UNCHANGED <<had, rows, new, at, next, calm>>

\* The process ends, at any point, and may be started again.
Die ==
  /\ doing # "off" /\ doing' = "off"
  /\ calm' = (calm /\ doing \in {"database", "memory"})
  /\ UNCHANGED <<had, main, rows, new, at, next>>

Init ==
  /\ had \in {T, T \ {"central_events"}} \* Central's table
  /\ main = [t \in T |-> IF t \in had THEN "legacy" ELSE "absent"]
  /\ rows = [t \in T |-> t \in had]
  /\ new = [t \in T |-> "none"]
  /\ doing = "off" /\ at = 1 /\ next = "guard" /\ calm = TRUE

Next ==
  \/ Start \/ Columns \/ CreateTables \/ Fail \/ Die
  \/ /\ doing = "rebuild"
     /\ \/ Guard(Table[at]) \/ Create(Table[at]) \/ Copy(Table[at])
        \/ Drop(Table[at]) \/ Rename(Table[at])

Spec == Init /\ [][Next]_vars

-----------------------------------------------------------------------------
MigrationTypeOK ==
  /\ had \subseteq T /\ main \in [T -> Form] /\ rows \in [T -> BOOLEAN]
  /\ new \in [T -> {"none", "empty", "copy"}] /\ at \in 1..Len(Table) + 1
  /\ doing \in {"off", "rebuild", "columns", "create", "database", "memory"}

\* What an earlier version recorded is never destroyed, wherever the migration
\* was cut short and however often it was tried again: it is in the table or in
\* the copy.
RowsSurvive == \A t \in had : rows[t] \/ new[t] = "copy"

\* An undisturbed opening ends with the current keys and every row served, and
\* the openings after it find it so.
UndisturbedMigrates ==
  calm /\ doing \in {"database", "memory"} =>
    /\ doing = "database"
    /\ \A t \in T : main[t] = "current" /\ new[t] = "none"
    /\ \A t \in had : rows[t]

\* "Migration best-effort; if it fails, fall back to memory" (indexer.ts,
\* migrateLegacySchema): a storage that runs on the database serves what was in
\* it.
MigratedOrMemory ==
  doing = "database" => \A t \in had : main[t] = "current" /\ rows[t]
=============================================================================
