---------------------------- MODULE TemplateCatalog ----------------------------
(***************************************************************************)
(* Central's templates (storage/indexer.ts, central/server.ts), of one     *)
(* name, and the one a node serves.  Each is kept in the table and, as the *)
(* copy of this run of Central, in memory: what the database refuses is in *)
(* memory alone, and a look-up asks memory only for what the table does    *)
(* not have or the database would not read.                                *)
(***************************************************************************)
EXTENDS Integers

CONSTANTS
  MaxVersion, \* bound
  Body,       \* contents of a template
  None,
  MaxTime     \* bound: saves

VARIABLES
  table,   \* version -> its row: [body, created], or None
  memory,  \* version -> the same, of this run
  time,    \* saves so far
  served,  \* the node's template: [version, body], None before any
  asked,   \* a command on its way: the template it carries, or None
  stored   \* history: <<version, body>> ever stored

templateVars == <<table, memory, time, served, asked, stored>>

Versions == 1 .. MaxVersion
Row == [body: Body, created: 1 .. MaxTime]
Template == [version: Versions, body: Body]

TemplateAssumption ==
  MaxVersion \in Nat /\ MaxTime \in Nat /\ None \notin Row \cup Template

TemplateInit ==
  /\ table = [v \in Versions |-> None] /\ memory = [v \in Versions |-> None]
  /\ time = 0 /\ served = None /\ asked = None /\ stored = {}

Newest(versions) == CHOOSE v \in versions : \A w \in versions : w <= v

-----------------------------------------------------------------------------
\* created_at_ms of a version saved again stays.
Created(old) == IF old = None THEN time' ELSE old.created

\* POST /templates, saveHoneypotTemplate: an existing version is written over.
Save(v, body) ==
  /\ time < MaxTime
  /\ time' = time + 1
  /\ LET Over(old) == [body |-> body, created |-> Created(old)]
         record == Over(IF table[v] # None THEN table[v] ELSE memory[v])
     IN \/ /\ table' = [table EXCEPT ![v] = record]
           /\ memory' = [memory EXCEPT ![v] = record]
        \/ /\ memory' = [memory EXCEPT ![v] = Over(memory[v])] \* the database refuses
           /\ UNCHANGED table
  /\ stored' = stored \cup {<<v, body>>}
  /\ UNCHANGED <<served, asked>>

\* getHoneypotTemplate: the version asked for, or the newest, of the table; of
\* memory when it has none, or cannot be read.
Find(rows, want) ==
  LET there == {v \in want : rows[v] # None}
  IN IF there = {} THEN None
     ELSE [version |-> Newest(there), body |-> rows[Newest(there)].body]

\* The command apply_template, with a version or without; the node that gets it
\* later serves what the command carries.
Apply(want) ==
  /\ asked = None
  /\ \E readable \in BOOLEAN :
       LET row == IF readable THEN Find(table, want) ELSE None
           found == IF row # None THEN row ELSE Find(memory, want)
       IN found # None /\ asked' = found
  /\ UNCHANGED <<table, memory, time, served, stored>>

Serve ==
  /\ asked # None
  /\ served' = asked /\ asked' = None
  /\ UNCHANGED <<table, memory, time, stored>>

LoseCommand ==
  /\ asked # None
  /\ asked' = None
  /\ UNCHANGED <<table, memory, time, served, stored>>

\* Central starts again: the table is what is left.
Restart ==
  /\ memory' = [v \in Versions |-> None] /\ asked' = None
  /\ UNCHANGED <<table, time, served, stored>>

TemplateNext ==
  \/ \E v \in Versions, body \in Body : Save(v, body)
  \/ \E want \in {{v} : v \in Versions} \cup {Versions} : Apply(want)
  \/ Serve \/ LoseCommand \/ Restart

-----------------------------------------------------------------------------
TemplateTypeOK ==
  /\ table \in [Versions -> Row \cup {None}] /\ memory \in [Versions -> Row \cup {None}]
  /\ served \in Template \cup {None} /\ asked \in Template \cup {None}

\* Through refusals and restarts: a node serves nothing but what was stored as the
\* version it reports, and the date a version was first stored at stays with it
\* as long as its row.
TemplatesKeepTheirOrigin ==
  /\ [](served # None => <<served.version, served.body>> \in stored)
  /\ [][\A v \in Versions : table[v] # None =>
          table'[v] # None /\ table'[v].created = table[v].created]_templateVars

\* "Store one immutable version" (indexer.ts): what is stored as a version stays.
VersionIsImmutable ==
  [][\A v \in Versions : table[v] # None => table'[v].body = table[v].body]_templateVars
=============================================================================
