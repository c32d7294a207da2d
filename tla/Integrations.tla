------------------------------ MODULE Integrations ------------------------------
(***************************************************************************)
(* Central's integration settings (the routes of central/server.ts and the *)
(* table behind them) and the OpenCTI connectors (central/app.ts,          *)
(* cti/connector.ts).                                                      *)
(*                                                                         *)
(* A test reads a setting, talks to the other end for up to ten seconds    *)
(* and writes the WHOLE setting back, over whatever was done to it         *)
(* meanwhile.  The connectors are made from the enabled settings once, at  *)
(* start; each event is sent by a task of its own, which retries and puts  *)
(* the bundle in a bounded queue at last.                                  *)
(***************************************************************************)
EXTENDS Integers, Sequences, FiniteSets, Functions

CONSTANTS
  Name, Config, \* of the settings; those of kind cti
  Job,          \* bound: tests under way at a time
  Event,        \* attacker events, each persisted once
  MaxRetries, MaxQueue,
  None

IntegrationsAssumption ==
  /\ MaxRetries \in Nat /\ MaxQueue \in Nat \ {0} \* 3 and 1000: never set otherwise
  /\ None \notin Config \cup [config : Config, enabled : BOOLEAN, verified : Config \cup {None}]

VARIABLES
  setting,   \* name -> [config, enabled, verified], or None; verified is the
             \* configuration that passed the test, or None
  test,      \* job -> [name, setting] read by a test under way, or None
  connector, \* openCTIConnectors: name -> its config, or None
  task,      \* connector -> event -> see Task
  ctiQueue   \* connector -> bundles put aside

settings == <<setting, test>>
connectors == <<connector, task, ctiQueue>>
vars == <<setting, test, connector, task, ctiQueue>>

\* <<"posting", k>>, <<"waiting", k>>: attempt k and the pause after it.
Task == {"none", "posting", "waiting", "sent", "queued", "shed"} \X (0..MaxRetries)

-----------------------------------------------------------------------------
(* Settings.  Each route but the test is one turn of the event loop.       *)

Save(n, c) ==
  /\ setting' = [setting EXCEPT ![n] = [config |-> c, enabled |-> FALSE, verified |-> None]]
  /\ UNCHANGED <<test, connectors>>

Delete(n) ==
  /\ setting[n] # None /\ setting' = [setting EXCEPT ![n] = None]
  /\ UNCHANGED <<test, connectors>>

Enable(n) ==
  /\ setting[n] # None /\ setting' = [setting EXCEPT ![n].enabled = ~@]
  /\ UNCHANGED <<test, connectors>>

BeginTest(j, n) ==
  /\ test[j] = None /\ setting[n] # None
  /\ test' = [test EXCEPT ![j] = [name |-> n, setting |-> setting[n]]]
  /\ UNCHANGED <<setting, connectors>>

\* A test that fails leaves the mark of an earlier one.
EndTest(j, ok) ==
  /\ test[j] # None
  /\ setting' = [setting EXCEPT ![test[j].name] =
       IF ok THEN [test[j].setting EXCEPT !.verified = test[j].setting.config] ELSE test[j].setting]
  /\ test' = [test EXCEPT ![j] = None]
  /\ UNCHANGED connectors

-----------------------------------------------------------------------------
(* OpenCTI.                                                                *)

Idle == [n \in Name |-> [e \in Event |-> <<"none", 0>>]]
Empty == [n \in Name |-> <<>>]

\* A start: what was in memory is gone.
Boot ==
  /\ connector' = [n \in Name |-> IF setting[n] # None /\ setting[n].enabled THEN setting[n].config ELSE None]
  /\ task' = Idle /\ ctiQueue' = Empty
  /\ test' = [j \in Job |-> None]
  /\ UNCHANGED setting

\* persistEvent hands the event to every connector and waits for none.
Persist(e) ==
  /\ \E n \in Name : connector[n] # None /\ task[n][e] = <<"none", 0>>
  /\ task' = [n \in Name |->
       IF connector[n] # None THEN [task[n] EXCEPT ![e] = <<"posting", 0>>] ELSE task[n]]
  /\ UNCHANGED <<settings, connector, ctiQueue>>

Sent(n, e) ==
  /\ task[n][e][1] = "posting"
  /\ task' = [task EXCEPT ![n][e] = <<"sent", 0>>]
  /\ UNCHANGED <<settings, connector, ctiQueue>>

Fail(n, e) ==
  /\ \E k \in 0..MaxRetries - 1 :
       task[n][e] = <<"posting", k>> /\ task' = [task EXCEPT ![n][e] = <<"waiting", k>>]
  /\ UNCHANGED <<settings, connector, ctiQueue>>

PauseEnds(n, e) ==
  /\ \E k \in 0..MaxRetries - 1 :
       task[n][e] = <<"waiting", k>> /\ task' = [task EXCEPT ![n][e] = <<"posting", k + 1>>]
  /\ UNCHANGED <<settings, connector, ctiQueue>>

\* enqueue: the oldest makes room.
Enqueue(n, e) ==
  LET full == Len(ctiQueue[n]) >= MaxQueue
  IN /\ ctiQueue' = [ctiQueue EXCEPT ![n] = Append(IF full THEN Tail(@) ELSE @, e)]
     /\ task' = [task EXCEPT ![n] =
          [x \in Event |-> IF x = e THEN <<"queued", 0>>
             ELSE IF full /\ x = Head(ctiQueue[n]) THEN <<"shed", 0>> ELSE @[x]]]

\* Nothing sends what is put aside: flush has no caller in the program.
PutAside(n, e) ==
  /\ task[n][e] = <<"posting", MaxRetries>>
  /\ Enqueue(n, e)
  /\ UNCHANGED <<settings, connector>>

Init ==
  /\ setting = [n \in Name |-> None] /\ test = [j \in Job |-> None]
  /\ connector = [n \in Name |-> None]
  /\ task = Idle /\ ctiQueue = Empty

Next ==
  \/ \E n \in Name : Delete(n) \/ Enable(n) \/ \E c \in Config : Save(n, c)
  \/ \E j \in Job : (\E n \in Name : BeginTest(j, n)) \/ \E ok \in BOOLEAN : EndTest(j, ok)
  \/ Boot
  \/ \E e \in Event : Persist(e)
  \/ \E n \in Name, e \in Event : Sent(n, e) \/ Fail(n, e) \/ PauseEnds(n, e) \/ PutAside(n, e)

Spec == Init /\ [][Next]_vars

-----------------------------------------------------------------------------
IntegrationsTypeOK ==
  /\ \A n \in Name : setting[n] # None =>
       setting[n] \in [config : Config, enabled : BOOLEAN, verified : Config \cup {None}]
  /\ connector \in [Name -> Config \cup {None}]
  /\ task \in [Name -> [Event -> Task]]
  /\ \A n \in Name : Len(ctiQueue[n]) <= MaxQueue

\* The mark "verified" belongs to the configuration beside it, whatever was
\* saved, deleted or switched while the test was under way.
VerifiedWasTested ==
  \A n \in Name : setting[n] # None => setting[n].verified \in {None, setting[n].config}

\* A bundle that could not be sent is kept, once, and given up only for newer
\* ones when the queue is full: tasks that end in any order neither lose nor
\* repeat one.
QueuedIsKept ==
  \A n \in Name :
    /\ IsInjective(ctiQueue[n])
    /\ Range(ctiQueue[n]) = {e \in Event : task[n][e][1] = "queued"}
    /\ (\E e \in Event : task[n][e][1] = "shed") => Len(ctiQueue[n]) = MaxQueue
=============================================================================
