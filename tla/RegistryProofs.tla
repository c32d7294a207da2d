---------------------------- MODULE RegistryProofs ----------------------------
(***************************************************************************)
(* Proofs about Registry, for any nodes, operators, handlers and polls.    *)
(*                                                                         *)
(* What is under way is described by the waits a job can be at (Waits):    *)
(* which job goes on under which site, and that an answer carries the      *)
(* token it was asked with.  The rest of the invariant says that a token   *)
(* with an answered registration is spent, and that whoever is about to    *)
(* write a row decides on the rows as they are in the step that writes     *)
(* them.                                                                   *)
(***************************************************************************)
EXTENDS Registry, TLAPS

Kinds == {"enroll", "verify", "activate", "command", "poll", "page"}

Waiting ==
  [at: {"asked", "served"}, kind: Kinds, site: Site \cup {None}, host: Host,
   token: Token, boot: Boot \cup {None}, answer: Identity \cup {None}]

\* What a job that waits knows.
Waits(j) ==
  /\ j.at = "served" => j.answer \in Identity /\ j.answer.token = j.token
  /\ j.at = "asked" => j.answer = None
  /\ j.site = None <=> j.kind = "enroll"

Types ==
  /\ node \in [Host -> Identity] /\ changes \in 0..MaxChanges
  /\ row \in [Site -> Row \cup {None}]
  /\ boot \in [Boot -> {"none", "live", "over"}]
  /\ job \in [Job -> Waiting \cup {Idle}]
  /\ \A w \in Job : job[w] # Idle => Waits(job[w])
  /\ cycle \in (SUBSET [site: Site, host: Host]) \cup {None}
  /\ granted \in [Boot -> 0..1]

\* A token that got a registration is not good for another one.
SpentOnce == \A b \in Boot : granted[b] = 1 => boot[b] = "over"

Inv == Types /\ SpentOnce /\ EndpointsDistinct /\ EventsAreItsOwn

-----------------------------------------------------------------------------
(* Jobs.                                                                   *)

LEMMA Constants ==
  /\ None \notin Site /\ None \notin Row /\ None \notin Boot /\ MaxChanges \in Nat
BY RegistryAssumption

LEMMA IdleWaits == Idle \notin Waiting
BY DEF Idle, Waiting

\* A job that goes on has been answered.
LEMMA ServedJob ==
  ASSUME Types, NEW w \in Job, NEW k, Back(w, k)
  PROVE  /\ job[w] \in Waiting /\ job[w] # Idle
         /\ job[w].kind = k /\ job[w].host \in Host /\ job[w].token \in Token
         /\ job[w].boot \in Boot \cup {None}
         /\ job[w].answer \in Identity /\ job[w].answer.token = job[w].token
         /\ job[w].site = None <=> k = "enroll"
         /\ k # "enroll" => job[w].site \in Site
<1>1. job[w] # Idle /\ job[w].at = "served" /\ job[w].kind = k
  BY DEF Back, Idle
<1>2. job[w] \in Waiting /\ Waits(job[w])
  BY <1>1 DEF Types
<1> QED  BY <1>1, <1>2 DEF Waiting, Waits

\* Asking and ending keep the description of the jobs.
LEMMA AskTypes ==
  ASSUME Types, NEW w \in Job, NEW k \in Kinds, NEW s \in Site \cup {None}, NEW h \in Host,
         NEW t \in Token, NEW b \in Boot \cup {None}, s = None <=> k = "enroll",
         Ask(w, k, s, h, t, b)
  PROVE  /\ job' \in [Job -> Waiting \cup {Idle}]
         /\ \A v \in Job : job'[v] # Idle => Waits(job'[v])
<1> DEFINE j == [at |-> "asked", kind |-> k, site |-> s, host |-> h, token |-> t,
                 boot |-> b, answer |-> None]
<1>1. j \in Waiting /\ Waits(j)
  BY DEF Waiting, Waits
<1>2. job' = [job EXCEPT ![w] = j]
  BY DEF Ask
<1> HIDE DEF j
<1> QED  BY <1>1, <1>2 DEF Types

LEMMA EndTypes ==
  ASSUME Types, NEW w \in Job, End(w)
  PROVE  /\ job' \in [Job -> Waiting \cup {Idle}]
         /\ \A v \in Job : job'[v] # Idle => Waits(job'[v])
BY DEF Types, End

-----------------------------------------------------------------------------
(* The actions keep the invariant.                                         *)

LEMMA InitInv == Init => Inv
<1> SUFFICES ASSUME Init PROVE Inv
  OBVIOUS
<1>1. node \in [Host -> Identity]
  BY DEF Init
<1>2. /\ job \in [Job -> Waiting \cup {Idle}]
      /\ \A w \in Job : job[w] # Idle => Waits(job[w])
  BY DEF Init
<1>3. /\ row \in [Site -> Row \cup {None}] /\ boot \in [Boot -> {"none", "live", "over"}]
      /\ granted \in [Boot -> 0..1] /\ changes \in 0..MaxChanges
      /\ cycle \in (SUBSET [site: Site, host: Host]) \cup {None}
  BY Constants DEF Init
<1>4. Types
  BY <1>1, <1>2, <1>3 DEF Init, Types
<1>5. SpentOnce /\ EndpointsDistinct /\ EventsAreItsOwn
  BY DEF Init, SpentOnce, EndpointsDistinct, Rows, EventsAreItsOwn
<1> QED  BY <1>4, <1>5 DEF Inv

\* What changes no row cannot make two endpoints alike.
LEMMA SameEndpoints ==
  ASSUME EndpointsDistinct, UNCHANGED row
  PROVE  EndpointsDistinct'
BY DEF EndpointsDistinct, Rows

\* Nor can what keeps the address of every row and adds none.
LEMMA HostsKept ==
  ASSUME EndpointsDistinct, NEW s \in Site, row[s] # None,
         \A t \in Site \ {s} : row'[t] = row[t],
         row'[s] # None => row'[s].host = row[s].host
  PROVE  EndpointsDistinct'
BY DEF EndpointsDistinct, Rows

LEMMA ReinstallInv ==
  ASSUME Inv, NEW h \in Host, NEW i \in Identity, Reinstall(h, i)
  PROVE  Inv'
<1>1. node' \in [Host -> Identity] /\ changes' \in 0..MaxChanges
  BY Constants DEF Inv, Types, Reinstall
<1>2. Types' /\ SpentOnce' /\ EventsAreItsOwn'
  BY <1>1 DEF Inv, Types, Reinstall, history, SpentOnce, EventsAreItsOwn
<1> QED  BY <1>2, SameEndpoints DEF Inv, Reinstall

\* The node serves under its token, whatever its configuration becomes.
LEMMA ServeInv ==
  ASSUME Inv, NEW w \in Job, Serve(w)
  PROVE  Inv'
<1> DEFINE j == job[w]
           n == node[j.host]
<1>1. j \in Waiting /\ j.at = "asked" /\ n.token = j.token /\ Waits(j)
  BY DEF Inv, Types, Serve, Idle
<1>2. n \in Identity /\ j.host \in Host
  BY <1>1 DEF Inv, Types, Waiting
<1>3. PICK c \in IF j.kind = "command" THEN Conf ELSE {n.conf} :
        /\ node' = [node EXCEPT ![j.host].conf = c]
        /\ job' = [job EXCEPT ![w].at = "served", ![w].answer = node'[j.host]]
  BY DEF Serve
<1>4. c \in Conf
  BY <1>2, <1>3 DEF Identity
<1>5. [n EXCEPT !.conf = c] \in Identity /\ [n EXCEPT !.conf = c].token = j.token
  BY <1>1, <1>2, <1>4 DEF Identity
<1>6. node' = [node EXCEPT ![j.host] = [n EXCEPT !.conf = c]]
  BY <1>3
<1>7. node' \in [Host -> Identity] /\ node'[j.host] = [n EXCEPT !.conf = c]
  BY <1>2, <1>5, <1>6 DEF Inv, Types
<1> DEFINE k == [j EXCEPT !.at = "served", !.answer = node'[j.host]]
<1>8. k \in Waiting /\ Waits(k)
  BY <1>1, <1>5, <1>7 DEF Waiting, Waits
<1>9. job' = [job EXCEPT ![w] = k]
  BY <1>1, <1>3 DEF Inv, Types, Waiting
<1>10. /\ job' \in [Job -> Waiting \cup {Idle}]
       /\ \A v \in Job : job'[v] # Idle => Waits(job'[v])
  <2> HIDE DEF k
  <2> QED  BY <1>8, <1>9 DEF Inv, Types
<1>11. Types' /\ SpentOnce' /\ EventsAreItsOwn'
  BY <1>7, <1>10 DEF Inv, Types, Serve, history, SpentOnce, EventsAreItsOwn
<1> QED  BY <1>11, SameEndpoints DEF Inv, Serve

\* A job that only ends or asks.
LEMMA JobOnlyInv ==
  ASSUME Inv, UNCHANGED <<world, row, boot, cycle, history>>,
         job' \in [Job -> Waiting \cup {Idle}],
         \A v \in Job : job'[v] # Idle => Waits(job'[v])
  PROVE  Inv'
<1>1. Types' /\ SpentOnce' /\ EventsAreItsOwn'
  BY DEF Inv, Types, world, history, SpentOnce, EventsAreItsOwn
<1> QED  BY <1>1, SameEndpoints DEF Inv

LEMMA FailInv ==
  ASSUME Inv, NEW w \in Job, Fail(w)
  PROVE  Inv'
BY EndTypes, JobOnlyInv DEF Inv, Fail

\* A request of an operator waits before it writes anything.
LEMMA RequestInv ==
  ASSUME Inv, NEW w \in Job, Request(w)
  PROVE  Inv'
<1>0. Types
  BY DEF Inv
<1>1. ASSUME NEW h \in Host, NEW b \in Boot \cup {None}, Enroll(w, h, node[h].token, b)
      PROVE  Inv'
  <2>1. node[h].token \in Token
    BY <1>0 DEF Types, Identity
  <2> QED  BY <1>0, <1>1, <2>1, AskTypes, JobOnlyInv DEF Enroll, Kinds
<1>2. ASSUME NEW s \in Rows, Command(w, s)
      PROVE  Inv'
  <2>1. s \in Site /\ row[s].host \in Host /\ row[s].token \in Token
    BY <1>0 DEF Types, Rows, Row
  <2> QED  BY <1>0, <1>2, <2>1, Constants, AskTypes, JobOnlyInv DEF Command, Kinds
<1>3. ASSUME NEW s \in Rows, NEW t \in Token \ {row[s].token}, Patch(w, s, t)
      PROVE  Inv'
  <2>1. s \in Site /\ row[s].host \in Host
    BY <1>0 DEF Types, Rows, Row
  <2> QED  BY <1>0, <1>3, <2>1, Constants, AskTypes, JobOnlyInv DEF Patch, Kinds
<1> QED  BY <1>1, <1>2, <1>3 DEF Request

\* The enrolment looks at the rows in the step that writes one, and the token
\* it spends was good until then.
LEMMA EnrollEndsInv ==
  ASSUME Inv, NEW w \in Job, EnrollEnds(w)
  PROVE  Inv'
<1> DEFINE j == job[w]
           i == j.answer
<1>0. Types /\ SpentOnce /\ Back(w, "enroll") /\ End(w)
  BY DEF Inv, EnrollEnds
<1>1. j.host \in Host /\ j.token \in Token /\ j.boot \in Boot \cup {None} /\ i \in Identity
  BY <1>0, ServedJob
<1>2. NewRow(j) \in Row /\ i.site \in Site
  BY <1>1 DEF NewRow, Row, Identity
<1>3. row' \in [Site -> Row \cup {None}] /\ EndpointsDistinct'
  <2>1. CASE New(i, j.host)
    <3>1. row' = [row EXCEPT ![i.site] = NewRow(j)]
      BY <2>1 DEF EnrollEnds
    <3>2. \A s \in Rows : row[s].host # NewRow(j).host
      BY <2>1 DEF New, SameEndpoint, NewRow
    <3> QED  BY <1>0, <1>2, <3>1, <3>2 DEF Inv, Types, EndpointsDistinct, Rows
  <2>2. CASE ~New(i, j.host)
    BY <2>2, SameEndpoints DEF EnrollEnds, Inv, Types
  <2> QED  BY <2>1, <2>2
<1>4. /\ boot' \in [Boot -> {"none", "live", "over"}]
      /\ granted' \in [Boot -> 0..1]
      /\ SpentOnce'
  <2>1. CASE Spend(j.boot) /\ j.boot # None /\ Consumes(j.boot)
    <3>1. j.boot \in Boot /\ boot[j.boot] = "live" /\ granted[j.boot] = 0
      BY <1>0, <1>1, <2>1 DEF Consumes, SpentOnce, Types
    <3> QED  BY <1>0, <2>1, <3>1 DEF Spend, Types, SpentOnce
  <2>2. CASE UNCHANGED <<boot, granted>>
    BY <1>0, <2>2 DEF Types, SpentOnce
  <2> QED  BY <2>1, <2>2 DEF EnrollEnds, Spend
<1>5. Types' /\ EventsAreItsOwn'
  BY <1>0, <1>3, <1>4, EndTypes DEF Inv, Types, EnrollEnds, world, EventsAreItsOwn
<1> QED  BY <1>3, <1>4, <1>5 DEF Inv

\* A node that was removed stays removed, and no write changes an address.
LEMMA RemoveInv ==
  ASSUME Inv, NEW s \in Site, Remove(s)
  PROVE  Inv'
<1>1. row' = [row EXCEPT ![s] = None] /\ row[s] # None
  BY DEF Remove
<1>2. Types' /\ SpentOnce' /\ EventsAreItsOwn'
  BY <1>1 DEF Inv, Types, Remove, world, history, SpentOnce, EventsAreItsOwn
<1>3. EndpointsDistinct'
  BY <1>1, HostsKept DEF Inv, Types
<1> QED  BY <1>2, <1>3 DEF Inv

\* A row that is there gets other fields than its address.
LEMMA RowWritten ==
  ASSUME Types, EndpointsDistinct, NEW s \in Site, row[s] # None, NEW r \in Row,
         r.host = row[s].host, row' = [row EXCEPT ![s] = r]
  PROVE  row' \in [Site -> Row \cup {None}] /\ EndpointsDistinct'
<1>1. \A t \in Site \ {s} : row'[t] = row[t]
  BY DEF Types
<1>2. row'[s] = r /\ row' \in [Site -> Row \cup {None}]
  BY DEF Types
<1> QED  BY <1>1, <1>2, HostsKept

LEMMA RenameInv ==
  ASSUME Inv, NEW s \in Site, NEW n \in Name, Rename(s, n)
  PROVE  Inv'
<1> DEFINE r == [row[s] EXCEPT !.name = n]
<1>1. row[s] # None /\ row[s] \in Row
  BY DEF Inv, Types, Rename
<1>2. r \in Row /\ r.host = row[s].host
  BY <1>1 DEF Row
<1>3. row' = [row EXCEPT ![s] = r]
  BY DEF Rename
<1>4. row' \in [Site -> Row \cup {None}] /\ EndpointsDistinct'
  <2> HIDE DEF r
  <2> QED  BY <1>1, <1>2, <1>3, RowWritten DEF Inv
<1>5. Types' /\ SpentOnce' /\ EventsAreItsOwn'
  BY <1>4 DEF Inv, Types, Rename, world, history, SpentOnce, EventsAreItsOwn
<1> QED  BY <1>4, <1>5 DEF Inv

\* updateNodeRuntime writes metadata into a row that is there, and nothing else.
LEMMA RuntimeRow ==
  ASSUME Inv, NEW w \in Job, NEW k, Back(w, k), k # "enroll", row' = Runtime(job[w])
  PROVE  /\ row' \in [Site -> Row \cup {None}] /\ EndpointsDistinct'
         /\ \A s \in Site : row[s] = None => row'[s] = None
         /\ \A s \in Rows : row'[s] # None /\ [row'[s] EXCEPT !.conf = row[s].conf] = row[s]
<1> DEFINE j == job[w]
           r == [row[j.site] EXCEPT !.conf = j.answer.conf]
<1>0. Types /\ EndpointsDistinct
  BY DEF Inv
<1>1. j.site \in Site /\ j.answer.conf \in Conf
  BY <1>0, ServedJob DEF Identity
<1>2. CASE row[j.site] = None
  <2>1. row' = row
    BY <1>2 DEF Runtime
  <2>2. \A s \in Rows : row[s] \in Row /\ row[s] # None
    BY <1>0 DEF Types, Rows
  <2>3. \A s \in Rows : [row[s] EXCEPT !.conf = row[s].conf] = row[s]
    BY <2>2 DEF Row
  <2> QED  BY <1>0, <2>1, <2>2, <2>3, SameEndpoints DEF Types
<1>3. CASE row[j.site] # None
  <2>1. row[j.site] \in Row
    BY <1>0, <1>1, <1>3 DEF Types
  <2>2. r \in Row /\ r.host = row[j.site].host /\ [r EXCEPT !.conf = row[j.site].conf] = row[j.site]
    BY <1>1, <2>1 DEF Row
  <2>3. row' = [row EXCEPT ![j.site] = r]
    BY <1>3 DEF Runtime
  <2>4. row' \in [Site -> Row \cup {None}] /\ EndpointsDistinct'
    <3> HIDE DEF r
    <3> QED  BY <1>0, <1>1, <1>3, <2>2, <2>3, RowWritten
  <2>5. \A s \in Rows \ {j.site} : row'[s] = row[s] /\ row[s] \in Row
    BY <1>0, <2>3 DEF Types, Rows
  <2>6. \A s \in Rows \ {j.site} : [row[s] EXCEPT !.conf = row[s].conf] = row[s]
    BY <2>5 DEF Row
  <2>7. row'[j.site] = r
    BY <1>0, <1>1, <2>3 DEF Types
  <2>8. \A s \in Site : row[s] = None => row'[s] = None
    BY <1>0, <1>3, <2>3 DEF Types
  <2>9. r # None
    BY <2>2, Constants
  <2> HIDE DEF r
  <2>10. ASSUME NEW s \in Rows
         PROVE  row'[s] # None /\ [row'[s] EXCEPT !.conf = row[s].conf] = row[s]
    <3>1. CASE s = j.site
      BY <2>2, <2>7, <2>9, <3>1
    <3>2. CASE s # j.site
      BY <2>5, <2>6, <3>2, Constants
    <3> QED  BY <3>1, <3>2
  <2> QED  BY <2>4, <2>8, <2>10
<1> QED  BY <1>2, <1>3

\* A change of the token asks twice, and then writes into the row as it is.
LEMMA PatchVerifiedInv ==
  ASSUME Inv, NEW w \in Job, PatchVerified(w)
  PROVE  Inv'
<1>0. Types /\ Back(w, "verify")
  BY DEF Inv, PatchVerified
<1>1. job[w].site \in Site /\ job[w].token \in Token
  BY <1>0, ServedJob
<1>2. CASE row[job[w].site] # None
  <2>1. row[job[w].site].host \in Host
    BY <1>0, <1>1, <1>2 DEF Types, Row
  <2> QED  BY <1>0, <1>1, <1>2, <2>1, Constants, AskTypes, JobOnlyInv DEF PatchVerified, Kinds
<1>3. CASE row[job[w].site] = None
  BY <1>0, <1>3, EndTypes, JobOnlyInv DEF PatchVerified
<1> QED  BY <1>2, <1>3

LEMMA PatchEndsInv ==
  ASSUME Inv, NEW w \in Job, PatchEnds(w)
  PROVE  Inv'
<1> DEFINE j == job[w]
           r == [row[j.site] EXCEPT !.token = j.token, !.conf = j.answer.conf]
<1>0. Types /\ EndpointsDistinct /\ Back(w, "activate") /\ End(w)
  BY DEF Inv, PatchEnds
<1>1. j.site \in Site /\ j.token \in Token /\ j.answer.conf \in Conf
  BY <1>0, ServedJob DEF Identity
<1>2. row' \in [Site -> Row \cup {None}] /\ EndpointsDistinct'
  <2>1. CASE row[j.site] # None
    <3>1. row[j.site] \in Row
      BY <1>0, <1>1, <2>1 DEF Types
    <3>2. r \in Row /\ r.host = row[j.site].host
      BY <1>1, <3>1 DEF Row
    <3>3. row' = [row EXCEPT ![j.site] = r]
      BY <1>0, <1>1, <2>1, <3>1 DEF PatchEnds, Types, Row
    <3> HIDE DEF r
    <3> QED  BY <1>0, <1>1, <2>1, <3>2, <3>3, RowWritten
  <2>2. CASE row[j.site] = None
    BY <1>0, <2>2, SameEndpoints DEF PatchEnds, Types
  <2> QED  BY <2>1, <2>2
<1>3. Types' /\ SpentOnce' /\ EventsAreItsOwn'
  BY <1>0, <1>2, EndTypes DEF Inv, Types, PatchEnds, world, history, SpentOnce, EventsAreItsOwn
<1> QED  BY <1>2, <1>3 DEF Inv

LEMMA CommandEndsInv ==
  ASSUME Inv, NEW w \in Job, CommandEnds(w)
  PROVE  Inv'
<1>0. Types /\ Back(w, "command") /\ End(w) /\ row' = Runtime(job[w])
  BY DEF Inv, CommandEnds
<1>1. row' \in [Site -> Row \cup {None}] /\ EndpointsDistinct'
  BY <1>0, RuntimeRow
<1>2. Types' /\ SpentOnce' /\ EventsAreItsOwn'
  BY <1>0, <1>1, EndTypes DEF Inv, Types, CommandEnds, world, history, SpentOnce, EventsAreItsOwn
<1> QED  BY <1>1, <1>2 DEF Inv

\* The poller starts with the rows of one moment ...
LEMMA CycleInv ==
  ASSUME Inv, Cycle
  PROVE  Inv'
<1>1. \A s \in Rows : [site |-> s, host |-> row[s].host] \in [site: Site, host: Host]
  BY DEF Inv, Types, Rows, Row
<1>2. cycle' \in SUBSET [site: Site, host: Host]
  BY <1>1 DEF Cycle
<1>3. Types' /\ SpentOnce' /\ EventsAreItsOwn'
  BY <1>2 DEF Inv, Types, Cycle, world, history, SpentOnce, EventsAreItsOwn
<1> QED  BY <1>3, SameEndpoints DEF Inv, Cycle

LEMMA PollInv ==
  ASSUME Inv, NEW w \in Job, NEW s \in Site, NEW h \in Host, Poll(w, [site |-> s, host |-> h])
  PROVE  Inv'
<1>0. Types
  BY DEF Inv
<1>1. cycle' \in (SUBSET [site: Site, host: Host]) \cup {None}
  BY <1>0 DEF Types, Poll
<1>2. /\ job' \in [Job -> Waiting \cup {Idle}]
      /\ \A v \in Job : job'[v] # Idle => Waits(job'[v])
  <2>1. CASE row[s] # None
    <3>1. row[s].token \in Token
      BY <1>0, <2>1 DEF Types, Row
    <3>2. Ask(w, "poll", s, h, row[s].token, None)
      BY <2>1 DEF Poll
    <3> QED  BY <1>0, <3>1, <3>2, Constants, AskTypes DEF Kinds
  <2>2. CASE row[s] = None
    BY <1>0, <2>2 DEF Poll, Types
  <2> QED  BY <2>1, <2>2
<1>3. Types' /\ SpentOnce' /\ EventsAreItsOwn'
  BY <1>1, <1>2 DEF Inv, Types, Poll, world, history, SpentOnce, EventsAreItsOwn
<1> QED  BY <1>3, SameEndpoints DEF Inv, Poll

\* ... and writes metadata into those that are still there.
LEMMA PollIdentityInv ==
  ASSUME Inv, NEW w \in Job, PollIdentity(w)
  PROVE  Inv'
<1> DEFINE j == job[w]
<1>0. Types /\ Back(w, "poll") /\ row' = Runtime(j)
  BY DEF Inv, PollIdentity
<1>1. row' \in [Site -> Row \cup {None}] /\ EndpointsDistinct'
  BY <1>0, RuntimeRow
<1>2. j.site \in Site /\ j.host \in Host /\ j.token \in Token
  BY <1>0, ServedJob
<1>3. Ask(w, "page", j.site, j.host, j.token, None)
  BY DEF PollIdentity
<1>4. /\ job' \in [Job -> Waiting \cup {Idle}]
      /\ \A v \in Job : job'[v] # Idle => Waits(job'[v])
  <2> HIDE DEF j
  <2> QED  BY <1>0, <1>2, <1>3, Constants, AskTypes DEF Kinds
<1>5. Types' /\ SpentOnce' /\ EventsAreItsOwn'
  BY <1>0, <1>1, <1>4 DEF Inv, Types, PollIdentity, world, history, SpentOnce, EventsAreItsOwn
<1> QED  BY <1>1, <1>5 DEF Inv

\* A page that carries a name is kept under that name.
LEMMA PollPageInv ==
  ASSUME Inv, NEW w \in Job, PollPage(w)
  PROVE  Inv'
<1>1. EventsAreItsOwn'
  <2>1. PICK name \in {job[w].answer.site, None} :
          misfiled' = IF OwnPage(name, job[w].site) /\ job[w].answer.site # job[w].site
                      THEN misfiled \cup {<<job[w].site, name>>} ELSE misfiled
    BY DEF PollPage
  <2>2. OwnPage(name, job[w].site) /\ job[w].answer.site # job[w].site => name = None
    BY DEF OwnPage
  <2>3. ASSUME NEW m \in misfiled'
        PROVE  m \in misfiled \/ m[2] = None
    BY <2>1, <2>2
  <2> QED  BY <2>3 DEF Inv, EventsAreItsOwn
<1>2. Types' /\ SpentOnce'
  BY EndTypes DEF Inv, Types, PollPage, world, SpentOnce
<1> QED  BY <1>1, <1>2, SameEndpoints DEF Inv, PollPage

\* A crash may come between the row of an enrolment and its token: the token
\* stays good, the row was new.
LEMMA CrashInv ==
  ASSUME Inv, Crash
  PROVE  Inv'
<1>1. row' \in [Site -> Row \cup {None}] /\ EndpointsDistinct'
  <2>1. CASE UNCHANGED row
    BY <2>1, SameEndpoints DEF Inv, Types
  <2>2. ASSUME NEW w \in Job, Back(w, "enroll"), New(job[w].answer, job[w].host),
               row' = [row EXCEPT ![job[w].answer.site] = NewRow(job[w])]
        PROVE  row' \in [Site -> Row \cup {None}] /\ EndpointsDistinct'
    <3>1. job[w].host \in Host /\ job[w].token \in Token /\ job[w].answer \in Identity
      BY <2>2, ServedJob DEF Inv
    <3>2. NewRow(job[w]) \in Row /\ job[w].answer.site \in Site
      BY <3>1 DEF NewRow, Row, Identity
    <3>3. \A s \in Rows : row[s].host # NewRow(job[w]).host
      BY <2>2 DEF New, SameEndpoint, NewRow
    <3> QED  BY <2>2, <3>2, <3>3 DEF Inv, Types, EndpointsDistinct, Rows
  <2> QED  BY <2>1, <2>2 DEF Crash
<1>2. /\ job' \in [Job -> Waiting \cup {Idle}]
      /\ \A v \in Job : job'[v] # Idle => Waits(job'[v])
  BY DEF Crash
<1>3. Types' /\ SpentOnce' /\ EventsAreItsOwn'
  BY <1>1, <1>2 DEF Inv, Types, Crash, world, history, SpentOnce, EventsAreItsOwn
<1> QED  BY <1>1, <1>3 DEF Inv

LEMMA NextInv == Inv /\ [Next]_vars => Inv'
<1> SUFFICES ASSUME Inv, [Next]_vars PROVE Inv'
  OBVIOUS
<1>1. ASSUME NEW h \in Host, NEW i \in Identity, Reinstall(h, i) PROVE Inv'
  BY <1>1, ReinstallInv
<1>2. ASSUME NEW w \in Job, Request(w) \/ Serve(w) \/ Fail(w) PROVE Inv'
  BY <1>2, RequestInv, ServeInv, FailInv
<1>3. ASSUME NEW w \in Job, Resume(w) PROVE Inv'
  BY <1>3, EnrollEndsInv, PatchVerifiedInv, PatchEndsInv, CommandEndsInv, PollIdentityInv,
     PollPageInv DEF Resume
<1>4. ASSUME NEW b \in Boot, Issue(b) \/ Expire(b) PROVE Inv'
  <2>1. Types' /\ SpentOnce' /\ EventsAreItsOwn' /\ UNCHANGED row
    BY <1>4 DEF Inv, Types, Issue, Expire, world, history, SpentOnce, EventsAreItsOwn
  <2> QED  BY <2>1, SameEndpoints DEF Inv
<1>5. ASSUME NEW s \in Site, Remove(s) \/ \E n \in Name : Rename(s, n) PROVE Inv'
  BY <1>5, RemoveInv, RenameInv
<1>6. CASE Cycle
  BY <1>6, CycleInv
<1>7. ASSUME NEW w \in Job, NEW s \in Site, NEW h \in Host, Poll(w, [site |-> s, host |-> h])
      PROVE  Inv'
  BY <1>7, PollInv
<1>8. CASE CycleEnds \/ UNCHANGED vars
  <2>1. Types' /\ SpentOnce' /\ EventsAreItsOwn' /\ UNCHANGED row
    BY <1>8 DEF Inv, Types, CycleEnds, vars, world, history, SpentOnce, EventsAreItsOwn
  <2> QED  BY <2>1, SameEndpoints DEF Inv
<1>9. CASE Crash
  BY <1>9, CrashInv
<1> QED  BY <1>1, <1>2, <1>3, <1>4, <1>5, <1>6, <1>7, <1>8, <1>9 DEF Next

THEOREM Invariance == Spec => []Inv
BY InitInv, NextInv, PTL DEF Spec

-----------------------------------------------------------------------------
(* The properties the runs check.                                          *)

\* No two rows have one control address, and no events of a page that names a site
\* are kept under another, whatever enrols, is removed, renamed, reconfigured or
\* reinstalled while others wait (enroll, activateNode, processPage).
THEOREM SitesStayApart == Spec => []SitesAreApart
<1>1. ASSUME Inv PROVE TypeOK
  <2>0. Types
    BY <1>1 DEF Inv
  <2>1. ASSUME NEW w \in Job, job[w] # Idle
        PROVE  /\ job[w].host \in Host /\ job[w].token \in Token
               /\ IF job[w].at = "served"
                  THEN job[w].answer \in Identity /\ job[w].answer.token = job[w].token
                  ELSE job[w].answer = None
               /\ (job[w].site = None) = (job[w].kind = "enroll")
    <3>1. job[w] \in Waiting /\ Waits(job[w])
      BY <2>0, <2>1 DEF Types
    <3> QED  BY <3>1 DEF Waiting, Waits
  <2> QED  BY <2>0, <2>1 DEF Types, TypeOK
<1>2. Inv => SitesAreApart
  BY <1>1 DEF Inv, SitesAreApart
<1> QED  BY <1>2, Invariance, PTL

\* A bootstrap token gets one registration answered, however many enrolments
\* wait with it at a time and wherever a crash falls (consumeBootstrapToken).
THEOREM OneGrant == Spec => []GrantedOnce
<1>1. Inv => GrantedOnce
  BY DEF Inv, Types, GrantedOnce
<1> QED  BY <1>1, Invariance, PTL

\* Rows are written by enrolments under the name the node gave; whatever else
\* was under way when a node was removed does not bring it back.
THEOREM RemovedStaysRemoved == Spec => NoResurrection
<1> DEFINE Back1 == \A s \in Site : row[s] = None /\ row'[s] # None =>
                     \E w \in Job : Back(w, "enroll") /\ job[w].answer.site = s
<1>1. ASSUME Inv, [Next]_vars PROVE Back1
  <2> SUFFICES ASSUME NEW s \in Site, row[s] = None, row'[s] # None
               PROVE  \E w \in Job : Back(w, "enroll") /\ job[w].answer.site = s
    OBVIOUS
  <2>0. Types /\ ~ UNCHANGED row
    BY <1>1 DEF Inv
  <2>1. ASSUME NEW w \in Job, EnrollEnds(w)
        PROVE  Back(w, "enroll") /\ job[w].answer.site = s
    BY <2>0, <2>1 DEF EnrollEnds, Types
  <2>2. ASSUME NEW w \in Job, PatchEnds(w) PROVE FALSE
    BY <2>0, <2>2 DEF PatchEnds, Types
  <2>3. ASSUME NEW w \in Job, CommandEnds(w) \/ PollIdentity(w) PROVE FALSE
    BY <1>1, <2>3, RuntimeRow DEF CommandEnds, PollIdentity
  <2>4. ASSUME NEW t \in Site, Remove(t) \/ \E n \in Name : Rename(t, n) PROVE FALSE
    BY <2>0, <2>4 DEF Remove, Rename, Types
  <2>5. CASE Crash
    BY <2>0, <2>5 DEF Crash, Types
  <2>6. ASSUME NEW w \in Job, Request(w) \/ Serve(w) \/ Fail(w) \/ PatchVerified(w) \/ PollPage(w)
        PROVE  FALSE
    BY <2>0, <2>6 DEF Request, Enroll, Command, Patch, Serve, Fail, PatchVerified, PollPage
  <2>7. ASSUME NEW w \in Job, Resume(w)
        PROVE  \E v \in Job : Back(v, "enroll") /\ job[v].answer.site = s
    BY <2>1, <2>2, <2>3, <2>6, <2>7 DEF Resume
  <2>8. ASSUME \/ \E h \in Host, i \in Identity : Reinstall(h, i)
               \/ \E b \in Boot : Issue(b) \/ Expire(b)
               \/ Cycle \/ CycleEnds \/ UNCHANGED vars
               \/ \E w \in Job, t \in Site, h \in Host : Poll(w, [site |-> t, host |-> h])
        PROVE  FALSE
    BY <2>0, <2>8 DEF Reinstall, Issue, Expire, Cycle, CycleEnds, Poll, vars
  <2> QED  BY <1>1, <2>4, <2>5, <2>6, <2>7, <2>8 DEF Next
<1>2. Inv /\ [Next]_vars => [Back1]_vars
  BY <1>1
<1> HIDE DEF Back1
<1>3. Spec => [][Back1]_vars
  BY <1>2, Invariance, PTL DEF Spec
<1> QED  BY <1>3 DEF NoResurrection, Back1

\* A poll or a command that ends writes metadata into the rows as they are by
\* then: name, address and token stay as the operator left them.
THEOREM OperatorsFieldsAreKept == Spec => OperatorsFieldsStay
<1> DEFINE Ends(w) == (Back(w, "poll") \/ Back(w, "command")) /\ job'[w] # job[w]
           Keeps == \A s \in Rows : row'[s] # None /\ [row'[s] EXCEPT !.conf = row[s].conf] = row[s]
           Step == \A w \in Job : Ends(w) => Keeps
<1>1. ASSUME Inv, [Next]_vars PROVE Step
  <2> SUFFICES ASSUME NEW w \in Job, Ends(w) PROVE Keeps
    OBVIOUS
  <2>0. Types
    BY <1>1 DEF Inv
  <2>1. ASSUME \A s \in Rows : row'[s] = row[s] PROVE Keeps
    <3>1. \A s \in Rows : row[s] \in Row /\ row[s] # None
      BY <2>0 DEF Types, Rows
    <3>2. \A s \in Rows : [row[s] EXCEPT !.conf = row[s].conf] = row[s]
      BY <3>1 DEF Row
    <3> QED  BY <2>1, <3>1, <3>2
  <2>2. ASSUME UNCHANGED row PROVE Keeps
    BY <2>1, <2>2
  <2>3. ASSUME NEW v \in Job, v # w, \/ End(v)
                                     \/ \E k, s, h, t, b : Ask(v, k, s, h, t, b)
        PROVE  FALSE
    BY <2>0, <2>3 DEF End, Ask, Types
  <2>4. ASSUME NEW v \in Job, EnrollEnds(v) \/ PatchEnds(v) PROVE FALSE
    <3>1. v # w
      BY <2>4 DEF EnrollEnds, PatchEnds, Back
    <3> QED  BY <2>3, <2>4, <3>1 DEF EnrollEnds, PatchEnds
  <2>5. ASSUME NEW v \in Job, CommandEnds(v) \/ PollIdentity(v) PROVE Keeps
    BY <1>1, <2>5, RuntimeRow DEF CommandEnds, PollIdentity
  <2>6. ASSUME NEW t \in Site, Remove(t) \/ \E n \in Name : Rename(t, n) PROVE FALSE
    BY <2>6 DEF Remove, Rename
  <2>7. CASE Crash
    <3>1. \A s \in Rows : row'[s] = row[s]
      BY <2>0, <2>7 DEF Crash, Types, Rows, New
    <3> QED  BY <2>1, <3>1
  <2>8. ASSUME NEW v \in Job, Request(v) \/ Serve(v) \/ Fail(v) \/ PatchVerified(v) \/ PollPage(v)
        PROVE  Keeps
    BY <2>2, <2>8 DEF Request, Enroll, Command, Patch, Serve, Fail, PatchVerified, PollPage
  <2>9. ASSUME NEW v \in Job, Resume(v) PROVE Keeps
    BY <2>4, <2>5, <2>8, <2>9 DEF Resume
  <2>10. ASSUME \/ \E h \in Host, i \in Identity : Reinstall(h, i)
                \/ \E b \in Boot : Issue(b) \/ Expire(b)
                \/ Cycle \/ CycleEnds \/ UNCHANGED vars
                \/ \E v \in Job, t \in Site, h \in Host : Poll(v, [site |-> t, host |-> h])
         PROVE  Keeps
    BY <2>2, <2>10 DEF Reinstall, Issue, Expire, Cycle, CycleEnds, Poll, vars
  <2> QED  BY <1>1, <2>6, <2>7, <2>8, <2>9, <2>10 DEF Next
<1>2. Inv /\ [Next]_vars => [Step]_vars
  BY <1>1
<1> HIDE DEF Step
<1>3. Spec => [][Step]_vars
  BY <1>2, Invariance, PTL DEF Spec
<1> QED  BY <1>3 DEF OperatorsFieldsStay, Step
=============================================================================
