------------------------------- MODULE Registry -------------------------------
(***************************************************************************)
(* Central's inventory of nodes and everything that works on it at the     *)
(* same time (central/node-registry.ts, poller.ts, the node routes of      *)
(* server.ts, app.ts, the node and bootstrap tables of indexer.ts).        *)
(*                                                                         *)
(* A handler or a poll asks a node something and waits; while it waits     *)
(* others enrol, remove, rename and reconfigure, and the node itself may   *)
(* be reinstalled.  What runs between two waits is one step: the calls to  *)
(* SQLite are synchronous.  A job is a handler or the poll of one node: a  *)
(* request under way until the node has served it ("asked"), an answer     *)
(* under way until the job goes on ("served").  Any request or answer may  *)
(* be lost, which the job sees as an error (the client's timeout).         *)
(*                                                                         *)
(* The poller walks over the rows it read when the cycle began.  A row is  *)
(* [host, token, conf, name]: conf stands for the runtime metadata, host   *)
(* for the control address, token for the secret under its seal.           *)
(***************************************************************************)
EXTENDS Integers, FiniteSets

CONSTANTS
  Host, Site, Token, Conf, Name,
  Boot,        \* bootstrap tokens
  Job,         \* bound: what can wait at a time, requests to Central and polls
  MaxChanges,  \* bound: reinstallations
  None

Identity == [site: Site, token: Token, conf: Conf]
Row == [host: Host, token: Token, conf: Conf, name: Name \cup {None}]

ASSUME RegistryAssumption ==
  /\ IsFiniteSet(Job) /\ MaxChanges \in Nat
  /\ None \notin Host \cup Site \cup Token \cup Conf \cup Boot \cup Name \cup Row

VARIABLES
  node,     \* external: host -> [site, token, conf] of the node that runs there
  changes,  \* reinstallations so far
  row,      \* central_nodes: site -> row, or None
  boot,     \* bootstrap_tokens: "none", "live", or "over" (used or expired)
  job,      \* job -> what it is at
  cycle,    \* rows the poll cycle has still to start with, or None
  \* What happened, for the properties:
  granted,  \* boot token -> registrations answered 201
  misfiled  \* <<site, name>>: events of another node were saved under site, from
            \* a page with that name, or None

world == <<node, changes>>
history == <<granted, misfiled>>
vars == <<world, row, boot, job, cycle, history>>

Idle == [at |-> "idle", kind |-> None, site |-> None, host |-> None, token |-> None,
         boot |-> None, answer |-> None]

Rows == {s \in Site : row[s] # None}
Polls == {w \in Job : job[w].kind \in {"poll", "page"}}

\* The job of w asks a node something, or ends.
Ask(w, k, s, h, t, b) ==
  job' = [job EXCEPT ![w] = [at |-> "asked", kind |-> k, site |-> s, host |-> h, token |-> t,
                             boot |-> b, answer |-> None]]
End(w) == job' = [job EXCEPT ![w] = Idle]
Idling(w) == job[w] = Idle
Back(w, k) == job[w].at = "served" /\ job[w].kind = k

-----------------------------------------------------------------------------
(* The nodes.                                                              *)

\* External: a host gets another node, or its node another identity or token.
Reinstall(h, i) ==
  /\ changes < MaxChanges /\ node[h] # i
  /\ node' = [node EXCEPT ![h] = i]
  /\ changes' = changes + 1
  /\ UNCHANGED <<row, boot, job, cycle, history>>

\* The node serves a request that opens under its token; a command is carried
\* out before it is answered.
Serve(w) ==
  LET j == job[w] n == node[j.host] IN
  /\ j.at = "asked" /\ n.token = j.token
  /\ \E c \in IF j.kind = "command" THEN Conf ELSE {n.conf} :
       /\ node' = [node EXCEPT ![j.host].conf = c]
       /\ job' = [job EXCEPT ![w].at = "served", ![w].answer = node'[j.host]]
  /\ UNCHANGED <<changes, row, boot, cycle, history>>

\* The token does not fit, or request or answer is lost: fetchIdentity,
\* fetchEvents and fetchCommand turn a timeout, a refused connection and an
\* envelope that does not open into an error (toError), and every job ends
\* with it, a handler with 422, 409 or 502, a poll with its result.
Fail(w) ==
  /\ ~ Idling(w)
  /\ End(w)
  /\ UNCHANGED <<world, row, boot, cycle, history>>

-----------------------------------------------------------------------------
(* Enrolment.                                                              *)

\* POST /api/v1/bootstrap/tokens: issueBootstrapToken.
Issue(b) ==
  /\ boot[b] = "none"
  /\ boot' = [boot EXCEPT ![b] = "live"]
  /\ UNCHANGED <<world, row, job, cycle, history>>

\* expires_at_ms passes.
Expire(b) ==
  /\ boot[b] = "live"
  /\ boot' = [boot EXCEPT ![b] = "over"]
  /\ UNCHANGED <<world, row, job, cycle, history>>

\* POST /api/v1/nodes, and POST /api/v1/bootstrap/register with a token that
\* verifyBootstrapToken accepts: enroll asks the node who it is.
Enroll(w, h, t, b) ==
  /\ Idling(w)
  /\ b # None => boot[b] = "live"
  /\ Ask(w, "enroll", None, h, t, b)
  /\ UNCHANGED <<world, row, boot, cycle, history>>

SameEndpoint(h) == {s \in Rows : row[s].host = h}

NewRow(j) == [host |-> j.host, token |-> j.token, conf |-> j.answer.conf, name |-> None]

\* enroll after previewIdentity: neither the site nor the endpoint is known.
New(i, h) == row[i.site] = None /\ SameEndpoint(h) = {}

\* Mutant: what was verified before the wait is not asked again.
ConsumesAgain(b) == boot[b] # "none"

\* consumeBootstrapToken: one UPDATE, of a token neither used nor expired.
Consumes(b) == boot[b] = "live"

\* What follows saveCentralNode in the registration: the token is spent, or
\* the answer is 409 and the row stays.
Spend(b) ==
  IF b # None /\ Consumes(b)
  THEN /\ boot' = [boot EXCEPT ![b] = "over"]
       /\ granted' = [granted EXCEPT ![b] = @ + 1]
  ELSE UNCHANGED <<boot, granted>>

\* The answer is there.  A crash between saving the row and spending the token
\* is part of Crash.
EnrollEnds(w) ==
  LET j == job[w] i == j.answer IN
  /\ Back(w, "enroll")
  /\ End(w)
  /\ IF New(i, j.host)
     THEN /\ row' = [row EXCEPT ![i.site] = NewRow(j)]
          /\ Spend(j.boot)
     ELSE UNCHANGED <<row, boot, granted>>
  /\ UNCHANGED <<world, cycle, misfiled>>

-----------------------------------------------------------------------------
(* The rows.                                                               *)

\* POST /api/v1/nodes/:site/metadata: one UPDATE.
Rename(s, n) ==
  /\ row[s] # None
  /\ row' = [row EXCEPT ![s].name = n]
  /\ UNCHANGED <<world, boot, job, cycle, history>>

\* DELETE /api/v1/nodes/:site.  Nobody who works on the node is told.
Remove(s) ==
  /\ row[s] # None
  /\ row' = [row EXCEPT ![s] = None]
  /\ UNCHANGED <<world, boot, job, cycle, history>>

\* PATCH /api/v1/nodes/:site with a token: verifySettings ...
Patch(w, s, t) ==
  /\ Idling(w) /\ row[s] # None
  /\ Ask(w, "verify", s, row[s].host, t, None)
  /\ UNCHANGED <<world, row, boot, cycle, history>>

\* ... which activateNode does once more before it writes ...
PatchVerified(w) ==
  LET j == job[w] IN
  /\ Back(w, "verify")
  /\ IF row[j.site] # None
     THEN Ask(w, "activate", j.site, row[j.site].host, j.token, None)
     ELSE End(w)
  /\ UNCHANGED <<world, row, boot, cycle, history>>

\* ... into the row as it is by then, if it is still there.
PatchEnds(w) ==
  LET j == job[w] IN
  /\ Back(w, "activate")
  /\ End(w)
  /\ row' = IF row[j.site] # None
            THEN [row EXCEPT ![j.site].token = j.token, ![j.site].conf = j.answer.conf]
            ELSE row
  /\ UNCHANGED <<world, boot, cycle, history>>

\* Mutant: the record that was read before the wait is written back.
Upsert(j) == [row EXCEPT ![j.site] = [host |-> j.host, token |-> j.token, conf |-> j.answer.conf,
                                     name |-> None]]

\* Mutant: the same, unless the row is gone.
Rewrite(j) == IF row[j.site] = None THEN row
              ELSE [row EXCEPT ![j.site].host = j.host, ![j.site].token = j.token,
                               ![j.site].conf = j.answer.conf]

\* updateNodeRuntime: reads the row and writes it back with the new metadata.
Runtime(j) == IF row[j.site] = None THEN row ELSE [row EXCEPT ![j.site].conf = j.answer.conf]

\* POST /api/v1/nodes/:site/commands/configure_honeypot or apply_template.  The
\* address and token are read before the body; its wait is part of "asked".
Command(w, s) ==
  /\ Idling(w) /\ row[s] # None
  /\ Ask(w, "command", s, row[s].host, row[s].token, None)
  /\ UNCHANGED <<world, row, boot, cycle, history>>

CommandEnds(w) ==
  /\ Back(w, "command")
  /\ End(w)
  /\ row' = Runtime(job[w])
  /\ UNCHANGED <<world, boot, cycle, history>>

-----------------------------------------------------------------------------
(* The poller.                                                             *)

\* runCycleBody: over the rows of this moment, one cycle at a time
\* (PollScheduler says when).
Cycle ==
  /\ cycle = None
  /\ cycle' = {[site |-> s, host |-> row[s].host] : s \in Rows}
  /\ UNCHANGED <<world, row, boot, job, history>>

\* pollNode: the address is the cycle's, the token is read now.  A node that
\* is no longer there has none, and that is its result.
Poll(w, r) ==
  /\ cycle # None /\ r \in cycle /\ Idling(w)
  /\ cycle' = cycle \ {r}
  /\ IF row[r.site] # None
     THEN Ask(w, "poll", r.site, r.host, row[r.site].token, None)
     ELSE UNCHANGED job
  /\ UNCHANGED <<world, row, boot, history>>

\* The identity has come: the metadata is updated and a page is asked for.
PollIdentity(w) ==
  LET j == job[w] IN
  /\ Back(w, "poll")
  /\ row' = Runtime(j)
  /\ Ask(w, "page", j.site, j.host, j.token, None)
  /\ UNCHANGED <<world, boot, cycle, history>>

\* Mutant: the page is taken for the node's that was asked for.
OwnPageAny(name, s) == TRUE

\* processPage refuses a page that carries another name than that of the site
\* asked for; one without a name is taken.
OwnPage(name, s) == name \in {s, None}

\* The page is there.  The nodes of this repository name themselves in every
\* page and refuse to be asked for another's; Central relies on neither.
PollPage(w) ==
  LET j == job[w] IN
  /\ Back(w, "page")
  /\ End(w)
  /\ \E name \in {j.answer.site, None} :
       misfiled' = IF OwnPage(name, j.site) /\ j.answer.site # j.site
                   THEN misfiled \cup {<<j.site, name>>} ELSE misfiled
  /\ UNCHANGED <<world, row, boot, cycle, granted>>

\* Every worker has run out of nodes.
CycleEnds ==
  /\ cycle = {} /\ Polls = {}
  /\ cycle' = None
  /\ UNCHANGED <<world, row, boot, job, history>>

-----------------------------------------------------------------------------
\* The process dies, or is started again: the rows and tokens are in the
\* database.  It can die between saveCentralNode and consumeBootstrapToken.
Crash ==
  /\ job' = [w \in Job |-> Idle]
  /\ cycle' = None
  /\ \/ UNCHANGED row
     \/ \E w \in Job : /\ Back(w, "enroll") /\ New(job[w].answer, job[w].host)
                          /\ row' = [row EXCEPT ![job[w].answer.site] = NewRow(job[w])]
  /\ UNCHANGED <<world, boot, history>>

Init ==
  /\ node \in {n \in [Host -> Identity] : \A g, h \in Host : g # h => n[g].site # n[h].site}
  /\ changes = 0
  /\ row = [s \in Site |-> None]
  /\ boot = [b \in Boot |-> "none"]
  /\ job = [w \in Job |-> Idle]
  /\ cycle = None
  /\ granted = [b \in Boot |-> 0] /\ misfiled = {}

\* The operators know the tokens of their nodes: another one ends in Fail.
Request(w) ==
  \/ \E h \in Host, b \in Boot \cup {None} : Enroll(w, h, node[h].token, b)
  \/ \E s \in Rows : Command(w, s) \/ \E t \in Token \ {row[s].token} : Patch(w, s, t)

\* A job goes on.
Resume(w) ==
  \/ EnrollEnds(w) \/ PatchVerified(w) \/ PatchEnds(w) \/ CommandEnds(w)
  \/ PollIdentity(w) \/ PollPage(w)

Next ==
  \/ \E h \in Host, i \in Identity : Reinstall(h, i)
  \/ \E w \in Job : Request(w) \/ Serve(w) \/ Fail(w) \/ Resume(w)
  \/ \E b \in Boot : Issue(b) \/ Expire(b)
  \/ \E s \in Site : Remove(s) \/ \E n \in Name : Rename(s, n)
  \/ Cycle \/ (\E w \in Job, s \in Site, h \in Host : Poll(w, [site |-> s, host |-> h])) \/ CycleEnds
  \/ Crash

Spec == Init /\ [][Next]_vars

-----------------------------------------------------------------------------
(* Correctness.                                                            *)

TypeOK ==
  /\ node \in [Host -> Identity] /\ changes \in 0..MaxChanges
  /\ row \in [Site -> Row \cup {None}]
  /\ boot \in [Boot -> {"none", "live", "over"}]
  /\ \A w \in Job : job[w] # Idle =>
       /\ job[w].host \in Host /\ job[w].token \in Token
       /\ IF job[w].at = "served" THEN job[w].answer \in Identity /\ job[w].answer.token = job[w].token
          ELSE job[w].answer = None
       /\ (job[w].site = None) = (job[w].kind = "enroll")
  /\ cycle # None => cycle \subseteq [site: Site, host: Host]

\* No two nodes of the inventory have one control address, however many
\* enrolments wait for one address at a time (enroll looks when the answer is
\* there, not before it asks).
EndpointsDistinct == \A s, t \in Rows : row[s].host = row[t].host => s = t

\* A node that was removed comes back by an enrolment in which it gave its
\* name, and by nothing else that was under way: a poll, a command or a change
\* of its token that ends after the removal does not write it back.
NoResurrection ==
  [][\A s \in Site : row[s] = None /\ row'[s] # None =>
       \E w \in Job : Back(w, "enroll") /\ job[w].answer.site = s]_vars

\* What the operator entered is not undone by a poll or a command that began
\* before: they end by writing metadata, and leave name, address and token as
\* they are by then.
OperatorsFieldsStay ==
  [][\A w \in Job : (Back(w, "poll") \/ Back(w, "command")) /\ job'[w] # job[w] =>
       \A s \in Rows : row'[s] # None /\ [row'[s] EXCEPT !.conf = row[s].conf] = row[s]]_vars

\* A bootstrap token gets one registration answered with 201.
GrantedOnce == \A b \in Boot : granted[b] <= 1

\* Events are kept under the site they came from, though the node behind an
\* address may be another one by the time the page is served; only a page without
\* a name can be kept under another's (processPage).
EventsAreItsOwn == \A m \in misfiled : m[2] = None

\* The inventory as its readers take it, with the types: one row for a control
\* address, and under a site no events of a page that names another.
SitesAreApart == TypeOK /\ EndpointsDistinct /\ EventsAreItsOwn
=============================================================================
