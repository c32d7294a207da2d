# A verification development for VAIVAR

VAIVAR is a deception system. A **node** shows an attacker (usually an agent) a
generated world of ten levels behind public HTTP, wiki, OpenAPI and MCP skins;
**Central** enrols nodes, commands them, polls their events and exports them.
This directory holds TLA+ modules translated from the code, TLC configurations
that check them on small instances, and TLAPS proofs of the properties that
matter most for every value of the constants. Paths are relative to the
repository (`src/engine/session.ts` is the engine; the map in `PROJECT.json`
names the lines of every definition).

## 1. The system

### 1.1 Components, their state and their operations

| component | code | state | operations | correct when |
|---|---|---|---|---|
| Session engine | `engine/session.ts`, `levels/checker.ts`, `engine/flags.ts` | map of sessions (level, closed levels, fired flags, budgets, submitted codes, pending events), challenge generation | `getOrCreate`, `serveNode`, `recordRequest`, `submitCode`, `observeMetaProbe`, `markMetaSignal`, `flushAll`, `persistSession`, `expireIdle`, `rehydrateFromStorage` | levels close in order and are flagged once, a session serves one client family, nothing is lost between session, bus and table |
| World generator | `graph/generator.ts`, `engine/world-plan.ts`, `engine/derivation.ts`, `hash/stable.ts` | none: a pure function of seed and path | `generateNode`, `challengeFor`, `canAccessPath` | a level's code can be found exactly when the level is open, and every level can be won |
| Event feed and collection | `storage/indexer.ts`, `server/http.ts`, `central/poller.ts`, `central/node-client.ts`, `central/ingest.ts` | node: `events`, `event_envelopes`; Central: `poll_cursors`, `central_events`, `events` | `saveEvent`, `getEventPage`, `pollNode`, `processPage`, `persistEvent`, `savePollCursor` | every event is collected, nothing behind the cursor is missing |
| Command journal and public surface | `storage/indexer.ts`, `server/http.ts`, `server/honeypot.ts`, `app/bootstrap.ts` | `command_journal`, `honeypot_config`, generation; the public socket, active surface, identity | `executeCommand`, `configure`, `configureHoneypot`, `applyHoneypotTemplate`, restart, rotate, `start` | a rotation rotates once, an answered command is final; what is told, stored, served and bound is one surface |
| Honeypot listener | `server/honeypot.ts` | rate buckets, template | public routes, `isRateLimited` | the limit is exact in every window |
| Control channel | `security/control-channel.ts`, `server/http.ts` | replay cache | seal, open, `handleSecureRpc` | no message is accepted twice; clocks may differ by five minutes |
| Central forwarder | `central/forwarder.ts`, ingest of `central/server.ts` | queue, batch under way | write, drain, post, retry, give up, flush | every event is accounted for; what was acknowledged is stored or was refused by Central's database; a stop ends |
| Poll scheduler | `central/poller.ts` | current cycle, timer, results | `start`, `stop`, `runCycle` | one poll per node at a time; stop stops |
| Node registry, bootstrap tokens | `central/node-registry.ts`, `central/server.ts` | nodes and their secrets, single-use tokens | enrol, verify, activate, remove | a token enrols one node; a removed node is not polled |
| Splunk export | `central/splunk-hec.ts` | queue, batch, counters | accept, drain, retry, shed | events in order, none after it was given up, none forgotten in the queue |
| Integrations, OpenCTI connector | `central/server.ts`, `central/app.ts`, `cti/connector.ts` | settings; queue of bundles put aside | save, delete, enable, test; send, put aside | "verified" means tested as it stands; a bundle is kept once |
| Console defence | `central/console-defense.ts` | ban table | record, isBanned | a ban holds until it ends, the table is bounded |
| Accounts and sign-in | `central/account-auth.ts`, `central/rbac.ts`, `central/oidc.ts` | sessions, OIDC states | log in, callback, check | a state is used once, a role allows what its table says |
| Event bus, node tables | `events/bus.ts`, `logging/sinks.ts`, `logging/eventlog.ts`, `storage/indexer.ts` | sinks; events, envelopes, flags, activity rows, memory lists | emit, write, refuse | tables agree after crashes and refusals; the activity row is the newest |
| Application log | `logging/applog.ts` | buffer, file | log, flush, shutdown | lines stay in order, a failing disk costs the oldest of a full buffer |
| Storage schema | `storage/indexer.ts` | legacy and current tables | init, migrate, create | no row is lost, wherever it is cut short |
| Programs | `app/main.ts`, `central/app.ts`, `central/server.ts` | wiring | start, stop | orderly start and stop |
| Releases | `central/releases.ts`, `central/update-check.ts`, `scripts/*` | a directory of manifests and bundles | publish, list, download, check | only whole bundles of approved builds are installed |
| Template catalogue | `storage/indexer.ts`, `central/server.ts` | table and memory of templates | save, find, apply | a node serves what was stored as the version it names |
| Console page | `central/ui.ts` | view, address, buttons; requests under way; drawer; form | routes, refresh, drawer, enrol | the page shows one thing: what its address, heading or test says |
| Secrets, URLs, skins, MCP bait, dashboard, scoring, classification | `security/url-validation.ts`, `skins/*`, `mcp/*`, `server/dashboard.ts`, `scoring/*`, `classifier/*`, ... | none or one cache | pure functions and rendering | input/output properties |

### 1.2 How they interact

Requests on the public port reach the session engine through the honeypot
listener. The engine keeps everything in memory; every 30 s `flush` (and the
restart) drains its events to the bus, whose sinks write the node's tables, and
then saves the sessions. Central reads the event table through `GET
/api/events` with a cursor of its own, and commands the node through
`/api/commands` and `/api/control/*`, both inside the encrypted channel.
A node may also push its events to Central's ingest through the forwarder.
Central keeps an inventory of nodes that handlers, polls and commands work on at
the same time, each waiting for a node in between; the console page talks to
Central's routes and to nothing else. Within a process components call each other
directly; the only shared state is the database and the engine.

### 1.3 Concurrency and failure

A node and Central are one JavaScript thread each. `better-sqlite3` is
synchronous, and an `await` on something already resolved only yields to the
microtask queue, so the code between two real waits (socket, timer, request
body) is one uninterrupted stretch. Three grains follow, and the modules use
them:

- a handler without a real wait is one action;
- a handler that waits (a poll waiting for a reply, a configuration waiting for
  a socket) is one action per stretch, and others run in between;
- a crash may fall between two database writes of one stretch, so where writes
  are ordered each is a step and only a crash can come between them.

The page in a browser is a thread of its own with the same grain: a handler runs
at once up to its request, and answers come back in any order.

The hard behaviours, with the line where each bites, are the `hazards` of
`PROJECT.json`. The main ones: the flush announces, then saves, and may die in
between; session ids expire and are used again; a client without an address
matches any family; a page and its cursor are separate writes; a sequence is a
wall-clock time; the journal is read before a command waits and written after;
a public port may be refused twice; whoever
waits for a node comes back to an inventory that others have changed; a batch
whose answer is lost is posted again; a migration is cut short; two answers to the
page overtake each other.

## 2. What is modelled

| module | what it is |
|---|---|
| `LevelChecker` | codes and the verdict on them, as operators |
| `Ladder` | abstract: a session climbs one level at a time, ends, recovers where it was saved |
| `SessionEngine` | the engine, the handlers that drive it, flush, crash, start; implements `Ladder` |
| `SessionEngineProofs` | its theorems, that it implements `Ladder`, and the theorems of `Warren` |
| `MCSession` | its instances |
| `Warren`, `MCWarren` | `SessionEngine` composed with what the generator discloses and a player who knows only what was shown |
| `Collection` | abstract: what was fed is fetched, only fetched events are settled |
| `EventFeed` | the feed of a node and the poll of Central; implements `Collection` |
| `EventFeedProofs`, `MCFeed` | its theorems and instances |
| `NodeControl`, `MCControl` | commands, journal, the listener that moves, rotation, restart and start |
| `NodeControlProofs` | its theorems |
| `Registry`, `MCRegistry` | the inventory of nodes: enrolments, bootstrap tokens, changes of token, commands, metadata, removal, polls, all waiting at once |
| `RegistryProofs` | its theorems |
| `PollScheduler` | cycles, workers, the interval, start and stop of Central |
| `SignIn` | sign-in with the provider, token login, cookies, roles, requests that wait for a body |
| `SignInProofs` | its theorems |
| `ConsoleDefense` | bans, escalation, the bounded table, the timer that reports |
| `ConsoleDefenseProofs` | its theorems |
| `MCGate` | `SignIn` and `ConsoleDefense` side by side, the second with three addresses |
| `Channel` | sealed messages, two clocks, the cache against replays |
| `Forwarder` | the push of events, with retries, and Central's ingest with its crashes |
| `SplunkHec`, `Integrations` | the two exports and the settings of the second |
| `NodeRecords` | bus, sinks and tables of a node |
| `Migration` | the opening of a database of an earlier version |
| `AppLog` | the buffer and the file of the log |
| `Releases`, `TemplateCatalog`, `RateLimit` | the catalogue of releases, that of templates, the limit of the public listener |
| `ConsoleRoutes`, `ConsoleRefresh`, `ConsoleDrawer`, `ConsoleEnroll` | the console page, in four parts that share no state |
| `MCPages`, `MCParts` | modules that share no state, side by side: `page` or `part` says which one moves |
| `PartsProofs` | the theorems of the parts: channel, scheduler, log, exports, node tables, migration, releases, templates, rate limit |
| `PagesProofs` | the theorems of the page's four parts |

### 2.1 SessionEngine

`sessions` is the engine's map and `stored` the `sessions` table; a session is
`SessionState` without texts and counters that nothing reads. `PostSession`,
`OpenPage`, `GetNode` and `SubmitFlag` are the public routes; each includes
every `getOrCreate` its handler makes, so a foreign fingerprint creates the
sessions it creates in the code (two for a node request). `FlushEmit` and
`FlushPersist` are the two halves of `flush`; `Crash(S)` dies after the sessions
`S` of the half it is in; `Start` reads the newest rows and skips the expired
ones afterwards, as `rehydrateFromStorage` does. `Durable` says whether the
engine was given a storage: the deployed node gives it none
(`app/bootstrap.ts:148`), the tests and the class allow it, so both are checked.

Submitted strings are abstracted to what they are for this session: the flag of
a level, its bare hash, the win token, the decoy, a probe, anything else. This
rests on different derivations of a seed being different hashes.

### 2.2 Warren

A place is a depth and the level that opens it; any mechanic may sit anywhere,
since a hash of seed and path decides. `Shown` is `challengeFor`: the clues of a
node by mechanic, depth and variant. The player collects clues and submits what
it can write down.

### 2.3 EventFeed

An event is the number of its hash. `at` is `event_envelopes`: the millisecond
of the save, so that `Before` is the order of the text `"<ms>_<hash>"`; the clock
may be set back. `Ask`, `Page`, `SaveRow`, `Ingest` and `SaveCursor` are one
poll, write by write; `Lose` and `Crash` end it early. Saves at the node
interleave with all of them. `persistEvent` throws for the `Malformed` events:
`saveError` then makes `SaveCursor` write the old cursor again. Any write may be
refused by the database, which Central does not notice. Two histories name what
the code lets go: `late`, the events saved in a millisecond that a page had
reached, and `refused`.

### 2.4 NodeControl

A delivery of a command is an entry of `calls` that moves through the waits of
`configure` (`closing`, `opening`, `restoring`) and the writes of
`configureHoneypot` and `executeCommand` (`saving`, `journaling`, `bumping`).
While a call has writes ahead of it (`Busy`) no other request runs. The net
module is external and modelled by what the code relies on: closing takes the
socket down at once and calls back when the last connection is gone, waking
every caller; one port is bound and "listening" wakes every caller. Commands
overtake each other wherever the code waits. The history `crossed` says that
since the start a surface was asked for while the listener was on its way to
another, `cut` holds the rotations that a crash fell into. `SurfaceCommands` and
`OverlapCommands` of `MCControl` are the commands.

### 2.5 Registry and PollScheduler

A *job* is a handler or the poll of one node. It asks the node something and
waits ("asked", then "served"), while others enrol, remove, rename and
reconfigure, and the node itself may be reinstalled; any request or answer may be
lost. What runs between two waits is one step. `Runtime` is
`updateRuntimeMetadata`, which reads the row again after the wait, and which a
poll calls with what any node at the address says of itself; `OwnPage` takes a
page that names the site asked for or none. `Consumes` is the spending of a
bootstrap token, a write of its own. `PollScheduler` has the
cycles around such polls: one list, a few workers, an interval that is set after
the first cycle, and a stop that waits for what is under way.

### 2.6 SignIn and ConsoleDefense

Time is kept as ages and remaining times, capped one past the last one that
matters, so behaviours are not cut short. The provider is external and trusted
with little: a code and a nonce belong to the sign-in at which a user
authenticated. A login of `ConsoleDefense` waits for its body between the check of
the ban and the record of its outcome; all else a request does there is one step.

### 2.7 Exports

`Forwarder` is one life of the queue: `Write`, `Posted`, `Retry`, `GiveUp`,
`BackoffEnds` on the node's side; `Handle` is the ingest with its two writes per
event at Central's, any of which the database may refuse (`denied`) while the
batch is gone through and acknowledged; `LateRequest` is one that Central handles
after its sender gave up.
`SplunkHec` is driven by `accept` as its tests drive it, since no part of the
deployed Central feeds it. `Integrations` has the settings' routes, the test that
writes the whole record back, and the connectors made at the start.

### 2.8 Tables, log, migration

`NodeRecords` runs the statements of a flush in the order in which the sinks reach
them, each its own transaction: a crash ends the list, a refusal keeps the row
in memory. `Migration` rebuilds table after table, statement by statement.
`AppLog` counts lines. `Releases` lists what the code lists: a manifest beside a
file of the size it says, whatever is in that file.

### 2.9 The console page

`ConsoleRoutes` relates view, address and buttons; `View` is the state of the page,
`Params` what `setTab` writes of it, `Lists` what its lists go by. An address is a
path, what stands behind its `#`, and parameters; going back may lead to any.
`ConsoleRefresh` has rounds of requests
that overlap. In `ConsoleDrawer` and `ConsoleEnroll` an answer is applied to
whatever the drawer or the form is by the time it comes, as in the code; an
address may name a node by its path or behind a `#`, and closing leaves the first
kind only.

## 3. What is checked

Every passing property has a mutant in `PROJECT.json`: an edited definition, the
way a plausible bug would edit it, under which TLC finds the property violated.

| run | question | bounds |
|---|---|---|
| `session_ladder` | levels in order, flagged once, nothing of the world after the win, every flag reaches the bus in order, `Ladder` implemented | one session, three levels, every kind of code (one bare hash stands for all: it never verifies), an open and a gated path, one node, two ticks, one rotation, one crash; fairness |
| `session_restart` | one family per session; rows neither ahead of the bus nor of the live session | two ids with storage, three clients (two families, and one without an address that matches any), expiry after one tick, one crash |
| `warren_walk` | the code of level 6 needs level 5; no play passes level 7 | one player, the ten levels, twenty nodes |
| `feed_poll` | behind the cursor only late and refused events are missing, all else that is not behind a malformed one is collected, `Collection` implemented | three events, one malformed, pages of two, three values of a clock that may be set back, two faults (lost replies, refused writes, crashes); fairness |
| `control_surface` | one surface unless moves crossed; one generation | five commands, two deliveries at once, two faults |
| `control_overlap` | stored surface can be started; a rotation exactly once unless a crash cuts it; an answered command never again; a restart completes | five commands, two deliveries at once, one fault; fairness |
| `console_defense` | a burst is bounded; a ban is reported while it lasts; nobody is locked out for good | two addresses, a table of one, limits of two, a window of two ticks; fairness of time |
| `console_gate` | one session per state and of who signed in; a role acts for a bounded time after it was taken away; no ban is forgotten while there is room | two browsers, flows and users, lives of one tick; three addresses, a table of two |
| `registry` | one row per address, pages under the site they name, one grant per token, no node comes back, no edit is undone | two hosts, sites, tokens and jobs, one bootstrap token, one reinstallation |
| `parts` | see below | eleven modules side by side, each at the bounds `MCParts` gives it |
| `console_pages` | the address shows tab and lists again; rises are announced; heading and panels agree until a late save; the page catches up; the form adds what it tested | two rounds, two nodes, two places, two changes of Central, addresses with and without a `#` |
| `control_twice` | a finding | two deliveries |

`parts` asks of `Channel` that no life of a receiver handles a message twice
(`HandledOnce`), of the exports that every event is accounted for
(`ExportsAccount`), of the tables and the migration that they agree and lose
nothing (`RecordsAgree`), of the log its order (`LogKeepsOrder`), of the scheduler
that a node is polled by one worker at a time and not after the database is
closed (`PollsStayApart`), of releases, templates and the rate limit what
`CatalogsKeepTheirWord` says, and that polls go on and stops end
(`PartsKeepGoing`). Side by side is the union of the behaviours: a module moves
alone while the others rest in an initial state, so the run is as good as one for
each.

**Why the bounds are enough.** Sessions do not interact but through the id a request
names, so two ids and the fresh ones a foreign client draws show every interaction
of the map. Three levels have a bottom, a middle and a top, which is all the verdict
distinguishes; `Warren` uses the ten of the code. Two families pass a session on if
any chain of clients does, and a client without an address comes between them,
before and after a restart. Three events in pages of two make a full page, a short
one, two events in one millisecond, one that arrives in between and one that blocks
its page. Two deliveries and three ports make every overlap of two configurations. A
single crash can fall at every step, and what it leaves is read by the next start.
In `Warren` only the flush that starts the node is taken: later ones drain events,
which no walk reads. Symmetry on session ids, deliveries, or hosts, sites, tokens
and jobs is used in runs of safety properties only. Two jobs and two sites show
every pair of waits over one row and over two. A table of one address evicts at
every second one, which is where counters and reports could be lost; with three
addresses and a table of two a ban is given while there is room and while there is
none, and who is forgotten need not be who was banned. Queues of two or three events
with batches of two reach their limit while a batch is out, and a receiver's window
of two ticks with a drift of three puts the sender on either side of it. On the page
two rounds are enough for one answer to overtake another, two calls and two nodes
for a drawer that changes hands, and one name behind a `#` for an address that says
two things.

**Fairness.** `SessionEngine`: weak fairness of the two halves of a flush, which
`setInterval` starts again and nothing can stop. `EventFeed`: weak fairness of
asking (the poll interval) and of each step of a page in hand; a reply may be lost,
but only finitely often in an instance. `NodeControl`: weak fairness of the socket's
answers (Node's request timeouts end the last connection), of a call's own steps,
and of start (the supervisor); none of arriving commands. `ConsoleDefense`: time
passes and the timer fires. `Forwarder`: a post, a pause and the stop's flush end
(`fetch` has its own timeouts). `PollScheduler`: a worker takes its next node, a
poll ends because the client gives up on a silent node, cycle, interval and stop go
on. `ConsoleRefresh`: the interval ticks and answers are taken; strong fairness of
Central's answering, for a request may be lost, but a Central that is asked again
and again answers. `Warren`: strong fairness of a perfect player's walks and tries,
an assumption about the player, used to show that even that player does not win.

### 3.1 Findings

The run `control_twice` has a property that says what the repository says, and
TLC violates it: `executeCommand` looks the command up, waits for the handler and
only then stores the outcome, so a second delivery of the same command in that
time executes too; `storage/indexer.ts:1602` says "a command with the same
command_id will not execute twice."

Further divergences met while modelling. Those with a cfg can be run by hand: put
the property in place of those the cfg lists (and drop its symmetry), and TLC shows
the behaviour as a counterexample. The cfgs that no run uses are there for this.

| cfg, property | the code | what the repository says |
|---|---|---|
| `SessionLadder`, `NextLevelSolvable` | a code submitted too early is refused for ever, its level cannot be closed any more (`engine/session.ts:490`) | `src/README.md:56`, "solvable local bosses" |
| `WarrenWalk` with `PerfectSpec`, `PerfectPlayerWins` | levels 8 and 9 cannot be closed by any play, so no session is won (`graph/generator.ts:250`) | `src/README.md:14`, "ten levels it can truly win" |
| `FeedDisk`, `NoRefusalIsPassed` | a write that Central's database refuses is passed by the cursor (`central/poller.ts:192`) | `central/poller.ts:202` |
| `ControlSurface`, `SuccessIsServed` | after a refused port and a failed restore, configurations succeed without a listener (`server/honeypot.ts:294`) | `server/honeypot.ts:302` |
| `SessionForeignProbe`, `MarkedByOwnFamily` | a decoy sent by a foreign client marks the session whose id it names (`engine/session.ts:492`) | `docs/ARCHITECTURE.md:136`, what an id binds |
| the same with three ids, `OneSessionPerRequest` | a foreign node request creates two sessions (`server/honeypot.ts:200`) | `docs/ARCHITECTURE.md:137` |
| `SessionLadder`, `FlushPersistsSessions` | the deployed node gives its engine no storage (`app/bootstrap.ts:148`) | `app/bootstrap.ts:221` |
| `SessionLadder`, `DwellMeansNothingClosed` | the dwell flag fires for sessions that closed levels (`engine/session.ts:364`) | `docs/ARCHITECTURE.md:174` |
| `SessionRestart`, `EvictedRowsPruned` | rows of expired sessions stay in the table | `engine/session.ts:766`, `app/bootstrap.ts:225` |
| `FeedClock`, `NothingIsLate` | an event saved in the millisecond of a page may sort before its cursor (`storage/indexer.ts:630`) | `storage/indexer.ts:1390` |
| `ControlSurface`, `RecordedIsDone` | a crash after the journal write loses the rotation (`server/http.ts:393`) | `server/http.ts:311` |
| the same with `NotedCommands` | a rotation sent to `/api/commands` is journaled and not done (`storage/indexer.ts:1669`) | `server/http.ts:311` |
| `ControlCrossed`, `SurfaceAlwaysAgrees` | overlapping configurations leave socket, variables, row and identity apart (`server/honeypot.ts:295`) | `app/bootstrap.ts:365` |
| `Forwarder!StoredOnce` | each posting of an event gets a random id in `central_events`, so an event whose answer was lost is there twice | `central/forwarder.ts:131`, "deterministic event ids" |
| `Forwarder!QueueBounded` | the queue is bounded after a failure only, not while a batch is posted | `central/forwarder.ts:40` |
| `AppLog!ShutdownFlushes` | `shutdown` marks the log stopped before it flushes, so its buffer is lost | `logging/applog.ts:142` |
| `Migration!MigratedOrMemory` | a statement that fails leaves a database in use with a table missing or empty | `storage/indexer.ts:264` |
| `TemplateCatalog!VersionIsImmutable` | a version saved again is written over (`ON CONFLICT DO UPDATE`) | `storage/indexer.ts:1063`, "one immutable version" |
| `Releases!NewerIsAnnounced` | the newest release is taken by date: after a back-port a higher version is not announced | `central/update-check.ts:21` |

Seen in the code, without a cfg: `saveEvent` never stores the session of an
event, so `getEvents` of a session finds none in the database (`tests/core.test.ts:501`
expects one); the rows of `attacker_activity` are keyed by eight characters of the
session, so the flags of a session share a row; the Splunk sink and the connector's
`flush` have no caller (`docs/ARCHITECTURE.md:271` describes both); the test of an
integration may bring a deleted setting back; with OIDC all legacy tokens are
accepted, not the break-glass token alone (`central/server.ts:440`); clearing the
sign-in cookies joins them in one header; two registrations that wait with one
bootstrap token both enrol, though one is answered with 201; after `close` a late
call opens the database again; an event that cannot be projected keeps its page and
all behind it from being collected, for ever (`central/poller.ts:204`); the ingest
acknowledges events whose rows the database refused, which are not sent again
(`central/server.ts:340`, `central/ingest.ts:29`); a version rebuilt to the same size
is offered while manifest and bundle are of different builds, though no installer
will start it (`central/releases.ts:112`); the section of the settings is read from
the address and not shown (`central/ui.ts:3077`); an address that names a node behind
its `#` stays when the drawer closes (`central/ui.ts:3949`); the feed of the overview
goes by a filter and a search that its address does not hold (`central/ui.ts:3409`,
`ConsoleRoutes!OverviewShowsTheSame`); a name behind the `#` outlives the tab it stood
for (`central/ui.ts:3017`, `ConsoleRoutes!ReloadKeepsTheTab`); the answer to a saving
retitles the panels of whatever node the drawer shows by then (`central/ui.ts:3752`,
`ConsoleDrawer!PanelsUnderOwnHeading`). The three properties named here are false and
in no run.

## 4. What is proved

All theorems hold for every value of the constants that satisfies the `ASSUME`s
of the modules.

**`SessionEngineProofs`**: `TypeCorrect`, `LadderIsContiguous`,
`FlagsAreFiredOnce`, `OneFamilyPerSession`, `EnclosureIsFrozen`, `FlagsStayInOrder`,
`RowsStayBehind`, `LadderImplemented`, and of `Warren` `WalkIsASession` and
`LevelsStayWithheld`. Neither the ladder nor the flags are
inductive by themselves: when a session stands at the top, the guess of the
target level is capped, so the flag of the top level verifies again, and only
the memory of submitted codes keeps it from closing and firing twice. The
inductive invariant is therefore that map and table hold *good* sessions only:
typed, on the ladder, of one family, flagged once, and **remembering** the code of
every level they closed and of the win. Each step of one session
(`NewSession`, `Resumed`, `CheckDwell`, `AddBytes`, `ServeNode`, `SubmitCode`) has a
lemma that it keeps a good session good; handlers, flush, crash and start are
maps of such steps. The same steps make a session *later* (`Later`): it only adds
levels, flags and events at the end. From that follow the three theorems about a
session and what is said of it elsewhere: `Story` is an invariant of the map, the
bus and the table together. What the bus has is the beginning of what was fired;
between the two halves of a flush no event waits; and an unexpired row was told and
is behind the session that lives under its id. That a start reads every
row (`RehydrateLimit`) is needed for the last part only.

`LadderImplemented`: from one map of sessions to the other,
`Levels` says that no session ends and none climbs; serving, counting and marking
compose it, also when a stranger's node request creates two sessions (which is
where the two ids it draws must differ). A submission adds one level to the one
session it is judged for. The mark of no session must be no level, which
`SessionAssumption` says. The last two theorems are about `Warren`, and the only ones
to assume its constants (`WarrenAssumption` is their hypothesis): `WalkIsASession` shows
every walk to be a behaviour of the engine, so all of the above holds of a player,
and `LevelsStayWithheld` that it never learns a code of level 6 below level 5 and
never passes level 7. `Findable` is what the world can ever show, whatever
mechanic sits where: the codes of 4, 8 and 9 are not in it (level 4 is opened by
two halves together). A gate of 5 is on the path to each clue of 6.

**`EventFeedProofs`**: `TypeCorrect`, `CursorAdvances`, `NothingIsSkipped` and
`CollectionImplemented`, for any clock and any disk. `Follows` says that a page in
hand ends at the cursor or behind it, `Gathered` that what the next cursor passes
is done with or in hand, unless a row could not be projected, in which case the
next cursor is not used. `Done` is what was fetched, came late or was refused. The
step that feeds events is the one where the clock matters: an event saved
behind a cursor has a millisecond that this cursor's page had reached
(`SavedBehindIsLate`), and that is what `late` records. `CollectionImplemented` maps
feeding, the second write of a row and saving the cursor to the three steps of
`Collection`; all other steps stutter.

**`NodeControlProofs`**: `TypeCorrect`, `AlwaysStartable`, `AnsweredIsFinal`,
`OneRotationPerCommand`, `GenerationAgrees` and `OneSurface`, for any number of
deliveries in progress at once. `InProgress` says what a call has on its way and
`Sockets` which waits can coincide: a call closes an open socket only, and opens
one only while none is open. `Journaled` relates calls to the journal: a rotation
has only writes ahead of it, so it runs alone between the look-up and its entry,
and `Counted` follows: the generation is the number of rotations in the journal
but for the one still to be done and those that a crash cut short. `OneSurface`
says of the listener at rest that the copies of its surface agree, unless two moves
crossed since the start (`ControlCrossed.cfg` shows why that has to be said).
`Settled` follows the surfaces through the one call that moves, while others
come, fail and end around it: the variables of the listener run ahead, row and
identity follow together, a refused port puts the variables back. Once moves
crossed, nothing is claimed until a start, which serves what is stored (`Surfaces`).

**`ConsoleDefenseProofs`**: `TypeCorrect`, `BurstsStayBounded`, `BansAreKept`,
`NoBanEndsUnreported`. Whoever
is banned is in the table, where the timer sees it, and a ban that was not
reported lasts longer than the timer's next round (`TimerInTime`): a new ban is
longer than the period, which `DefenseAssumption` takes from the constants of
the code. Only an insertion into a full table forgets a ban, and a full table stays
full, so a ban cut short tells of a full table ever after. The history
`failures` counts, for each age, the logins that failed no longer ago than that, so
that a sum over a window is one of its values. `Counts` relates it to the counter of
the code: what failed since the counter's window began is in the counter, what
failed before that is less than a limit's worth, and of a window that has elapsed
nothing is new. Hence two windows and not one in the bound of
`BurstBeforeBan`: a burst may lie across the end of a window.

**`RegistryProofs`**: `SitesStayApart`, `OneGrant`, `RemovedStaysRemoved`,
`OperatorsFieldsAreKept`. `Waits` says what a job knows while it waits: an enrolment
has no site yet, all others one, and an answer carries the token it was asked with.
The name of a page taken is the site asked for or missing. What a job writes it
decides on the rows of the step that writes, an enrolment by looking for the address
again; the token of an answered registration is spent (`SpentOnce`) in the step that
answers.

**`SignInProofs`**: `SignInsStaySeparate`, `RoleStaysRecent`. A state is in one place:
not begun, in the store, at one callback, or used up (`States`); so what a callback
issues is the only session of its state (`Issued`), of the user whose code it
exchanged. The age of a role is carried along: an answer was right when it was
given (`Current`, `Fresh`), the cookie adds a session's life, the request the time
of its body.

**`PartsProofs`**: `MessagesAreHandledOnce`, `PollsStayApartAlways`,
`LogKeepsItsOrder`, `ExportsAlwaysAccount`, `RecordsAlwaysAgree`,
`CatalogsAlwaysKeepTheirWord`. A step of `MCParts` is a step of one part, so each
invariant is proved of the part's own `Next` and carried over. `Channel`: what the
prune drops was received longer ago than Keep, so its stamp is past Skew by then,
because Keep is twice Skew and a stamp is at most Skew ahead. `PollScheduler`: a
cycle's list names a node once and a worker takes its head; no worker has a node
between cycles. `AppLog`: the buffer is the end of what was logged, and whatever
lies before it is in the file or was shed (`LogGood`). `Forwarder`: a written event
is sent, dropped, in the queue or in the batch, and one of these (`Accounted`). What
was acknowledged was gone through to its end, so that each write of it was made or
refused (`PersistKeeps`, `AnswerIsTrue`), and nothing takes a row back
(`StoredStays`). `SplunkHec`: sent, batch and queue lie one behind the other, and
what is in none of them is lost (`HecOrder`). `Integrations`: a bundle is in the
queue of a connector exactly while its task says so, and a queue that shed is full.
`NodeRecords`: `InOrder` says what may stand in the list of statements still to be
run (an event has its envelope right behind it, the activity of a later event comes
later), and `KeptSoFar` and `NewestSoFar` that a row is there or its statement is
still to come; the flush of one request emits one event or two, and what
`FlattenSeq` makes of one or two lists is shown from its definition. `Migration`: as
long as nothing went wrong, the tables before the one under way are served or
missing, those after it as they were found, and the one under way is as the
statement that comes next needs it (`Undisturbed`); whatever went wrong, the
statement that drops a table comes after its copy. `Releases`: what the catalogue
offers is approved in the step that makes it an offer, and a download carries the
sum of an offer, so what is started was approved, whatever is in the directory by
then, and though the list itself compares sizes only. `TemplateCatalog`: every row,
the command on its way and what is served were stored as the version they name
(`Originals`, `Original`); a row written over takes the date of the table's own row.
`RateLimit`: a bucket has every request of the present window and what is kept of it
is that window (`KeptIsInside`); a request let through adds to the windows that end
now or later, and no time passes inside a step, so a window that is past stays as it
was. The newest release and the newest version exist because less than on the
naturals is well-founded (`GreatestExists`). The lemmas about taking the first n of
a sequence and joining two are proved there once.

**`PagesProofs`**: `ReloadAlwaysKeepsTheView`, `RisesAreAlwaysAnnounced`,
`DrawerAlwaysAgrees`, `EnrollActsAlwaysOnItsForm`, for any loaders, nodes, filters,
places and secrets, and any number of rounds and calls; as in `PartsProofs`, each of
the part's own `Next`. Routes: what `setTab` writes of a view is what its tab shows
and is not as on a fresh page (`GivenParams`), and a fresh page reads exactly that
back (`RouteReads`), so it is enough that the address, but for what stands behind
its `#`, is the view's whenever `setTab` was the last to write it. Refreshing: the
first answer is remembered in the step that shows the first flags (`RefreshInv`).
The drawer: heading and panels change hands in the same steps, and the late answer
of a save is the one thing that parts them; `saved` names the node it then belongs
to. A path that names a node has the drawer open or about to open. The form: a
preview carries the age of its test, so what the add button sends was tested at most
that long ago (`EnrollInv`).

**Only model-checked.** The liveness properties: `FlagsAnnounced`,
`EverythingCollected`, `RestartCompletes`, `AdmittedAgain`, `PartsKeepGoing` and
`PageCatchesUp`. Fairness and `ENABLED` are out of the prover's reach. Every invariant
and every action property of the passing runs is a theorem.

## 5. Plan

The model is as wide as planned, and what can be proved of its properties is. What
would come next is more of the code: the projections of a polled row at Central and
the search overlay of the console page.

## 6. What is not modelled

Rendering (skins, templates, texts, charts, the node's dashboard), cryptography
beyond "a sealed message opens with its key only" and unforgeable signatures, the
content of events, scores and classifications, configuration and address
parsing. Central's deletion of rows older than its retention (90 days unless set), on a
timer of six hours: it is larger than every span the modules count, and a poll's
cursor is a number that outlives the rows. The projections of a polled row at
Central. On the console page the settings of users and integrations, the search
overlay, theme and language. What a node shows is modelled by its clues only.
A storage whose database never opened, and so keeps all in memory, is `Migration`'s
end state and not carried further.

Running: `tlc -config SessionLadder.cfg MCSession` (each run of `PROJECT.json` names
its module and cfg; the cfgs of section 3.1 whose names begin with Session, Feed or
Control belong to `MCSession`, `MCFeed` and `MCControl`); `tlapm
SessionEngineProofs.tla`, and the same for the other modules of proofs.
