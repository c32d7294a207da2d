-------------------------------- MODULE MCParts --------------------------------
(***************************************************************************)
(* The parts that share no state, side by side: every behaviour of this    *)
(* module is a behaviour of one of them, the one named by `part', with the *)
(* others at rest in their initial states.                                 *)
(***************************************************************************)
EXTENDS Channel, Sequences, FiniteSets

CONSTANTS
  None,
  MaxForwarded, Batch, ForwardQueue, ForwardRetries, MaxDenied, \* of Forwarder
  MaxAccepted, BatchSize, HecQueue, HecRetries,      \* of SplunkHec
  Name, Config, Job, Bundle, CtiRetries, CtiQueue,   \* of Integrations
  Client, MaxEmitted,                                \* of NodeRecords
  FlushLines, MaxLines, MaxRecords, MaxFailures,     \* of AppLog
  Site, Worker,                                      \* of PollScheduler
  Version, MaxBuilds, Size,                          \* of Releases
  MaxVersion, Body, MaxSaves,                        \* of TemplateCatalog
  Limit, Window, MaxTime                             \* of RateLimit

VARIABLES
  part,
  phase, queue, batch, attempt, stage, written, sent, dropped, failed,
  saved, rows, denied, late, reply,
  accepted, hecQueue, hecBatch, hecAttempt, hecStage, hecLost, hecSent,
  setting, test, connector, task, ctiQueue,
  had, main, kept, new, doing, at, next, calm,
  emitted, todo, table, memory, activity, lost, refused,
  logged, buffer, file, shed, stopped, running, failures,
  registered, central, polling, timer, cycle, poll, result,
  builds, bundle, manifest, job, installed, approved, current, notice,
  templates, spare, time, served, asked, stored,
  clock, bucket, through, turned

F == INSTANCE Forwarder WITH
       MaxEvents <- MaxForwarded, MaxQueue <- ForwardQueue, MaxRetries <- ForwardRetries
H == INSTANCE SplunkHec WITH
       MaxEvents <- MaxAccepted, MaxQueue <- HecQueue, MaxRetries <- HecRetries,
       queue <- hecQueue, batch <- hecBatch, attempt <- hecAttempt,
       stage <- hecStage, lost <- hecLost, sent <- hecSent
I == INSTANCE Integrations WITH
       Event <- Bundle, MaxRetries <- CtiRetries, MaxQueue <- CtiQueue
M == INSTANCE Migration WITH rows <- kept
R == INSTANCE NodeRecords WITH MaxEvents <- MaxEmitted
L == INSTANCE AppLog
P == INSTANCE PollScheduler WITH
       phase <- central, running <- polling
C == INSTANCE Releases
T == INSTANCE TemplateCatalog WITH
       MaxTime <- MaxSaves, table <- templates, memory <- spare
Q == INSTANCE RateLimit WITH now <- clock

ASSUME PartsAssumption ==
  /\ F!ForwarderAssumption /\ H!SplunkHecAssumption /\ I!IntegrationsAssumption
  /\ R!NodeRecordsAssumption /\ L!AppLogAssumption /\ P!PollSchedulerAssumption
  /\ C!ReleasesAssumption /\ T!TemplateAssumption /\ Q!RateLimitAssumption

fVars == <<phase, queue, batch, attempt, stage, written, sent, dropped,
  failed, saved, rows, denied, late, reply>>
hVars == <<accepted, hecQueue, hecBatch, hecAttempt, hecStage, hecLost,
  hecSent>>
iVars == <<setting, test, connector, task, ctiQueue>>
mVars == <<had, main, kept, new, doing, at, next, calm>>
rVars == <<emitted, todo, table, memory, activity, lost, refused>>
lVars == <<logged, buffer, file, shed, stopped, running, failures>>
pVars == <<registered, central, polling, timer, cycle, poll, result>>

cVars == <<builds, bundle, manifest, job, installed, approved, current, notice>>
tVars == <<templates, spare, time, served, asked, stored>>
qVars == <<clock, bucket, through, turned>>
xVars == <<cVars, tVars, qVars>>

mainVars == <<vars, fVars, hVars, iVars, mVars, rVars, lVars, pVars>>
NotChannel == <<fVars, hVars, iVars, mVars, rVars, lVars, pVars, xVars>>
NotF == <<vars, hVars, iVars, mVars, rVars, lVars, pVars, xVars>>
NotH == <<vars, fVars, iVars, mVars, rVars, lVars, pVars, xVars>>
NotI == <<vars, fVars, hVars, mVars, rVars, lVars, pVars, xVars>>
NotM == <<vars, fVars, hVars, iVars, rVars, lVars, pVars, xVars>>
NotR == <<vars, fVars, hVars, iVars, mVars, lVars, pVars, xVars>>
NotL == <<vars, fVars, hVars, iVars, mVars, rVars, pVars, xVars>>
NotP == <<vars, fVars, hVars, iVars, mVars, rVars, lVars, xVars>>

PartsInit ==
  /\ part \in {"channel", "forwarder", "splunk", "integrations", "migration", "records", "applog", "poller",
            "releases", "templates", "limit"}
  /\ Init /\ F!Init /\ H!Init /\ I!Init /\ M!Init /\ R!Init /\ L!Init /\ P!Init
  /\ C!ReleasesInit /\ T!TemplateInit /\ Q!RateInit
  /\ part # "channel" => drift = 0
  /\ part # "migration" => had = M!T
  /\ part # "poller" => registered = {}
  /\ part # "releases" => current = CHOOSE v \in Version : TRUE
  /\ part # "limit" => turned.client = CHOOSE c \in Client : TRUE

PartsNext ==
  /\ UNCHANGED part
  /\ \/ part = "channel" /\ Next /\ UNCHANGED NotChannel
     \/ part = "forwarder" /\ F!Next /\ UNCHANGED NotF
     \/ part = "splunk" /\ H!Next /\ UNCHANGED NotH
     \/ part = "integrations" /\ I!Next /\ UNCHANGED NotI
     \/ part = "migration" /\ M!Next /\ UNCHANGED NotM
     \/ part = "records" /\ R!Next /\ UNCHANGED NotR
     \/ part = "applog" /\ L!Next /\ UNCHANGED NotL
     \/ part = "poller" /\ P!Next /\ UNCHANGED NotP
     \/ part = "releases" /\ C!ReleasesNext /\ UNCHANGED <<mainVars, tVars, qVars>>
     \/ part = "templates" /\ T!TemplateNext /\ UNCHANGED <<mainVars, cVars, qVars>>
     \/ part = "limit" /\ Q!RateNext /\ UNCHANGED <<mainVars, cVars, tVars>>

partsVars == <<part, mainVars, xVars>>

\* Two parts promise something in the end; at rest, none of their fair steps is
\* enabled.
PartsSpec ==
  /\ PartsInit /\ [][PartsNext]_partsVars
  /\ F!Fairness /\ P!Fairness

-----------------------------------------------------------------------------
(* What the modules state, with their type invariants.  HandledOnce is the *)
(* property of Channel.                                                    *)

\* An event is accounted for on its way out.  Forwarder: what the bus handed over
\* is queued, under way, counted as dropped or acknowledged, one of these, what was
\* acknowledged is in all of Central's tables or was refused there, and events wait
\* with nobody at work only after a failure.  SplunkHec: events never wait without a
\* drain that will come to them, and are sent in their order, none after it was
\* given up.
\* Integrations: a setting marked verified was tested as it stands; a bundle put
\* aside is kept once, until newer ones need the room.
ExportsAccount ==
  /\ F!TypeOK /\ F!NothingVanishes /\ F!SentIsStored /\ F!WaitsOnlyAfterFailure
  /\ H!HecTypeOK /\ H!HecNeverStalls /\ H!HecInOrder
  /\ I!IntegrationsTypeOK /\ I!VerifiedWasTested /\ I!QueuedIsKept

\* The tables agree, in spite of crashes and refusals.  NodeRecords: the feed serves
\* nothing the node has no evidence row of; an event no crash cut short is in its
\* tables or in memory; the activity row of a session is its newest.  Migration:
\* cut short anywhere, it destroys no row, and undisturbed it ends with every row
\* served under the current keys.
RecordsAgree ==
  /\ R!RecordsTypeOK /\ R!ServedIsRecorded /\ R!EveryEventIsKept /\ R!ActivityIsNewest
  /\ M!MigrationTypeOK /\ M!RowsSurvive /\ M!UndisturbedMigrates

\* AppLog: a failing disk costs the oldest records of a full buffer and no others,
\* and a disk that works gets every record once and in order.
LogKeepsOrder == L!LogTypeOK /\ L!LogKeepsOrder

\* PollScheduler: no two workers poll one node at a time, and none polls once the
\* database is closed.
PollsStayApart == P!TypeOK /\ P!OnePollPerNode /\ P!ClosedIsQuiet

\* Releases: however the directory changes under downloads, installers start whole
\* builds, which were listed as stable releases.  TemplateCatalog: a node serves nothing but what was
\* stored as the version it reports, and a version keeps the date it was first
\* stored at.  RateLimit: no window holds more requests of a client than the limit,
\* and those turned away do not prolong it.
CatalogsKeepTheirWord ==
  /\ [](C!ReleasesTypeOK /\ C!InstalledWasApproved)
  /\ [](T!TemplateTypeOK) /\ T!TemplatesKeepTheirOrigin
  /\ [](Q!LimitIsExact)

\* PollScheduler: a node that stays registered is polled again and again.
\* Forwarder, PollScheduler: the stop of a node is not held up for ever by the
\* Central it forwards to, nor the stop of Central by the nodes it polls.
PartsKeepGoing == P!PolledForever /\ F!StopEnds /\ P!StopEnds
=============================================================================
