---------------------------- MODULE SessionEngine ----------------------------
(***************************************************************************)
(* The deception sessions of one node (engine/session.ts) and the request  *)
(* handlers and flush loop that drive them (server/honeypot.ts,            *)
(* server/http.ts, app/bootstrap.ts).                                      *)
(*                                                                         *)
(* A session is the attacker's world: it has a level, the level flags it   *)
(* has closed, a node budget, the codes it has been shown, and flag events *)
(* that wait for the next flush.  Handlers run to completion between two   *)
(* socket events, so a handler is one action; the flush loop writes to     *)
(* SQLite one row at a time and the process may die between two writes.    *)
(*                                                                         *)
(* Left out: what a node or a page contains, request counters, the traffic *)
(* classification and the scores derived from them, logging.               *)
(***************************************************************************)
EXTENDS LevelChecker, Integers, Sequences, FiniteSets

CONSTANTS
  Sid,            \* session ids
  Clients,        \* who sends requests: records [ip, ua] of fingerprint families
  Codes,          \* the codes clients submit
  Paths,          \* the node paths: [gate |-> level that unlocks it, probe |-> BOOLEAN]
  NoIp,           \* the address of a request whose socket has none
  Absent,         \* no session, no row
  MaxNodes,       \* node budget of a session
  MaxBytes,       \* byte budget of a session
  Ttl,            \* idle time after which a session expires
  DwellTime,      \* time after which the dwell flag fires
  Durable,        \* TRUE when the engine is given a storage
  RehydrateLimit, \* how many rows a start reads
  MaxTime,        \* bound: ticks of the clock
  MaxGen,         \* bound: challenge rotations
  MaxCrashes      \* bound: crashes

Ip == {c.ip : c \in Clients} \cup {NoIp}
Ua == {c.ua : c \in Clients}

\* A flag event; level is 0 for the flags that belong to no level.
FlagCode == {"FLAG_LEVEL", "FLAG_WIN", "FLAG_DWELL"}
Flag == [code : FlagCode, level : 0..WinLevel]

DwellFlag == [code |-> "FLAG_DWELL", level |-> 0]
WinFlag == [code |-> "FLAG_WIN", level |-> WinLevel]
LevelFlag(n) == [code |-> "FLAG_LEVEL", level |-> n]

(* SessionState.  `who' and `markedBy' are history: the clients that were  *)
(* let into the session and those whose submissions marked it.             *)
Session ==
  [ ip : Ip, ua : Ua, gen : 0..MaxGen, created : Nat, seen : Nat,
    level : 0..WinLevel, closed : Seq(1..TopLevel), fired : Seq(FlagCode),
    win : BOOLEAN, meta : BOOLEAN, nodes : 0..MaxNodes, bytes : 0..MaxBytes,
    submitted : SUBSET Codes, dwell : BOOLEAN, events : Seq(Flag),
    who : SUBSET Clients, markedBy : SUBSET Clients ]

ASSUME SessionAssumption ==
  /\ IsFiniteSet(Sid)
  /\ Clients \subseteq [ip : Ip, ua : Ua]
  /\ Codes \subseteq Code
  /\ Paths \subseteq [gate : 0..WinLevel, probe : BOOLEAN]
  /\ {MaxNodes, MaxBytes, Ttl, DwellTime, RehydrateLimit, MaxTime, MaxGen, MaxCrashes} \subseteq Nat
  /\ Durable \in BOOLEAN
  /\ Absent \notin Session \cup 0..WinLevel

VARIABLES
  phase,      \* "down", "starting", "up", or "flushing" between the two halves of a flush
  clock,      \* Date.now()
  generation, \* challengeGeneration, kept in storage and in the engine
  sessions,   \* the engine's map: Sid -> Session or Absent
  stored,     \* the rows of the sessions table
  bus,        \* history: the flags the bus got from the present life of an id
  crashes     \* crashes so far

vars == <<phase, clock, generation, sessions, stored, bus, crashes>>

-----------------------------------------------------------------------------
(* Steps of one session.                                                   *)

NewSession(c) ==
  [ ip |-> c.ip, ua |-> c.ua, gen |-> generation, created |-> clock,
    seen |-> clock, level |-> 0, closed |-> <<>>, fired |-> <<>>,
    win |-> FALSE, meta |-> FALSE, nodes |-> 0, bytes |-> 0,
    submitted |-> {}, dwell |-> FALSE, events |-> <<>>,
    who |-> {c}, markedBy |-> {} ]

\* Mutant: only the agent is compared.
SameAgent(s, c) == s.ua = c.ua

\* A missing address is unknown and matches any.
SameFamily(s, c) ==
  /\ s.ua = c.ua
  /\ s.ip = c.ip \/ NoIp \in {s.ip, c.ip}

Resumed(s, c) ==
  [s EXCEPT !.seen = clock,
            !.ip = IF c.ip = NoIp THEN @ ELSE c.ip,
            !.who = @ \cup {c}]

Fire(s, flag) ==
  [s EXCEPT !.fired = Append(@, flag.code), !.events = Append(@, flag)]

CheckDwell(s) ==
  IF s.dwell \/ clock - s.created < DwellTime
  THEN s
  ELSE Fire([s EXCEPT !.dwell = TRUE], DwellFlag)

\* Bytes are counted up to the budget: nothing reads them above it.
AddBytes(s) == [s EXCEPT !.bytes = IF @ < MaxBytes THEN @ + 1 ELSE @]

RecordRequest(s) == CheckDwell(AddBytes(s))

CanAccess(s, path) == s.win \/ s.level >= path.gate

\* Mutant: the enclosure is not checked first.
InBudgetOnly(s) == s.nodes < MaxNodes /\ s.bytes < MaxBytes

\* After the win, or over budget, the node comes from a corridor that costs nothing.
InBudget(s) == ~s.win /\ s.nodes < MaxNodes /\ s.bytes < MaxBytes

ServeNode(s, path) ==
  IF CanAccess(s, path) /\ InBudget(s)
  THEN CheckDwell(AddBytes([s EXCEPT !.nodes = @ + 1]))
  ELSE s

Verdict(s, code) == VerifyFlag(TargetLevel(s.level, code), code, s.level)

\* Mutant: a code that was submitted before is judged again.
AcceptsAgain(s, code) == ~IsMetaProbe(code) /\ Verdict(s, code).accepted

Accepts(s, code) ==
  code \notin s.submitted /\ ~IsMetaProbe(code) /\ Verdict(s, code).accepted

MarksMeta(s, code) ==
  code \notin s.submitted /\ (IsMetaProbe(code) \/ Verdict(s, code).meta)

CloseLevel(s, n) ==
  Fire([s EXCEPT !.level = IF n > @ THEN n ELSE @,
                 !.closed = IF \E i \in DOMAIN @ : @[i] = n THEN @ ELSE Append(@, n)],
       LevelFlag(n))

ReachEnclosure(s) ==
  Fire([s EXCEPT !.win = TRUE, !.level = WinLevel], WinFlag)

SubmitCode(s, code) ==
  LET heard == [s EXCEPT !.submitted = @ \cup {code}]
  IN  IF ~Accepts(s, code) THEN heard
      ELSE IF code.kind = "win" THEN ReachEnclosure(heard)
      ELSE CloseLevel(heard, TargetLevel(s.level, code))

-----------------------------------------------------------------------------
(* The map of sessions.                                                    *)

Live == {id \in Sid : sessions[id] # Absent}

IsForeign(ss, id, c) == ss[id] # Absent /\ ~SameFamily(ss[id], c)

(* getOrCreate: the session of `id' when it is this client's, a new one    *)
(* under `id' when there is none, a new one under `fresh' when the session *)
(* of `id' belongs to another family.                                      *)
Home(ss, id, c, fresh) == IF IsForeign(ss, id, c) THEN fresh ELSE id

Entered(ss, id, c) ==
  IF ss[id] = Absent \/ IsForeign(ss, id, c) THEN NewSession(c)
  ELSE Resumed(ss[id], c)

\* The random ids getOrCreate may draw; irrelevant when it draws none.
FreshIds(id, c) ==
  IF IsForeign(sessions, id, c)
  THEN {f \in Sid : sessions[f] = Absent /\ stored[f] = Absent}
  ELSE {id}

\* markMetaSignal looks the session up by the id of the request.
MarkMetaSignal(ss, id, c) ==
  IF ss[id] = Absent THEN ss
  ELSE [ss EXCEPT ![id].meta = TRUE, ![id].markedBy = @ \cup {c}]

\* The history of an id starts again when a session is created under it.
NoteBirths ==
  bus' = [id \in Sid |-> IF sessions[id] = Absent /\ sessions'[id] # Absent
                         THEN <<>> ELSE bus[id]]

-----------------------------------------------------------------------------
(* Request handlers.                                                       *)

\* POST /api/v1/session: a random id, so no session has it.
PostSession(c, id) ==
  /\ phase = "up"
  /\ sessions[id] = Absent /\ stored[id] = Absent
  /\ sessions' = [sessions EXCEPT ![id] = NewSession(c)]
  /\ NoteBirths
  /\ UNCHANGED <<phase, clock, generation, stored, crashes>>

\* A template page or the OpenAPI document: getOrCreate under a fixed id.
OpenPage(c, id, fresh) ==
  /\ phase = "up"
  /\ sessions' = [sessions EXCEPT ![Home(sessions, id, c, fresh)] = Entered(sessions, id, c)]
  /\ NoteBirths
  /\ UNCHANGED <<phase, clock, generation, stored, crashes>>

(* GET /api/v1/node/:id/:path.  serveNode and recordRequest both call      *)
(* getOrCreate with the id of the request, and the meta probe is looked    *)
(* for in the path.                                                        *)
GetNode(c, id, path, fresh, fresher) ==
  LET s       == Entered(sessions, id, c)
      visited == [sessions EXCEPT ![Home(sessions, id, c, fresh)] = ServeNode(s, path)]
      counted == [visited EXCEPT ![Home(visited, id, c, fresher)] =
                                   RecordRequest(Entered(visited, id, c))]
      probed  == IF path.probe THEN MarkMetaSignal(counted, id, c) ELSE counted
  IN  /\ phase = "up"
      /\ sessions' = IF CanAccess(s, path) THEN probed ELSE visited
      /\ NoteBirths
      /\ UNCHANGED <<phase, clock, generation, stored, crashes>>

\* POST /api/v1/flag.
SubmitFlag(c, id, code, fresh) ==
  LET s      == Entered(sessions, id, c)
      judged == [sessions EXCEPT ![Home(sessions, id, c, fresh)] = SubmitCode(s, code)]
  IN  /\ phase = "up"
      /\ sessions' = IF MarksMeta(s, code) THEN MarkMetaSignal(judged, id, c) ELSE judged
      /\ NoteBirths
      /\ UNCHANGED <<phase, clock, generation, stored, crashes>>

\* POST /api/control/rotate_challenges: only later sessions are born under it.
RotateChallenges ==
  /\ phase = "up" /\ generation < MaxGen
  /\ generation' = generation + 1
  /\ UNCHANGED <<phase, clock, sessions, stored, bus, crashes>>

-----------------------------------------------------------------------------
(* The flush loop, start and crash.                                        *)

Expired(s) == clock - s.seen > Ttl

\* What a row keeps: pending events are not serialised.
Row(s) == [s EXCEPT !.events = <<>>]

\* The bus after the pending flags of the sessions S were handed to it.
Announced(S) ==
  [id \in Sid |-> IF id \in S THEN bus[id] \o sessions[id].events ELSE bus[id]]

\* The table after the sessions S were saved; nothing when there is no storage.
Saved(S) ==
  [id \in Sid |-> IF Durable /\ id \in S THEN Row(sessions[id]) ELSE stored[id]]

\* Mutants: the logs are read and not drained; only the first flush runs.
FlushPeek ==
  /\ phase \in {"starting", "up"}
  /\ phase' = "flushing"
  /\ bus' = Announced(Live)
  /\ UNCHANGED <<sessions, clock, generation, stored, crashes>>

FlushOnce ==
  /\ phase = "starting"
  /\ phase' = "flushing"
  /\ bus' = Announced(Live)
  /\ sessions' = [id \in Sid |-> IF id \in Live THEN Row(sessions[id]) ELSE Absent]
  /\ UNCHANGED <<clock, generation, stored, crashes>>

\* flushAll and emitMany: every pending event log is drained to the bus.
FlushEmit ==
  /\ phase \in {"starting", "up"}
  /\ phase' = "flushing"
  /\ bus' = Announced(Live)
  /\ sessions' = [id \in Sid |-> IF id \in Live THEN Row(sessions[id]) ELSE Absent]
  /\ UNCHANGED <<clock, generation, stored, crashes>>

(* persistSession for every live session, then expireIdle.  The final      *)
(* event of an evicted session is asked for after it left the map, so none *)
(* is made, the id is not reported as evicted and its row stays.           *)
FlushPersist ==
  /\ phase = "flushing"
  /\ phase' = "up"
  /\ stored' = Saved(Live)
  /\ sessions' = [id \in Sid |-> IF id \in Live /\ Expired(sessions[id])
                                 THEN Absent ELSE sessions[id]]
  /\ UNCHANGED <<clock, generation, bus, crashes>>

\* The process dies, perhaps inside a flush that had reached the sessions S.
Crash(S) ==
  /\ phase # "down" /\ crashes < MaxCrashes
  /\ phase' = "down"
  /\ crashes' = crashes + 1
  /\ sessions' = [id \in Sid |-> Absent]
  /\ bus' = IF phase \in {"starting", "up"} THEN Announced(S) ELSE bus
  /\ stored' = IF phase = "flushing" THEN Saved(S) ELSE stored
  /\ UNCHANGED <<clock, generation>>

Rows == {id \in Sid : stored[id] # Absent}

\* listSessions: the newest rows, at most RehydrateLimit, ties in any order.
NewestRows(R) ==
  /\ R \subseteq Rows
  /\ \/ R = Rows
     \/ Cardinality(R) = RehydrateLimit
  /\ Cardinality(R) <= RehydrateLimit
  /\ \A r \in R, q \in Rows \ R : stored[q].created <= stored[r].created

\* Mutant: the submitted codes are not read back.
StartForgetful(R) ==
  /\ phase = "down"
  /\ NewestRows(R)
  /\ phase' = "starting"
  /\ sessions' = [id \in Sid |-> IF Durable /\ id \in R /\ ~Expired(stored[id])
                                 THEN [stored[id] EXCEPT !.submitted = {}] ELSE Absent]
  /\ UNCHANGED <<clock, generation, stored, bus, crashes>>

\* rehydrateFromStorage reads a page of rows, then skips the expired ones.
Start(R) ==
  /\ phase = "down"
  /\ NewestRows(R)
  /\ phase' = "starting"
  /\ sessions' = [id \in Sid |-> IF Durable /\ id \in R /\ ~Expired(stored[id])
                                 THEN stored[id] ELSE Absent]
  /\ UNCHANGED <<clock, generation, stored, bus, crashes>>

Tick ==
  /\ clock < MaxTime
  /\ clock' = clock + 1
  /\ UNCHANGED <<phase, generation, sessions, stored, bus, crashes>>

-----------------------------------------------------------------------------
Init ==
  /\ phase = "down"
  /\ clock = 0
  /\ generation = 0
  /\ sessions = [id \in Sid |-> Absent]
  /\ stored = [id \in Sid |-> Absent]
  /\ bus = [id \in Sid |-> <<>>]
  /\ crashes = 0

Request(c, id) ==
  \/ PostSession(c, id)
  \/ \E f \in FreshIds(id, c) :
       \/ OpenPage(c, id, f)
       \/ \E code \in Codes : SubmitFlag(c, id, code, f)
       \/ \E path \in Paths, g \in FreshIds(id, c) :
            (IsForeign(sessions, id, c) => g # f) /\ GetNode(c, id, path, f, g)

Next ==
  \/ \E c \in Clients, id \in Sid : Request(c, id)
  \/ RotateChallenges
  \/ FlushEmit
  \/ FlushPersist
  \/ \E S \in SUBSET Live : Crash(S)
  \/ \E R \in SUBSET Rows : Start(R)
  \/ Tick

Spec == Init /\ [][Next]_vars

\* setInterval keeps calling flush, and a flush that started runs on.
FairSpec == Spec /\ WF_vars(FlushEmit) /\ WF_vars(FlushPersist)

-----------------------------------------------------------------------------
(* Safety.                                                                 *)

SessionOrAbsent == Session \cup {Absent}

\* Every variable keeps its type; in particular no session exceeds its node
\* budget (the check and the increment of serveNode).
TypeOK ==
  /\ phase \in {"down", "starting", "up", "flushing"}
  /\ clock \in 0..MaxTime
  /\ generation \in 0..MaxGen
  /\ sessions \in [Sid -> SessionOrAbsent]
  /\ stored \in [Sid -> SessionOrAbsent]
  /\ bus \in [Sid -> Seq(Flag)]
  /\ crashes \in 0..MaxCrashes

Bit(b) == IF b THEN 1 ELSE 0

ClosedUpTo(n) == [i \in 1..n |-> i]

OnLadder(s) ==
  /\ s.closed = ClosedUpTo(IF s.level > TopLevel THEN TopLevel ELSE s.level)
  /\ s.win <=> s.level = WinLevel

\* The level of a session stands on every level below it: the closed levels
\* are 1, 2, ..., level in that order, and the enclosure is entered from the
\* top only, whatever codes are submitted in whatever order (submitCode,
\* verifyFlag), also in the rows a restart reads.
LadderContiguous ==
  \A id \in Sid :
    /\ sessions[id] # Absent => OnLadder(sessions[id])
    /\ stored[id] # Absent => OnLadder(stored[id])

\* A level, the win and the dwell are flagged exactly once: submitCode closes
\* the top level again for every code that verifies, so this rests on the
\* memory of submitted codes, which must survive a restart with the session.
FlagsMatchProgress ==
  \A id \in Sid : sessions[id] # Absent =>
    LET s == sessions[id]
    IN  Len(s.fired) = Len(s.closed) + Bit(s.win) + Bit(s.dwell)

OfOneFamily(s) ==
  \A c \in s.who : c.ua = s.ua /\ c.ip \in {s.ip, NoIp}

\* Every client ever let into a session has the agent family of that session,
\* and its address family unless the address was unknown (getOrCreate): two
\* attackers never share a world, also when one of them has no address.
SessionServesOneFamily ==
  \A id \in Sid : sessions[id] # Absent => OfOneFamily(sessions[id])

Codings(flags) == [i \in DOMAIN flags |-> flags[i].code]

\* What a live session has fired is what the bus got from it followed by what
\* waits for the next flush: no flag is lost, repeated or reordered by
\* flushes, requests and evictions (flushAll, drainEvents).  A session read
\* back from a row may repeat flags, so this is for an engine without storage.
FlagsReachBusInOrder ==
  ~Durable => \A id \in Live :
    Codings(bus[id] \o sessions[id].events) = sessions[id].fired

Unexpired == {id \in Rows : ~Expired(stored[id])}

HasFlag(id, flag) == \E i \in DOMAIN bus[id] : bus[id][i] = flag

\* Progress that a restart would bring back has been announced: flush hands
\* the events to the bus before it saves the session that drops them.
RowsAreAnnounced ==
  Cardinality(Sid) <= RehydrateLimit => \A id \in Unexpired :
    /\ \A n \in DOMAIN stored[id].closed : HasFlag(id, LevelFlag(n))
    /\ stored[id].win => HasFlag(id, WinFlag)
    /\ stored[id].dwell => HasFlag(id, DwellFlag)

\* s has at least the progress of r and is the same session.
Extends(s, r) ==
  /\ s.gen = r.gen /\ s.ua = r.ua /\ s.created = r.created
  /\ s.level >= r.level /\ s.nodes >= r.nodes
  /\ r.submitted \subseteq s.submitted
  /\ r.win => s.win
  /\ r.meta => s.meta
  /\ Len(s.fired) >= Len(r.fired)
  /\ SubSeq(s.fired, 1, Len(r.fired)) = r.fired

\* An unexpired row is an earlier state of the session that lives under its
\* id: a restart never resurrects another life of the id, nor runs ahead of it.
RowBehindSession ==
  Cardinality(Sid) <= RehydrateLimit => \A id \in Unexpired \cap Live :
    Extends(sessions[id], stored[id])

\* What storage says of a session was announced and is its past.
RowsFollowSessions == RowsAreAnnounced /\ RowBehindSession

-----------------------------------------------------------------------------
(* Action properties.                                                      *)

\* A session in the enclosure stays there: no node of the main graph is
\* visited and no level is closed any more.
EnclosureFreezesWorld ==
  [][\A id \in Live :
       sessions[id].win /\ sessions'[id] # Absent =>
         /\ sessions'[id].nodes = sessions[id].nodes
         /\ sessions'[id].closed = sessions[id].closed
         /\ sessions'[id].level = sessions[id].level]_vars

-----------------------------------------------------------------------------
(* Refinement and liveness.                                                *)

LevelOf(s) == IF s = Absent THEN Absent ELSE s.level

Progress == INSTANCE Ladder WITH
  Height <- WinLevel,
  Closed <- Absent,
  level  <- [id \in Sid |-> LevelOf(sessions[id])],
  saved  <- [id \in Sid |-> LevelOf(stored[id])]

\* The engine is a ladder: see the Ladder module.
ImplementsLadder == Progress!LadderSpec

\* Every flag a session fires reaches the bus, unless the process dies first.
FlagsAnnounced ==
  \A id \in Sid :
    (phase = "up" /\ sessions[id] # Absent /\ sessions[id].events # <<>>)
      ~> (phase = "down" \/ sessions[id] = Absent \/ sessions[id].events = <<>>)

-----------------------------------------------------------------------------
(* What the documentation says and the code does not do.                   *)

\* src/README.md: an attacker can truly win all levels.  The code of the next
\* level, or the win token at the top, can still be accepted.
NextLevelSolvable ==
  \A id \in Live :
    /\ sessions[id].level < TopLevel =>
         [kind |-> "level", of |-> sessions[id].level + 1] \notin sessions[id].submitted
    /\ sessions[id].level = TopLevel =>
         [kind |-> "win", of |-> 0] \notin sessions[id].submitted

\* session.ts: a foreign fingerprint does not touch the session it names.
MarkedByOwnFamily ==
  \A id \in Live : sessions[id].markedBy \subseteq sessions[id].who

\* ARCHITECTURE.md: the dwell flag is for wandering without closing anything.
DwellMeansNothingClosed ==
  \A id \in Live : \A i, j \in DOMAIN sessions[id].fired :
    sessions[id].fired[i] = "FLAG_DWELL" /\ j < i => sessions[id].fired[j] # "FLAG_LEVEL"

\* bootstrap.ts: a flush prunes expired sessions from memory and storage.
EvictedRowsPruned == phase = "up" => Rows \subseteq Live

\* bootstrap.ts: a flush persists active sessions to durable storage.
FlushPersistsSessions ==
  [][phase = "flushing" /\ phase' = "up" =>
       \A id \in Sid : sessions'[id] # Absent => stored'[id] = sessions'[id]]_vars

\* ARCHITECTURE.md: a foreign fingerprint gets a new session.
OneSessionPerRequest ==
  [][phase = "up" =>
       \A x, y \in Sid \ Live :
         sessions'[x] # Absent /\ sessions'[y] # Absent => x = y]_vars
=============================================================================
