---------------------------- MODULE ConsoleDefense ----------------------------
(***************************************************************************)
(* The console's defence against its own visitors (console-defense.ts) and *)
(* the requests of Central's server that feed it (central/server.ts).      *)
(*                                                                         *)
(* Every address is tracked by three counters, each with a window that     *)
(* starts over when it has elapsed: failed logins, requests without a      *)
(* session, distinct unknown paths.  A counter that reaches its limit bans *)
(* the address, longer at each offence.  The table of addresses is bounded *)
(* by forgetting the one tracked first.  A timer copies what is tracked to *)
(* attacker_activity.                                                      *)
(*                                                                         *)
(* A login waits for its body between the check of the ban and the record  *)
(* of its outcome: other requests run in between.  Everything else a       *)
(* request does here is one step.                                          *)
(*                                                                         *)
(* Time is kept as ages and remaining times, so no behaviour is cut short; *)
(* an age one past the window stands for every older one.                  *)
(***************************************************************************)
EXTENDS Integers, Sequences, FiniteSets, SequencesExt, FiniteSetsExt

CONSTANTS
  Ip,           \* addresses
  Path,         \* unknown paths
  LoginLimit,   \* loginLimit
  ProbeLimit,   \* apiProbeLimit
  ScanLimit,    \* scanPathLimit
  Window,       \* the three windows, of one length
  BanBase,      \* banBaseMs
  BanCeiling,   \* banCeilingMs
  MaxTracked,   \* maxTrackedIps
  DrainPeriod,  \* CONSOLE_DEFENSE_DRAIN_INTERVAL_MS
  MaxOffences,  \* bound: offences counted exactly
  MaxInFlight   \* bound: logins of an address waiting for their body

ASSUME DefenseAssumption ==
  /\ IsFiniteSet(Ip)
  /\ {LoginLimit, ProbeLimit, ScanLimit, Window, BanBase, MaxTracked,
      DrainPeriod, MaxOffences, MaxInFlight} \subseteq Nat \ {0}
  /\ BanCeiling \in Nat /\ BanBase <= BanCeiling
  /\ DrainPeriod < BanBase                       \* 15 s and 60 s
  /\ BanCeiling <= BanBase * 2^(MaxOffences - 1) \* later offences ban alike

VARIABLES
  tracked,   \* states: the addresses in the order they were inserted
  login,     \* loginFailures and the age of loginWindowStart
  probe,     \* apiProbeFailures and the age of apiProbeWindowStart
  scan,      \* scannedPaths and the age of scanWindowStart
  ban,       \* the time left until banUntil
  offences,  \* offenseCount
  inFlight,  \* logins past the check of the ban, waiting for their body
  drainIn,   \* time left until the timer of drainConsoleAttackers
  \* What happened, for the properties:
  failures,  \* by number of ticks: failed logins no older than that, since the last
             \* ban, success or eviction
  reported,  \* the current ban was written to attacker_activity
  promised   \* the time left of the last ban, forgotten by nothing but a restart

table == <<tracked, login, probe, scan, ban, offences>>
history == <<failures, reported, promised>>
vars == <<table, inFlight, drainIn, history>>

Stale == Window + 1
Clean == [count |-> 0, age |-> Stale]
NoPaths == [paths |-> {}, age |-> Stale]
NoFailures == [a \in 0..Window |-> 0]
Tracked(ip) == \E i \in DOMAIN tracked : tracked[i] = ip
Banned(ip) == ban[ip] > 0

\* banDurationMs: twice as long for each offence, up to the ceiling.
BanDuration(n) == Min({BanBase * 2^Min({n - 1, 12}), BanCeiling})

\* Mutant: the window is emptied but does not start over.
SlideNoStart(c) == IF c.age > Window THEN [c EXCEPT !.count = 0] ELSE c

\* slideWindow, for a counter: an elapsed window starts over now.
Slide(c) == IF c.age > Window THEN [count |-> 0, age |-> 0] ELSE c

SlidePaths(s) == IF s.age > Window THEN [paths |-> {}, age |-> 0] ELSE s

-----------------------------------------------------------------------------
(* stateFor: an address not yet tracked is inserted, and the address       *)
(* tracked first is forgotten when the table is full.                      *)

Forget(f, ips, empty) == [x \in Ip |-> IF x \in ips THEN empty ELSE f[x]]

\* Mutant: one place of the table stays empty.
EvictedEarly(ip) ==
  IF ~Tracked(ip) /\ Len(tracked) >= MaxTracked - 1 THEN {Head(tracked)} ELSE {}

Evicted(ip) ==
  IF ~Tracked(ip) /\ Len(tracked) >= MaxTracked THEN {Head(tracked)} ELSE {}

Insert(ip) ==
  LET room == IF Evicted(ip) = {} THEN tracked ELSE Tail(tracked)
  IN  IF Tracked(ip) THEN tracked ELSE Append(room, ip)

\* What a record does to the table, which makes room for ip: its counters
\* become l, p and s, and with banned it is one more offence and a ban.
Record(ip, l, p, s, banned) ==
  LET out == Evicted(ip)
      n   == Min({offences[ip] + 1, MaxOffences})
      d   == Max({ban[ip], BanDuration(n)})
  IN  /\ tracked' = Insert(ip)
      /\ login' = [Forget(login, out, Clean) EXCEPT ![ip] = l]
      /\ probe' = [Forget(probe, out, Clean) EXCEPT ![ip] = p]
      /\ scan' = [Forget(scan, out, NoPaths) EXCEPT ![ip] = s]
      /\ ban' = [Forget(ban, out, 0) EXCEPT ![ip] = IF banned THEN d ELSE @]
      /\ offences' = [Forget(offences, out, 0) EXCEPT ![ip] = IF banned THEN n ELSE @]
      /\ reported' = [reported EXCEPT ![ip] = @ /\ ~banned]
      /\ promised' = [promised EXCEPT ![ip] = IF banned THEN d ELSE @]

Consumed(c, limit) == IF c.count >= limit THEN [c EXCEPT !.count = 0] ELSE c
Counted(c) == LET w == Slide(c) IN [w EXCEPT !.count = @ + 1]

-----------------------------------------------------------------------------
(* Requests.  A banned address gets 429 and changes nothing.               *)

\* Mutant: the ban is not looked at.
LoginArrivesAlways(ip) ==
  /\ inFlight[ip] < MaxInFlight
  /\ inFlight' = [inFlight EXCEPT ![ip] = @ + 1]
  /\ UNCHANGED <<table, drainIn, history>>

\* POST /api/v1/login passes the check and waits for its body.
LoginArrives(ip) ==
  /\ ~Banned(ip) /\ inFlight[ip] < MaxInFlight
  /\ inFlight' = [inFlight EXCEPT ![ip] = @ + 1]
  /\ UNCHANGED <<table, drainIn, history>>

\* One more failure, just now.
OneMore(f) == [a \in 0..Window |-> f[a] + 1]

\* Its token is wrong: recordLoginFailure.
LoginFails(ip) ==
  LET c   == Counted(login[ip])
      hit == c.count >= LoginLimit
      out == Evicted(ip)
  IN  /\ inFlight[ip] > 0
      /\ inFlight' = [inFlight EXCEPT ![ip] = @ - 1]
      /\ Record(ip, Consumed(c, LoginLimit), probe[ip], scan[ip], hit)
      /\ failures' = [Forget(failures, out, NoFailures) EXCEPT
                        ![ip] = IF hit THEN NoFailures ELSE OneMore(failures[ip])]
      /\ UNCHANGED drainIn

\* Its token is right: recordLoginSuccess, for a tracked address only.
LoginSucceeds(ip) ==
  /\ inFlight[ip] > 0
  /\ inFlight' = [inFlight EXCEPT ![ip] = @ - 1]
  /\ login' = [login EXCEPT ![ip] = IF Tracked(ip) THEN [count |-> 0, age |-> 0] ELSE @]
  /\ failures' = [failures EXCEPT ![ip] = NoFailures]
  /\ UNCHANGED <<tracked, probe, scan, ban, offences, drainIn, reported, promised>>

\* Its body is not JSON, or the connection is lost: nothing is recorded.
LoginMalformed(ip) ==
  /\ inFlight[ip] > 0
  /\ inFlight' = [inFlight EXCEPT ![ip] = @ - 1]
  /\ UNCHANGED <<table, drainIn, history>>

\* A request without a session on a gated route: 401, recordApiProbeFailure.
Probe(ip) ==
  LET c == Counted(probe[ip])
  IN  /\ ~Banned(ip)
      /\ Record(ip, login[ip], Consumed(c, ProbeLimit), scan[ip], c.count >= ProbeLimit)
      /\ failures' = Forget(failures, Evicted(ip), NoFailures)
      /\ UNCHANGED <<inFlight, drainIn>>

\* A signed-in request for an unknown path: 404, recordScanPath.
Scan(ip, path) ==
  LET s   == SlidePaths(scan[ip])
      ps  == s.paths \cup {path}
      hit == Cardinality(ps) >= ScanLimit
  IN  /\ ~Banned(ip)
      /\ Record(ip, login[ip], probe[ip], [s EXCEPT !.paths = IF hit THEN {} ELSE ps], hit)
      /\ failures' = Forget(failures, Evicted(ip), NoFailures)
      /\ UNCHANGED <<inFlight, drainIn>>

-----------------------------------------------------------------------------
(* Time, the timer, and the process.                                       *)

Older(c) == [c EXCEPT !.age = Min({@ + 1, Stale})]
Less(n) == Max({n - 1, 0})

\* A unit of time passes; the timer is never late.
Tick ==
  /\ drainIn > 0
  /\ drainIn' = drainIn - 1
  /\ login' = [x \in Ip |-> Older(login[x])]
  /\ probe' = [x \in Ip |-> Older(probe[x])]
  /\ scan' = [x \in Ip |-> Older(scan[x])]
  /\ ban' = [x \in Ip |-> Less(ban[x])]
  /\ promised' = [x \in Ip |-> Less(promised[x])]
  /\ failures' = [x \in Ip |-> [a \in 0..Window |-> IF a = 0 THEN 0 ELSE failures[x][a - 1]]]
  /\ UNCHANGED <<tracked, offences, inFlight, reported>>

\* Mutant: a banned address whose counters are empty is skipped.
NoticedByCount(ip) ==
  /\ Tracked(ip)
  /\ login[ip].count > 0 \/ probe[ip].count > 0 \/ scan[ip].paths # {}

\* What drainConsoleAttackers writes: whoever has a count or is banned.
Noticed(ip) ==
  /\ Tracked(ip)
  /\ login[ip].count > 0 \/ probe[ip].count > 0 \/ scan[ip].paths # {} \/ Banned(ip)

Drain ==
  /\ drainIn = 0
  /\ drainIn' = DrainPeriod
  /\ reported' = [x \in Ip |-> reported[x] \/ (Noticed(x) /\ Banned(x))]
  /\ UNCHANGED <<table, inFlight, failures, promised>>

\* createCentralServer and listen.
Init ==
  /\ tracked = <<>> /\ drainIn = DrainPeriod
  /\ login = [x \in Ip |-> Clean] /\ probe = [x \in Ip |-> Clean]
  /\ scan = [x \in Ip |-> NoPaths]
  /\ ban = [x \in Ip |-> 0] /\ offences = [x \in Ip |-> 0]
  /\ inFlight = [x \in Ip |-> 0]
  /\ failures = [x \in Ip |-> NoFailures]
  /\ reported = [x \in Ip |-> TRUE] /\ promised = [x \in Ip |-> 0]

\* close drains once more, a crash does not; the next start finds nothing.
Restart ==
  /\ tracked' = <<>> /\ drainIn' = DrainPeriod
  /\ login' = [x \in Ip |-> Clean] /\ probe' = [x \in Ip |-> Clean]
  /\ scan' = [x \in Ip |-> NoPaths]
  /\ ban' = [x \in Ip |-> 0] /\ offences' = [x \in Ip |-> 0]
  /\ inFlight' = [x \in Ip |-> 0]
  /\ failures' = [x \in Ip |-> NoFailures]
  /\ reported' = [x \in Ip |-> TRUE] /\ promised' = [x \in Ip |-> 0]

Request(ip) ==
  \/ LoginArrives(ip) \/ LoginFails(ip) \/ LoginSucceeds(ip) \/ LoginMalformed(ip)
  \/ Probe(ip)
  \/ \E path \in Path : Scan(ip, path)

Next == (\E ip \in Ip : Request(ip)) \/ Tick \/ Drain \/ Restart

Spec == Init /\ [][Next]_vars

\* Time passes and timers fire; nobody has to make a request.
FairSpec == Spec /\ WF_vars(Tick) /\ WF_vars(Drain)

-----------------------------------------------------------------------------
(* Properties.                                                             *)

Counter(limit) == [count : 0..(limit - 1), age : 0..Stale]

\* The table of addresses is bounded and lists each once; no counter stays at
\* its limit.
TypeOK ==
  /\ tracked \in Seq(Ip) /\ Len(tracked) <= MaxTracked /\ IsInjective(tracked)
  /\ login \in [Ip -> Counter(LoginLimit)]
  /\ probe \in [Ip -> Counter(ProbeLimit)]
  /\ scan \in [Ip -> [paths : SUBSET Path, age : 0..Stale]]
  /\ \A x \in Ip : Cardinality(scan[x].paths) < ScanLimit
  /\ ban \in [Ip -> 0..BanCeiling] /\ promised \in [Ip -> 0..BanCeiling]
  /\ offences \in [Ip -> 0..MaxOffences]
  /\ inFlight \in [Ip -> 0..MaxInFlight]
  /\ drainIn \in 0..DrainPeriod
  /\ failures \in [Ip -> [0..Window -> Nat]]
  /\ reported \in [Ip -> BOOLEAN]

\* With the types: a window starts over instead of sliding, so a stretch of the length of a
\* window overlaps at most two of them: that many failures go without a ban,
\* and no more, however logins, bans and other requests interleave.
BurstBeforeBan ==
  /\ TypeOK
  /\ \A ip \in Ip : failures[ip][Window] <= 2 * (LoginLimit - 1)

\* A ban is in force until it ends, unless the table filled up and forgot it.
BanForgottenOnlyWhenFull ==
  \A ip \in Ip : promised[ip] # ban[ip] => Len(tracked) = MaxTracked

\* A ban that runs out was written to attacker_activity while it lasted: the
\* timer comes round within the shortest ban, even though the counters that
\* brought the ban about are empty by then.
EndedBansWereReported ==
  [][\A ip \in Ip : (Tick /\ Banned(ip) /\ ~Banned(ip)') => reported[ip]]_vars

\* Nobody is locked out for good: while a ban lasts nothing new is counted,
\* and what was under way when it began comes to an end.
AdmittedAgain == \A ip \in Ip : []<>~Banned(ip)
=============================================================================
