------------------------------ MODULE PartsProofs ------------------------------
(***************************************************************************)
(* Proofs about the parts that share no state, for any messages, nodes and *)
(* workers, any sizes of queues, batches and buffers, and any bounds.      *)
(*                                                                         *)
(* A step of MCParts is a step of one part, so the invariant of each is    *)
(* proved of its own steps and carried over: Channel, PollScheduler,       *)
(* AppLog, Forwarder, SplunkHec, Integrations, NodeRecords, Migration,     *)
(* Releases, TemplateCatalog, RateLimit.                                   *)
(***************************************************************************)
EXTENDS MCParts, SequenceTheorems, FiniteSetTheorems, WellFoundedInduction, TLAPS

LEMMA PartsConstants ==
  /\ F!ForwarderAssumption /\ H!SplunkHecAssumption /\ I!IntegrationsAssumption
  /\ R!NodeRecordsAssumption /\ L!AppLogAssumption /\ P!PollSchedulerAssumption
BY PartsAssumption

\* What a step of one part leaves alone: all of the others.
LEMMA OnePartMoves ==
  ASSUME [PartsNext]_partsVars
  PROVE  /\ [Next]_vars
         /\ [P!Next]_(P!vars)
         /\ [L!Next]_(L!vars)
         /\ [F!Next]_(F!vars)
         /\ [H!Next]_(H!vars)
         /\ [I!Next]_(I!vars)
         /\ [R!Next]_(R!vars)
         /\ [M!Next]_(M!vars)
         /\ [C!ReleasesNext]_(C!releasesVars)
         /\ [T!TemplateNext]_(T!templateVars)
         /\ [Q!RateNext]_(Q!rateVars)
BY DEF PartsNext, partsVars, mainVars, xVars, NotF, NotH, NotI, NotM, NotR, NotL, NotP, NotChannel,
       vars, fVars, hVars, iVars, mVars, rVars, lVars, pVars, cVars, tVars, qVars,
       P!vars, P!poller, L!vars, F!vars, F!edge, F!central, F!tables, H!vars, I!vars, R!vars, M!vars,
       C!releasesVars, T!templateVars, Q!rateVars

-----------------------------------------------------------------------------
(* Channel.                                                                *)

ChannelInv ==
  /\ TypeOK /\ handled \in [Msg -> 0..1]
  /\ HandledIsCachedOrStale
  /\ \A m \in cache : seenAt[m] <= now

\* The entry of a handled message that the prune drops is older than Keep, and
\* its message is then later than Skew.
LEMMA ChannelStep == ChannelInv /\ [Next]_vars => ChannelInv'
<1> SUFFICES ASSUME ChannelInv, [Next]_vars PROVE ChannelInv'
  OBVIOUS
<1>0. /\ Skew \in Nat /\ Keep \in Nat /\ Keep >= 2 * Skew /\ Drift \in Nat /\ MaxNow \in Nat
      /\ now \in 0..MaxNow /\ drift \in -Drift..Drift /\ sealed \subseteq Msg
      /\ stamp \in [Msg -> Int] /\ seenAt \in [Msg -> 0..MaxNow] /\ cache \subseteq sealed
      /\ handled \in [Msg -> 0..1]
  BY ChannelAssumption DEF ChannelInv, TypeOK
<1>1. ASSUME NEW m \in cache, m \notin Kept PROVE now - stamp[m] > Skew
  <2>1. m \in Msg /\ stamp[m] \in Int /\ seenAt[m] \in Int /\ now \in Int
    BY <1>0, <1>1
  <2>2. now - seenAt[m] > Keep /\ stamp[m] - seenAt[m] <= Skew
    BY <1>0, <1>1, <2>1 DEF ChannelInv, HandledIsCachedOrStale, Kept
  <2> QED  BY <1>0, <2>1, <2>2
<1>2. CASE Tick
  <2>1. now' \in 0..MaxNow /\ now' = now + 1
    BY <1>0, <1>2 DEF Tick
  <2>2. \A m \in Msg : now - stamp[m] > Skew => now' - stamp[m] > Skew
    BY <1>0, <2>1
  <2>3. \A m \in cache : seenAt[m] <= now'
    BY <1>0, <2>1 DEF ChannelInv
  <2> QED  BY <1>2, <2>1, <2>2, <2>3 DEF ChannelInv, TypeOK, HandledIsCachedOrStale, Tick
<1>3. CASE Restart
  BY <1>0, <1>3 DEF ChannelInv, TypeOK, HandledIsCachedOrStale, Restart
<1>4. ASSUME NEW m \in Msg, Seal(m) PROVE ChannelInv'
  <2>1. stamp' = [stamp EXCEPT ![m] = now + drift] /\ now + drift \in Int
    BY <1>0, <1>4 DEF Seal
  <2>2. stamp' \in [Msg -> Int] /\ \A o \in Msg \ {m} : stamp'[o] = stamp[o]
    BY <1>0, <2>1
  <2>3. handled[m] = 0 /\ m \notin cache
    BY <1>0, <1>4 DEF ChannelInv, HandledIsCachedOrStale, Seal
  <2>4. TypeOK'
    BY <1>0, <1>4, <2>2 DEF TypeOK, ChannelInv, Seal
  <2>5. HandledIsCachedOrStale'
    BY <1>0, <1>4, <2>2, <2>3 DEF ChannelInv, HandledIsCachedOrStale, Seal
  <2> QED  BY <1>0, <1>4, <2>4, <2>5 DEF ChannelInv, Seal
<1>5. ASSUME NEW m \in Msg, Receive(m) PROVE ChannelInv'
  <2>1. handled[m] = 0
    <3>1. ~(now - stamp[m] > Skew)
      BY <1>0, <1>5 DEF Receive, Fresh
    <3>2. m \notin cache
      BY <1>1, <1>5, <3>1 DEF Receive
    <3> QED  BY <1>0, <3>1, <3>2 DEF ChannelInv, HandledIsCachedOrStale
  <2>2. /\ handled' \in [Msg -> 0..1] /\ handled'[m] = 1
        /\ \A o \in Msg \ {m} : handled'[o] = handled[o]
    BY <1>0, <1>5, <2>1 DEF Receive
  <2>3. /\ seenAt' \in [Msg -> 0..MaxNow] /\ seenAt'[m] = now
        /\ \A o \in Msg \ {m} : seenAt'[o] = seenAt[o]
    BY <1>0, <1>5 DEF Receive
  <2>4. cache' = Kept \cup {m} /\ Kept \subseteq cache
    BY <1>5 DEF Receive, Kept
  <2>5. TypeOK'
    BY <1>0, <1>5, <2>2, <2>3, <2>4 DEF TypeOK, Receive
  <2>6. HandledIsCachedOrStale'
    <3> SUFFICES ASSUME NEW o \in Msg
                 PROVE  /\ handled'[o] > 0 => o \in sealed /\ (o \in cache' \/ now - stamp[o] > Skew)
                        /\ o \in cache' => handled'[o] > 0 /\ stamp[o] - seenAt'[o] <= Skew
      BY <1>5 DEF HandledIsCachedOrStale, Receive
    <3>1. CASE o = m
      BY <1>0, <1>5, <2>2, <2>3, <2>4, <3>1 DEF Receive, Fresh
    <3>2. CASE o # m
      BY <1>1, <2>2, <2>3, <2>4, <3>2 DEF ChannelInv, HandledIsCachedOrStale
    <3> QED  BY <3>1, <3>2
  <2>7. \A o \in cache' : seenAt'[o] <= now
    BY <1>0, <2>3, <2>4 DEF ChannelInv
  <2> QED  BY <1>5, <2>2, <2>5, <2>6, <2>7 DEF ChannelInv, Receive
<1>6. ASSUME NEW m \in Msg, Refuse(m) PROVE ChannelInv'
  <2>1. cache' = Kept /\ Kept \subseteq cache /\ UNCHANGED <<now, drift, sealed, stamp, seenAt, handled>>
    BY <1>6 DEF Refuse, Kept
  <2>2. HandledIsCachedOrStale'
    BY <1>1, <2>1 DEF ChannelInv, HandledIsCachedOrStale
  <2> QED  BY <1>0, <2>1, <2>2 DEF ChannelInv, TypeOK
<1>7. CASE UNCHANGED vars
  BY <1>7 DEF vars, ChannelInv, TypeOK, HandledIsCachedOrStale
<1> QED  BY <1>2, <1>3, <1>4, <1>5, <1>6, <1>7 DEF Next

\* No message is handled twice in one life of the receiver (security/
\* control-channel.ts and the two replay caches), whatever the clocks show and
\* the network repeats.
THEOREM MessagesAreHandledOnce == PartsSpec => []HandledOnce
<1>1. PartsInit => ChannelInv
  BY ChannelAssumption DEF PartsInit, Init, ChannelInv, TypeOK, HandledIsCachedOrStale
<1>2. ChannelInv /\ [PartsNext]_partsVars => ChannelInv'
  BY OnePartMoves, ChannelStep
<1>3. ChannelInv => HandledOnce
  BY DEF ChannelInv, HandledOnce
<1> QED  BY <1>1, <1>2, <1>3, PTL DEF PartsSpec

-----------------------------------------------------------------------------
(* PollScheduler.                                                          *)

\* A cycle that is over leaves no poll; only a program that runs begins one.
PollInv ==
  /\ P!TypeOK /\ P!OnePollPerNode /\ P!ClosedIsQuiet
  /\ poll \in [Worker -> Site \cup {None, "done"}]
  /\ cycle = None => P!Polled = {}
  /\ polling => central \in {"first", "up"}

\* The instance and this module mean the same finite sets and sizes.
LEMMA PollSets ==
  ASSUME NEW S
  PROVE  /\ P!IsFiniteSet(S) <=> IsFiniteSet(S)
         /\ P!Cardinality(S) = Cardinality(S)
BY DEF P!IsFiniteSet, IsFiniteSet, P!Cardinality, Cardinality

LEMMA BeginPolls ==
  ASSUME PollInv, P!Begin
  PROVE  /\ poll' \in [Worker -> Site \cup {None, "done"}]
         /\ cycle' # None /\ cycle' \in Seq(Site) /\ P!IsInjective(cycle')
         /\ \A v, w \in Worker : poll'[v] = poll'[w] /\ poll'[v] \in Site => v = w
         /\ P!ToSet(cycle') \cap P!Polled' = {}
<1>1. CASE cycle # None
  BY <1>1 DEF PollInv, P!TypeOK, P!OnePollPerNode, P!Begin, P!Polled
<1>2. CASE cycle = None
  <2>1. PICK order \in P!SetToSeqs(registered) : cycle' = order /\ poll' = [w \in Worker |-> None]
    BY <1>2 DEF P!Begin
  <2>2. registered \subseteq Site /\ IsFiniteSet(Site)
    BY PartsConstants, PollSets DEF PollInv, P!TypeOK, P!PollSchedulerAssumption
  <2>3. Cardinality(registered) \in Nat
    BY <2>2, FS_Subset, FS_CardinalityType
  <2>4. order \in [1..Cardinality(registered) -> registered] /\ P!IsInjective(order)
    BY <2>1, <2>3, PollSets DEF P!SetToSeqs, P!IsInjective
  <2>5. order \in Seq(Site)
    BY <2>2, <2>3, <2>4
  <2>6. None \notin Site /\ None \notin Seq(Site)
    BY PartsConstants DEF P!PollSchedulerAssumption
  <2>7. P!Polled' = {}
    BY <2>1, <2>6 DEF P!Polled
  <2> QED  BY <2>1, <2>4, <2>5, <2>6, <2>7
<1> QED  BY <1>1, <1>2

LEMMA PollStep == PollInv /\ [P!Next]_(P!vars) => PollInv'
<1> SUFFICES ASSUME PollInv, [P!Next]_(P!vars) PROVE PollInv'
  OBVIOUS
<1>0. /\ None \notin Site /\ None \notin Seq(Site) /\ "done" \notin Site
      /\ poll \in [Worker -> Site \cup {None, "done"}]
      /\ registered \subseteq Site /\ central \in P!Phase /\ result \in [Site -> BOOLEAN \cup {None}]
      /\ polling \in BOOLEAN /\ timer \in BOOLEAN
      /\ cycle # None => cycle \in Seq(Site) /\ P!IsInjective(cycle)
  BY PartsConstants DEF PollInv, P!TypeOK, P!PollSchedulerAssumption
<1>1. ASSUME NEW s \in Site, P!Register(s) \/ P!Unregister(s) PROVE PollInv'
  BY <1>0, <1>1 DEF PollInv, P!Register, P!Unregister, P!poller, P!TypeOK, P!OnePollPerNode,
                    P!ClosedIsQuiet, P!Polled
<1>2. ASSUME NEW w \in Worker, P!Take(w) PROVE PollInv'
  <2>0. cycle # None /\ cycle \in Seq(Site) /\ poll[w] = None
        /\ UNCHANGED <<registered, central, polling, timer, result>>
    BY <1>0, <1>2 DEF P!Take
  <2>1. CASE cycle = <<>>
    <3>1. poll' = [poll EXCEPT ![w] = "done"] /\ cycle' = cycle
      BY <1>2, <2>1 DEF P!Take
    <3>2. poll' \in [Worker -> Site \cup {None, "done"}] /\ P!Polled' = P!Polled
      BY <1>0, <2>0, <3>1 DEF P!Polled
    <3> QED  BY <1>0, <2>0, <3>1, <3>2 DEF PollInv, P!TypeOK, P!OnePollPerNode, P!ClosedIsQuiet
  <2>2. CASE cycle # <<>>
    <3> DEFINE h == Head(cycle)
               t == Tail(cycle)
    <3>1. poll' = [poll EXCEPT ![w] = h] /\ cycle' = t
      BY <1>2, <2>2 DEF P!Take
    <3>2. /\ h \in Site /\ t \in Seq(Site) /\ Len(t) = Len(cycle) - 1 /\ h = cycle[1]
          /\ \A i \in 1..Len(t) : t[i] = cycle[i + 1]
          /\ Len(cycle) \in Nat \ {0}
      BY <2>0, <2>2, HeadTailProperties, EmptySeq
    <3>3. DOMAIN t = 1..Len(t) /\ DOMAIN cycle = 1..Len(cycle)
      BY <2>0, <3>2
    <3> HIDE DEF h, t
    <3>4. \A i, j \in DOMAIN cycle : cycle[i] = cycle[j] => i = j
      BY <1>0, <2>0 DEF P!IsInjective
    <3>5. P!IsInjective(t)
      BY <3>2, <3>3, <3>4 DEF P!IsInjective
    <3>6. P!ToSet(t) \subseteq P!ToSet(cycle) /\ h \in P!ToSet(cycle) /\ h \notin P!ToSet(t)
      <4>1. 1 \in DOMAIN cycle /\ \A i \in DOMAIN t : i + 1 \in DOMAIN cycle /\ i + 1 # 1 /\ t[i] = cycle[i + 1]
        BY <3>2, <3>3
      <4>2. \A i \in DOMAIN t : t[i] # h
        BY <3>2, <3>4, <4>1
      <4> QED  BY <3>2, <4>1, <4>2 DEF P!ToSet
    <3>7. h \notin P!Polled
      BY <2>0, <3>6 DEF PollInv, P!OnePollPerNode
    <3>8. poll' \in [Worker -> Site \cup {None, "done"}] /\ P!Polled' = P!Polled \cup {h}
      BY <1>0, <2>0, <3>1, <3>2 DEF P!Polled
    <3>9. \A v \in Worker \ {w} : poll'[v] = poll[v] /\ poll[v] # h
      BY <1>0, <3>1, <3>2, <3>7 DEF P!Polled
    <3>10. \A v, x \in Worker : poll'[v] = poll'[x] /\ poll'[v] \in Site => v = x
      BY <1>0, <3>1, <3>9 DEF PollInv, P!OnePollPerNode
    <3>11. P!ToSet(t) \cap P!Polled' = {}
      BY <2>0, <3>6, <3>8 DEF PollInv, P!OnePollPerNode
    <3>12. t # None /\ central \notin {"draining", "closed"}
      BY <1>0, <2>0, <3>2 DEF PollInv, P!ClosedIsQuiet
    <3>13. P!TypeOK'
      BY <1>0, <2>0, <3>1, <3>2, <3>5, <3>8 DEF P!TypeOK
    <3> QED  BY <1>0, <2>0, <3>1, <3>8, <3>10, <3>11, <3>12, <3>13
             DEF PollInv, P!OnePollPerNode, P!ClosedIsQuiet
  <2> QED  BY <2>1, <2>2
<1>3. ASSUME NEW w \in Worker, NEW ok \in BOOLEAN, P!PollEnds(w, ok) PROVE PollInv'
  <2>1. /\ poll' \in [Worker -> Site \cup {None, "done"}]
        /\ \A v \in Worker : poll'[v] = IF v = w THEN None ELSE poll[v]
    BY <1>0, <1>3 DEF P!PollEnds
  <2>2. result' \in [Site -> BOOLEAN \cup {None}]
    BY <1>0, <1>3 DEF P!PollEnds
  <2>3. P!Polled' \subseteq P!Polled
    BY <1>0, <2>1 DEF P!Polled
  <2>4. \A v, x \in Worker : poll'[v] = poll'[x] /\ poll'[v] \in Site => v = x
    BY <1>0, <2>1 DEF PollInv, P!OnePollPerNode
  <2>5. UNCHANGED <<registered, central, polling, timer, cycle>>
    BY <1>3 DEF P!PollEnds
  <2> QED  BY <1>0, <2>1, <2>2, <2>3, <2>4, <2>5
           DEF PollInv, P!TypeOK, P!OnePollPerNode, P!ClosedIsQuiet
<1>4. CASE P!CycleEnds
  <2>1. P!Polled = {} /\ P!Polled' = {} /\ cycle' = None
    BY <1>0, <1>4 DEF P!CycleEnds, P!Over, P!Polled
  <2>2. central' \in P!Phase /\ timer' \in BOOLEAN
        /\ (central' = central \/ central' = "up")
        /\ UNCHANGED <<registered, polling, poll, result>>
    BY <1>0, <1>4 DEF P!CycleEnds, P!Phase
  <2> QED  BY <1>0, <2>1, <2>2 DEF PollInv, P!TypeOK, P!OnePollPerNode, P!ClosedIsQuiet
<1>5. CASE P!Start
  <2>1. P!Begin /\ central' = "first" /\ polling' = TRUE /\ UNCHANGED <<registered, timer, result>>
    BY <1>5 DEF P!Start
  <2> QED  BY <1>0, <2>1, BeginPolls DEF PollInv, P!TypeOK, P!OnePollPerNode, P!ClosedIsQuiet, P!Phase
<1>6. CASE P!Tick
  <2>1. P!Begin /\ polling /\ UNCHANGED <<registered, central, polling, timer, result>>
    BY <1>6 DEF P!Tick
  <2> QED  BY <1>0, <2>1, BeginPolls DEF PollInv, P!TypeOK, P!OnePollPerNode, P!ClosedIsQuiet
<1>7. CASE P!Stop
  BY <1>0, <1>7 DEF P!Stop, PollInv, P!TypeOK, P!OnePollPerNode, P!ClosedIsQuiet, P!Phase, P!Polled
<1>8. CASE P!Stopped \/ P!Close
  BY <1>0, <1>8 DEF P!Stopped, P!Close, P!poller, PollInv, P!TypeOK, P!OnePollPerNode,
                    P!ClosedIsQuiet, P!Phase, P!Polled
<1>9. CASE P!Exit
  <2>1. /\ poll' \in [Worker -> Site \cup {None, "done"}] /\ P!Polled' = {} /\ cycle' = None
        /\ \A w \in Worker : poll'[w] = None
    BY <1>0, <1>9 DEF P!Exit, P!Polled
  <2>2. /\ result' \in [Site -> BOOLEAN \cup {None}] /\ central' = "down"
        /\ polling' = FALSE /\ timer' = FALSE /\ registered' = registered
    BY <1>9 DEF P!Exit
  <2> QED  BY <1>0, <2>1, <2>2 DEF PollInv, P!TypeOK, P!OnePollPerNode, P!ClosedIsQuiet, P!Phase
<1>10. CASE UNCHANGED P!vars
  BY <1>10 DEF P!vars, P!poller, PollInv, P!TypeOK, P!OnePollPerNode, P!ClosedIsQuiet, P!Polled
<1> QED  BY <1>1, <1>2, <1>3, <1>4, <1>5, <1>6, <1>7, <1>8, <1>9, <1>10 DEF P!Next

\* No two workers poll one node at a time and nothing is polled once the
\* database is closed, for any nodes and workers, whoever registers or removes
\* nodes meanwhile (runCycle, poller.stop).
THEOREM PollsStayApartAlways == PartsSpec => []PollsStayApart
<1>1. PartsInit => PollInv
  <2> SUFFICES ASSUME PartsInit PROVE PollInv
    OBVIOUS
  <2>1. P!Init
    BY DEF PartsInit
  <2>2. None \notin Site
    BY PartsConstants DEF P!PollSchedulerAssumption
  <2> QED  BY <2>1, <2>2 DEF P!Init, PollInv, P!TypeOK, P!OnePollPerNode, P!ClosedIsQuiet, P!Phase, P!Polled
<1>2. PollInv /\ [PartsNext]_partsVars => PollInv'
  BY OnePartMoves, PollStep
<1>3. PollInv => PollsStayApart
  BY DEF PollInv, PollsStayApart
<1> QED  BY <1>1, <1>2, <1>3, PTL DEF PartsSpec

-----------------------------------------------------------------------------
(* AppLog.                                                                 *)

\* After n records: b holds the last of them, in order; the others are in f or
\* were shed; and before the first of x failures f is the records in order.
LogGood(n, b, f, s, x) ==
  /\ n \in 0..MaxRecords /\ b \in Seq(1..MaxRecords) /\ f \in Seq(1..MaxRecords) /\ x \in Nat
  /\ s \subseteq 1..n /\ Len(b) <= n
  /\ \A i \in 1..Len(b) : b[i] = n - Len(b) + i
  /\ \A i \in 1..Len(f) : f[i] <= n
  /\ \A k \in 1..(n - Len(b)) : k \in s \/ \E i \in 1..Len(f) : f[i] = k
  /\ x = 0 => Len(f) = n - Len(b) /\ \A i \in 1..Len(f) : f[i] = i

LogInv ==
  /\ LogGood(logged, buffer, file, shed, failures)
  /\ stopped \in BOOLEAN /\ running \in BOOLEAN

\* g is f and the first m of b, which counts up to n.
LEMMA JoinedLog ==
  ASSUME NEW n \in Nat, NEW p \in Nat, NEW q \in Nat, q <= n, NEW m \in 0..q,
         NEW f, NEW b, NEW g,
         \A i \in 1..p : f[i] \in Int /\ f[i] <= n,
         \A i \in 1..q : b[i] = n - q + i,
         \A i \in 1..(p + m) : g[i] = IF i <= p THEN f[i] ELSE b[i - p]
  PROVE  /\ \A i \in 1..(p + m) : g[i] <= n
         /\ \A i \in 1..p : i \in 1..(p + m) /\ g[i] = f[i]
         /\ p = n - q /\ (\A i \in 1..p : f[i] = i) => \A i \in 1..(p + m) : g[i] = i
<1>0. m \in Nat /\ m <= q
  OBVIOUS
<1>1. \A i \in 1..p : i \in 1..(p + m) /\ g[i] = f[i]
  BY <1>0
<1>2. ASSUME NEW i \in 1..(p + m), i > p
      PROVE  i - p \in 1..q /\ g[i] = b[i - p] /\ g[i] = n - q + (i - p) /\ g[i] <= n
  <2>1. i - p \in 1..q /\ i - p <= m /\ i \in Int
    BY <1>0, <1>2
  <2>2. g[i] = b[i - p] /\ b[i - p] = n - q + (i - p)
    BY <1>2, <2>1
  <2> QED  BY <1>0, <2>1, <2>2
<1>3. \A i \in 1..(p + m) : g[i] <= n
  BY <1>0, <1>1, <1>2
<1>4. p = n - q /\ (\A i \in 1..p : f[i] = i) => \A i \in 1..(p + m) : g[i] = i
  <2> SUFFICES ASSUME p = n - q, \A i \in 1..p : f[i] = i, NEW i \in 1..(p + m) PROVE g[i] = i
    OBVIOUS
  <2>1. CASE i <= p
    BY <1>0, <1>1, <2>1
  <2>2. CASE i > p
    BY <1>0, <1>2, <2>2
  <2> QED  BY <1>0, <2>1, <2>2
<1> QED  BY <1>1, <1>3, <1>4

\* A flush keeps it so, whatever of b reaches the file.
LEMMA FlushKeepsLog ==
  ASSUME NEW n, NEW b, LogGood(n, b, file, shed, failures), L!FlushOf(b)
  PROVE  LogGood(n, buffer', file', shed', failures')
<1> DEFINE Recs == 1..MaxRecords
           p == Len(file)
           q == Len(b)
<1>0. /\ n \in Nat /\ n <= MaxRecords /\ MaxRecords \in Nat /\ MaxLines \in Nat
      /\ b \in Seq(Recs) /\ file \in Seq(Recs) /\ failures \in Nat
      /\ q \in Nat /\ p \in Nat /\ q <= n /\ shed \subseteq 1..n
      /\ \A i \in 1..q : b[i] \in Recs
  BY PartsConstants, LenProperties, ElementOfSeq DEF LogGood, L!AppLogAssumption
<1>1. /\ \A i \in 1..q : b[i] = n - q + i
      /\ \A i \in 1..p : file[i] \in Int /\ file[i] <= n
      /\ \A k \in 1..(n - q) : k \in shed \/ \E i \in 1..p : file[i] = k
      /\ failures = 0 => p = n - q /\ \A i \in 1..p : file[i] = i
  <2>1. \A i \in 1..p : file[i] \in Recs
    BY <1>0, ElementOfSeq
  <2> QED  BY <1>0, <2>1 DEF LogGood
<1>2. CASE stopped \/ b = <<>>
  BY <1>2 DEF L!FlushOf
<1>3. ASSUME L!Appended(b, TRUE, 0) PROVE LogGood(n, buffer', file', shed', failures')
  <2>1. file' = file \o b /\ buffer' = <<>> /\ shed' = shed /\ failures' = failures
    BY <1>3 DEF L!Appended
  <2>2. /\ file' \in Seq(Recs) /\ Len(file') = p + q
        /\ \A i \in 1..(p + q) : file'[i] = IF i <= p THEN file[i] ELSE b[i - p]
    BY <1>0, <2>1, ConcatProperties
  <2>3. buffer' \in Seq(Recs) /\ Len(buffer') = 0
    BY <2>1
  <2> DEFINE g == file'
  <2>4. q \in 0..q
    BY <1>0
  <2> HIDE DEF p, q, g
  <2>5. /\ \A i \in 1..(p + q) : g[i] <= n
        /\ \A i \in 1..p : i \in 1..(p + q) /\ g[i] = file[i]
        /\ \A k \in (n - q + 1)..(n - q + q) : \E i \in 1..(p + q) : g[i] = k
        /\ p = n - q /\ (\A i \in 1..p : file[i] = i) => \A i \in 1..(p + q) : g[i] = i
    <3>0. PICK m \in 0..q : m = q
      BY <2>4
    <3>1. \A i \in 1..(p + m) : g[i] = IF i <= p THEN file[i] ELSE b[i - p]
      BY <2>2, <3>0 DEF g
    <3>2. n \in Nat /\ p \in Nat /\ q \in Nat /\ q <= n /\ m \in 0..q
      BY <1>0, <3>0
    <3>3. \A i \in 1..p : file[i] \in Int /\ file[i] <= n
      BY <1>1
    <3>4. \A i \in 1..q : b[i] = n - q + i
      BY <1>1
    <3>5. /\ \A i \in 1..(p + m) : g[i] <= n
          /\ \A i \in 1..p : i \in 1..(p + m) /\ g[i] = file[i]
      BY ONLY <3>1, <3>2, <3>3, <3>4, JoinedLog
    <3>6. \A k \in (n - q + 1)..(n - q + m) : \E i \in 1..(p + m) : g[i] = k
      <4> SUFFICES ASSUME NEW k \in (n - q + 1)..(n - q + m) PROVE \E i \in 1..(p + m) : g[i] = k
        OBVIOUS
      <4> DEFINE i == k - (n - q) + p
      <4>1. i \in 1..(p + m) /\ i > p /\ i - p \in 1..q /\ n - q + (i - p) = k
        BY <3>2
      <4> HIDE DEF i
      <4>2. g[i] = b[i - p] /\ b[i - p] = k
        BY <3>1, <3>2, <3>4, <4>1
      <4> QED  BY <4>1, <4>2
    <3>7. p = n - q /\ (\A i \in 1..p : file[i] = i) => \A i \in 1..(p + m) : g[i] = i
      BY ONLY <3>1, <3>2, <3>3, <3>4, JoinedLog
    <3> QED  BY <3>0, <3>5, <3>6, <3>7
  <2>6. \A k \in 1..n : k \in shed \/ \E i \in 1..(p + q) : g[i] = k
    <3> SUFFICES ASSUME NEW k \in 1..n PROVE k \in shed \/ \E i \in 1..(p + q) : g[i] = k
      OBVIOUS
    <3>1. k \in 1..(n - q) \/ k \in (n - q + 1)..(n - q + q)
      BY <1>0
    <3> QED  BY <1>1, <2>5, <3>1
  <2>7. failures = 0 => p + q = n /\ \A i \in 1..(p + q) : g[i] = i
    <3>1. p = n - q => p + q = n
      BY <1>0
    <3> QED  BY <1>1, <2>5, <3>1
  <2>8. n - Len(buffer') = n /\ Len(buffer') <= n /\ n \in 0..MaxRecords
    BY <1>0, <2>3
  <2>9. \A i \in 1..Len(buffer') : FALSE
    BY <2>3
  <2> QED  BY <1>0, <2>1, <2>2, <2>3, <2>5, <2>6, <2>7, <2>8, <2>9 DEF LogGood, g
<1>4. ASSUME NEW m \in 0..q, L!Appended(b, FALSE, m)
      PROVE  LogGood(n, buffer', file', shed', failures')
  <2> DEFINE over == IF q > MaxLines THEN q - MaxLines ELSE 0
             head == SubSeq(b, 1, m)
             gone == SubSeq(b, 1, over)
  <2>1. /\ file' = file \o head /\ buffer' = SubSeq(b, over + 1, q)
        /\ shed' = shed \cup L!Range(gone) /\ failures' = failures + 1
    BY <1>4 DEF L!Appended
  <2>2. over \in Nat /\ over <= q /\ m \in Nat /\ m <= q
    BY <1>0
  <2> HIDE DEF over
  <2>4. head \in Seq(Recs) /\ Len(head) = m /\ \A i \in 1..m : head[i] = b[i]
    <3>1. \A i \in 1..m : b[i] \in Recs
      BY <1>0, <2>2
    <3>2. /\ head \in Seq(Recs)
          /\ Len(head) = IF 1 <= m THEN m - 1 + 1 ELSE 0
          /\ \A i \in 1..(m - 1 + 1) : head[i] = b[1 + i - 1]
      BY <2>2, <3>1, SubSeqProperties
    <3> QED  BY <2>2, <3>2
  <2>5. gone \in Seq(Recs) /\ Len(gone) = over /\ \A i \in 1..over : gone[i] = b[i]
    <3>1. \A i \in 1..over : b[i] \in Recs
      BY <1>0, <2>2
    <3>2. /\ gone \in Seq(Recs)
          /\ Len(gone) = IF 1 <= over THEN over - 1 + 1 ELSE 0
          /\ \A i \in 1..(over - 1 + 1) : gone[i] = b[1 + i - 1]
      BY <2>2, <3>1, SubSeqProperties
    <3> QED  BY <2>2, <3>2
  <2>6. /\ buffer' \in Seq(Recs) /\ Len(buffer') = q - over
        /\ \A i \in 1..(q - over) : buffer'[i] = b[over + i]
    <3>1. \A i \in (over + 1)..q : b[i] \in Recs
      BY <1>0, <2>2
    <3>2. /\ SubSeq(b, over + 1, q) \in Seq(Recs)
          /\ Len(SubSeq(b, over + 1, q)) = IF over + 1 <= q THEN q - (over + 1) + 1 ELSE 0
          /\ \A i \in 1..(q - (over + 1) + 1) : SubSeq(b, over + 1, q)[i] = b[over + 1 + i - 1]
      BY <1>0, <2>2, <3>1, SubSeqProperties
    <3> QED  BY <1>0, <2>1, <2>2, <3>2
  <2> HIDE DEF head, gone
  <2> DEFINE g == file'
             c == buffer'
  <2>7. /\ g \in Seq(Recs) /\ Len(g) = p + m
        /\ \A i \in 1..(p + m) : g[i] = IF i <= p THEN file[i] ELSE b[i - p]
    <3>1. /\ g \in Seq(Recs) /\ Len(g) = Len(file) + Len(head)
          /\ \A i \in 1..(Len(file) + Len(head)) :
               g[i] = IF i <= Len(file) THEN file[i] ELSE head[i - Len(file)]
      BY <1>0, <2>1, <2>4, ConcatProperties
    <3> HIDE DEF p, q, g
    <3>2. \A i \in 1..(p + m) : i <= p \/ i - p \in 1..m
      BY <1>0, <2>2
    <3> QED  BY <2>4, <3>1, <3>2 DEF p
  <2>8. DOMAIN gone = 1..over
    BY <2>5, LenProperties
  <2> HIDE DEF p, q, g, c
  <2>9. L!Range(gone) \subseteq 1..n
    <3>1. \A i \in 1..over : b[i] \in 1..n
      <4> SUFFICES ASSUME NEW i \in 1..over PROVE b[i] \in 1..n
        OBVIOUS
      <4>1. i \in 1..q
        BY <1>0, <2>2
      <4>2. b[i] = n - q + i
        BY <1>1, <4>1
      <4> QED  BY <1>0, <4>1, <4>2
    <3> QED  BY <2>5, <2>8, <3>1 DEF L!Range
  <2>10. Len(c) = q - over /\ \A i \in 1..(q - over) : c[i] = n - (q - over) + i
    <3> SUFFICES ASSUME NEW i \in 1..(q - over) PROVE c[i] = n - (q - over) + i
      BY <2>6 DEF c
    <3>1. over + i \in 1..q
      BY <1>0, <2>2
    <3>2. c[i] = n - q + (over + i)
      BY <1>1, <2>6, <3>1 DEF c
    <3> QED  BY <1>0, <2>2, <3>2
  <2>11. /\ \A i \in 1..(p + m) : g[i] <= n
         /\ \A i \in 1..p : i \in 1..(p + m) /\ g[i] = file[i]
    <3>1. \A i \in 1..(p + m) : g[i] = IF i <= p THEN file[i] ELSE b[i - p]
      BY <2>7
    <3>2. n \in Nat /\ p \in Nat /\ q \in Nat /\ q <= n /\ m \in 0..q
      BY <1>0
    <3>3. \A i \in 1..p : file[i] \in Int /\ file[i] <= n
      BY <1>1
    <3>4. \A i \in 1..q : b[i] = n - q + i
      BY <1>1
    <3> QED  BY ONLY <3>1, <3>2, <3>3, <3>4, JoinedLog
  <2>12. \A k \in 1..(n - (q - over)) : k \in shed' \/ \E i \in 1..(p + m) : g[i] = k
    <3> SUFFICES ASSUME NEW k \in 1..(n - (q - over))
                 PROVE  k \in shed' \/ \E i \in 1..(p + m) : g[i] = k
      OBVIOUS
    <3>1. CASE k <= n - q
      <4>1. k \in 1..(n - q)
        BY <1>0, <3>1
      <4> QED  BY <1>1, <2>1, <2>11, <4>1
    <3>2. CASE k > n - q
      <4> DEFINE j == k - (n - q)
      <4>1. j \in 1..over /\ j \in 1..q /\ n - q + j = k
        BY <1>0, <2>2, <3>2
      <4>2. gone[j] = k
        BY <1>1, <2>5, <4>1
      <4>3. k \in L!Range(gone)
        BY <2>8, <4>1, <4>2 DEF L!Range
      <4> QED  BY <2>1, <4>3
    <3> QED  BY <1>0, <2>2, <3>1, <3>2
  <2>13. q - over <= n /\ failures' \in Nat /\ failures' # 0 /\ n \in 0..MaxRecords
    BY <1>0, <2>1, <2>2
  <2>14. shed' \subseteq 1..n
    BY <1>0, <2>1, <2>9
  <2> QED  BY <2>6, <2>7, <2>10, <2>11, <2>12, <2>13, <2>14 DEF LogGood, g, c
<1> QED  BY <1>2, <1>3, <1>4 DEF L!FlushOf, L!Appended

LEMMA LogStep == LogInv /\ [L!Next]_(L!vars) => LogInv'
<1> SUFFICES ASSUME LogInv, [L!Next]_(L!vars) PROVE LogInv'
  OBVIOUS
<1> DEFINE Recs == 1..MaxRecords
<1>1. CASE L!Log
  <2> DEFINE b == Append(buffer, logged + 1)
  <2>1. logged < MaxRecords /\ logged' = logged + 1 /\ UNCHANGED <<stopped, running>>
    BY <1>1 DEF L!Log
  <2>2. logged \in Nat /\ logged + 1 \in Recs /\ buffer \in Seq(Recs) /\ Len(buffer) \in Nat /\ MaxRecords \in Nat
        /\ file \in Seq(Recs) /\ Len(file) \in Nat /\ failures \in Nat
        /\ shed \subseteq 1..logged /\ Len(buffer) <= logged
    BY <2>1, PartsConstants, LenProperties DEF LogInv, LogGood, L!AppLogAssumption
  <2>3. b \in Seq(Recs) /\ Len(b) = Len(buffer) + 1
        /\ \A i \in 1..Len(b) : b[i] = IF i <= Len(buffer) THEN buffer[i] ELSE logged + 1
    BY <2>2
  <2> HIDE DEF b
  <2>4. \A i \in 1..Len(b) : b[i] = (logged + 1) - Len(b) + i
    <3> DEFINE k == Len(buffer)
    <3>1. \A i \in 1..k : buffer[i] = logged - k + i
      BY DEF LogInv, LogGood
    <3>2. k \in Nat /\ Len(b) = k + 1 /\ \A i \in 1..(k + 1) : b[i] = IF i <= k THEN buffer[i] ELSE logged + 1
      BY <2>2, <2>3
    <3> HIDE DEF k
    <3> SUFFICES ASSUME NEW i \in 1..(k + 1) PROVE b[i] = (logged + 1) - (k + 1) + i
      BY <3>2
    <3>3. CASE i <= k
      BY <2>2, <3>1, <3>2, <3>3
    <3>4. CASE i > k
      <4>1. i = k + 1 /\ (logged + 1) - (k + 1) + i = logged + 1
        BY <2>2, <3>2, <3>4
      <4>2. b[i] = logged + 1
        BY <3>2, <3>4
      <4> QED  BY <4>1, <4>2
    <3> QED  BY <3>2, <3>3, <3>4
  <2>5. (logged + 1) - Len(b) = logged - Len(buffer) /\ Len(b) <= logged + 1
    BY <2>2, <2>3
  <2>6. \A i \in 1..Len(file) : file[i] \in Int /\ file[i] <= logged + 1
    <3>1. \A i \in 1..Len(file) : file[i] \in Recs /\ file[i] <= logged
      BY <2>2, ElementOfSeq DEF LogInv, LogGood
    <3> QED  BY <2>2, <3>1
  <2>7. LogGood(logged + 1, b, file, shed, failures)
    <3>1. logged + 1 \in 0..MaxRecords /\ shed \subseteq 1..(logged + 1)
      BY <2>1, <2>2
    <3> QED  BY <2>2, <2>3, <2>4, <2>5, <2>6, <3>1 DEF LogInv, LogGood
  <2>8. \/ L!FlushOf(b)
        \/ buffer' = b /\ UNCHANGED <<file, shed, failures>>
    BY <1>1, <2>1 DEF L!Log, b
  <2> QED  BY <2>1, <2>7, <2>8, FlushKeepsLog DEF LogInv
<1>2. CASE L!Flush
  BY <1>2, FlushKeepsLog DEF LogInv, L!Flush
<1>3. CASE L!Shutdown \/ L!Exit \/ UNCHANGED L!vars
  BY <1>3 DEF LogInv, L!Shutdown, L!Exit, L!vars
<1> QED  BY <1>1, <1>2, <1>3 DEF L!Next

LEMMA LogInOrder == LogInv => LogKeepsOrder
<1> SUFFICES ASSUME LogInv PROVE LogKeepsOrder
  OBVIOUS
<1> DEFINE Recs == 1..MaxRecords
<1>0. /\ logged \in Nat /\ MaxRecords \in Nat /\ MaxLines \in Nat /\ logged <= MaxRecords
      /\ buffer \in Seq(Recs) /\ file \in Seq(Recs) /\ Len(buffer) \in Nat /\ Len(file) \in Nat
      /\ Len(buffer) <= logged /\ shed \subseteq 1..logged
      /\ DOMAIN buffer = 1..Len(buffer) /\ DOMAIN file = 1..Len(file)
  BY PartsConstants, LenProperties DEF LogInv, LogGood, L!AppLogAssumption
<1>1. /\ \A i \in 1..Len(buffer) : buffer[i] = logged - Len(buffer) + i
      /\ \A i \in 1..Len(file) : file[i] \in Recs /\ file[i] <= logged
      /\ \A k \in 1..(logged - Len(buffer)) : k \in shed \/ \E i \in 1..Len(file) : file[i] = k
      /\ failures = 0 => Len(file) = logged - Len(buffer) /\ \A i \in 1..Len(file) : file[i] = i
  BY <1>0, ElementOfSeq DEF LogInv, LogGood
<1>2. 1..logged \subseteq L!Range(file) \cup L!Range(buffer) \cup shed
  <2> SUFFICES ASSUME NEW k \in 1..logged PROVE k \in L!Range(file) \cup L!Range(buffer) \cup shed
    OBVIOUS
  <2>1. CASE k <= logged - Len(buffer)
    <3>1. k \in 1..(logged - Len(buffer))
      BY <1>0, <2>1
    <3> QED  BY <1>0, <1>1, <3>1 DEF L!Range
  <2>2. CASE k > logged - Len(buffer)
    <3> DEFINE j == k - (logged - Len(buffer))
    <3>1. j \in 1..Len(buffer) /\ buffer[j] = k
      BY <1>0, <1>1, <2>2
    <3> QED  BY <1>0, <3>1 DEF L!Range
  <2> QED  BY <1>0, <2>1, <2>2
<1>3. L!Range(file) \cup L!Range(buffer) \cup shed \subseteq 1..logged
  <2>1. L!Range(file) \subseteq 1..logged
    BY <1>0, <1>1 DEF L!Range
  <2>2. L!Range(buffer) \subseteq 1..logged
    BY <1>0, <1>1 DEF L!Range
  <2> QED  BY <1>0, <2>1, <2>2
<1>4. \A i, j \in DOMAIN buffer : i < j => buffer[i] < buffer[j]
  BY <1>0, <1>1
<1>5. failures = 0 => file \o buffer = [i \in 1..logged |-> i]
  <2> SUFFICES ASSUME failures = 0 PROVE file \o buffer = [i \in 1..logged |-> i]
    OBVIOUS
  <2> DEFINE all == file \o buffer
  <2>1. /\ all \in Seq(Recs) /\ Len(all) = Len(file) + Len(buffer)
        /\ \A i \in 1..Len(file) + Len(buffer) :
             all[i] = IF i <= Len(file) THEN file[i] ELSE buffer[i - Len(file)]
    BY <1>0, ConcatProperties
  <2>2. Len(all) = logged /\ \A i \in 1..logged : all[i] = i
    BY <1>0, <1>1, <2>1
  <2>3. all \in [1..logged -> Recs]
    BY <2>1, <2>2, LenProperties
  <2> HIDE DEF all
  <2>4. all = [i \in 1..logged |-> i]
    BY <2>2, <2>3
  <2> QED  BY <2>4 DEF all
<1>6. Len(buffer) <= MaxLines + MaxRecords
  BY <1>0
<1> QED  BY <1>0, <1>2, <1>3, <1>4, <1>5, <1>6 DEF LogInv, LogKeepsOrder, L!LogTypeOK, L!LogKeepsOrder

\* A failing disk costs the oldest records of a full buffer and no others, and
\* a disk that works gets every record once and in order (applog.ts, flush),
\* for any length of buffer and any pattern of failures.
THEOREM LogKeepsItsOrder == PartsSpec => []LogKeepsOrder
<1>1. PartsInit => LogInv
  <2> SUFFICES ASSUME PartsInit PROVE LogInv
    OBVIOUS
  <2>1. L!Init /\ MaxRecords \in Nat
    BY PartsConstants DEF PartsInit, L!AppLogAssumption
  <2>2. Len(<<>>) = 0 /\ <<>> \in Seq(1..MaxRecords) /\ 0 - 0 = 0
    BY EmptySeq
  <2>3. \A i \in 1..0 : FALSE
    OBVIOUS
  <2>4. LogGood(0, <<>>, <<>>, {}, 0)
    <3>1. 0 \in 0..MaxRecords /\ 0 \in Nat /\ 0 <= 0
      BY <2>1
    <3> QED  BY <2>2, <2>3, <3>1 DEF LogGood
  <2> QED  BY <2>1, <2>4 DEF L!Init, LogInv
<1>2. LogInv /\ [PartsNext]_partsVars => LogInv'
  BY OnePartMoves, LogStep
<1> QED  BY <1>1, <1>2, LogInOrder, PTL DEF PartsSpec

-----------------------------------------------------------------------------
(* What a sequence holds, cut in two, joined or longer by one.             *)

Elems(s) == {s[i] : i \in DOMAIN s}
Distinct(s) == \A i, j \in DOMAIN s : s[i] = s[j] => i = j
Rising(s) == \A i, j \in DOMAIN s : i < j => s[i] < s[j]
Below(A, B) == \A x \in A, y \in B : x < y

LEMMA SequenceWords ==
  ASSUME NEW s
  PROVE  /\ F!Range(s) = Elems(s) /\ H!Range(s) = Elems(s) /\ I!Range(s) = Elems(s)
         /\ F!IsInjective(s) <=> Distinct(s)
         /\ I!IsInjective(s) <=> Distinct(s)
BY DEF F!Range, H!Range, I!Range, Elems, F!IsInjective, I!IsInjective, Distinct

LEMMA NothingInEmpty ==
  Elems(<<>>) = {} /\ Distinct(<<>>) /\ Rising(<<>>)
BY DEF Elems, Distinct, Rising

LEMMA Cut ==
  ASSUME NEW S, NEW s \in Seq(S), NEW n \in 0..Len(s)
  PROVE  /\ SubSeq(s, 1, n) \in Seq(S) /\ Len(SubSeq(s, 1, n)) = n
         /\ SubSeq(s, n + 1, Len(s)) \in Seq(S) /\ Len(SubSeq(s, n + 1, Len(s))) = Len(s) - n
         /\ Elems(s) = Elems(SubSeq(s, 1, n)) \cup Elems(SubSeq(s, n + 1, Len(s)))
         /\ Distinct(s) => /\ Distinct(SubSeq(s, 1, n)) /\ Distinct(SubSeq(s, n + 1, Len(s)))
                           /\ Elems(SubSeq(s, 1, n)) \cap Elems(SubSeq(s, n + 1, Len(s))) = {}
         /\ Rising(s) => /\ Rising(SubSeq(s, 1, n)) /\ Rising(SubSeq(s, n + 1, Len(s)))
                         /\ Below(Elems(SubSeq(s, 1, n)), Elems(SubSeq(s, n + 1, Len(s))))
<1> DEFINE l == Len(s)
           a == SubSeq(s, 1, n)
           b == SubSeq(s, n + 1, Len(s))
<1>0. l \in Nat /\ n \in Nat /\ n <= l /\ DOMAIN s = 1..l
  BY LenProperties
<1>1. a \in Seq(S) /\ Len(a) = n /\ \A i \in 1..n : a[i] = s[i]
  <2>1. \A i \in 1..n : s[i] \in S
    BY <1>0, ElementOfSeq
  <2>2. /\ a \in Seq(S) /\ Len(a) = IF 1 <= n THEN n - 1 + 1 ELSE 0
        /\ \A i \in 1..(n - 1 + 1) : a[i] = s[1 + i - 1]
    BY <1>0, <2>1, SubSeqProperties
  <2> QED  BY <1>0, <2>2
<1>2. b \in Seq(S) /\ Len(b) = l - n /\ \A i \in 1..(l - n) : b[i] = s[n + i]
  <2>1. \A i \in (n + 1)..l : s[i] \in S
    BY <1>0, ElementOfSeq
  <2>2. /\ b \in Seq(S) /\ Len(b) = IF n + 1 <= l THEN l - (n + 1) + 1 ELSE 0
        /\ \A i \in 1..(l - (n + 1) + 1) : b[i] = s[n + 1 + i - 1]
    BY <1>0, <2>1, SubSeqProperties
  <2> QED  BY <1>0, <2>2
<1>3. DOMAIN a = 1..n /\ DOMAIN b = 1..(l - n)
  BY <1>1, <1>2, LenProperties
<1> HIDE DEF l, a, b
<1>4. Elems(s) = Elems(a) \cup Elems(b)
  <2>1. ASSUME NEW x \in Elems(s) PROVE x \in Elems(a) \cup Elems(b)
    <3>1. PICK i \in 1..l : x = s[i]
      BY <1>0, <2>1 DEF Elems
    <3>2. CASE i <= n
      <4>1. i \in 1..n
        BY <1>0, <3>2
      <4> QED  BY <1>1, <1>3, <3>1, <4>1 DEF Elems
    <3>3. CASE i > n
      <4>1. i - n \in 1..(l - n) /\ n + (i - n) = i
        BY <1>0, <3>3
      <4>2. b[i - n] = x
        BY <1>2, <3>1, <4>1
      <4> QED  BY <1>3, <4>1, <4>2 DEF Elems
    <3> QED  BY <1>0, <3>2, <3>3
  <2>2. Elems(a) \subseteq Elems(s)
    <3>1. \A i \in 1..n : i \in 1..l
      BY <1>0
    <3> QED  BY <1>0, <1>1, <1>3, <3>1 DEF Elems
  <2>3. Elems(b) \subseteq Elems(s)
    <3>1. \A i \in 1..(l - n) : n + i \in 1..l
      BY <1>0
    <3> QED  BY <1>0, <1>2, <1>3, <3>1 DEF Elems
  <2> QED  BY <2>1, <2>2, <2>3
<1>5. ASSUME Distinct(s) PROVE Distinct(a) /\ Distinct(b) /\ Elems(a) \cap Elems(b) = {}
  <2>1. \A i \in 1..n : i \in DOMAIN s
    BY <1>0
  <2>2. \A i \in 1..(l - n) : n + i \in DOMAIN s
    BY <1>0
  <2>3. \A i \in 1..n, j \in 1..(l - n) : i # n + j
    BY <1>0
  <2>4. Distinct(a)
    BY <1>1, <1>3, <1>5, <2>1 DEF Distinct
  <2>5. Distinct(b)
    <3> SUFFICES ASSUME NEW i \in 1..(l - n), NEW j \in 1..(l - n), b[i] = b[j] PROVE i = j
      BY <1>3 DEF Distinct
    <3>1. n + i = n + j
      BY <1>2, <1>5, <2>2 DEF Distinct
    <3> QED  BY <1>0, <3>1
  <2>6. \A i \in DOMAIN a, j \in DOMAIN b : a[i] # b[j]
    BY <1>1, <1>2, <1>3, <1>5, <2>1, <2>2, <2>3 DEF Distinct
  <2>7. Elems(a) \cap Elems(b) = {}
    BY <2>6 DEF Elems
  <2> QED  BY <2>4, <2>5, <2>7
<1>6. ASSUME Rising(s) PROVE Rising(a) /\ Rising(b) /\ Below(Elems(a), Elems(b))
  <2>1. \A i \in 1..n : i \in DOMAIN s
    BY <1>0
  <2>2. \A i \in 1..(l - n) : n + i \in DOMAIN s
    BY <1>0
  <2>3. \A i \in 1..n, j \in 1..(l - n) : i < n + j
    BY <1>0
  <2>4. Rising(a)
    BY <1>1, <1>3, <1>6, <2>1 DEF Rising
  <2>5. Rising(b)
    <3> SUFFICES ASSUME NEW i \in 1..(l - n), NEW j \in 1..(l - n), i < j PROVE b[i] < b[j]
      BY <1>3 DEF Rising
    <3>1. n + i < n + j
      BY <1>0
    <3> QED  BY <1>2, <1>6, <2>2, <3>1 DEF Rising
  <2>6. \A i \in DOMAIN a, j \in DOMAIN b : a[i] < b[j]
    BY <1>1, <1>2, <1>3, <1>6, <2>1, <2>2, <2>3 DEF Rising
  <2>7. Below(Elems(a), Elems(b))
    BY <2>6 DEF Elems, Below
  <2> QED  BY <2>4, <2>5, <2>7
<1> QED  BY <1>1, <1>2, <1>4, <1>5, <1>6 DEF l, a, b

LEMMA Join ==
  ASSUME NEW S, NEW s \in Seq(S), NEW t \in Seq(S)
  PROVE  /\ s \o t \in Seq(S) /\ Len(s \o t) = Len(s) + Len(t)
         /\ Elems(s \o t) = Elems(s) \cup Elems(t)
         /\ Distinct(s) /\ Distinct(t) /\ Elems(s) \cap Elems(t) = {} => Distinct(s \o t)
         /\ Rising(s) /\ Rising(t) /\ Below(Elems(s), Elems(t)) => Rising(s \o t)
<1> DEFINE l == Len(s)
           m == Len(t)
           c == s \o t
<1>0. l \in Nat /\ m \in Nat /\ DOMAIN s = 1..l /\ DOMAIN t = 1..m
  BY LenProperties
<1>1. /\ c \in Seq(S) /\ Len(c) = l + m
      /\ \A i \in 1..(l + m) : c[i] = IF i <= l THEN s[i] ELSE t[i - l]
  BY ConcatProperties
<1>2. DOMAIN c = 1..(l + m)
  BY <1>1, LenProperties
<1> HIDE DEF l, m, c
<1>3. \A i \in 1..l : i \in 1..(l + m) /\ c[i] = s[i]
  BY <1>0, <1>1
<1>4. \A i \in 1..m : l + i \in 1..(l + m) /\ c[l + i] = t[i]
  <2> SUFFICES ASSUME NEW i \in 1..m PROVE l + i \in 1..(l + m) /\ c[l + i] = t[i]
    OBVIOUS
  <2>1. l + i \in 1..(l + m) /\ ~(l + i <= l) /\ (l + i) - l = i
    BY <1>0
  <2> QED  BY <1>1, <2>1
<1>5. ASSUME NEW i \in 1..(l + m) PROVE i \in 1..l \/ \E j \in 1..m : i = l + j
  <2>1. i \in 1..l \/ (i - l \in 1..m /\ i = l + (i - l))
    BY <1>0
  <2> QED  BY <2>1
<1>6. Elems(c) = Elems(s) \cup Elems(t)
  <2>1. Elems(c) \subseteq Elems(s) \cup Elems(t)
    <3> SUFFICES ASSUME NEW i \in 1..(l + m) PROVE c[i] \in Elems(s) \cup Elems(t)
      BY <1>2 DEF Elems
    <3>1. CASE i \in 1..l
      BY <1>0, <1>3, <3>1 DEF Elems
    <3>2. ASSUME NEW j \in 1..m, i = l + j PROVE c[i] \in Elems(t)
      BY <1>0, <1>4, <3>2 DEF Elems
    <3> QED  BY <1>5, <3>1, <3>2
  <2>2. Elems(s) \subseteq Elems(c)
    BY <1>0, <1>2, <1>3 DEF Elems
  <2>3. Elems(t) \subseteq Elems(c)
    BY <1>0, <1>2, <1>4 DEF Elems
  <2> QED  BY <2>1, <2>2, <2>3
<1>7. ASSUME Distinct(s), Distinct(t), Elems(s) \cap Elems(t) = {} PROVE Distinct(c)
  <2>1. \A i \in 1..l, j \in 1..m : s[i] # t[j]
    BY <1>0, <1>7 DEF Elems
  <2>2. ASSUME NEW i \in 1..(l + m), NEW j \in 1..(l + m), c[i] = c[j] PROVE i = j
    <3>1. CASE i \in 1..l /\ j \in 1..l
      BY <1>0, <1>3, <1>7, <2>2, <3>1 DEF Distinct
    <3>2. ASSUME NEW x \in 1..m, i = l + x, NEW y \in 1..m, j = l + y PROVE i = j
      BY <1>0, <1>4, <1>7, <2>2, <3>2 DEF Distinct
    <3>3. ASSUME i \in 1..l, NEW y \in 1..m, j = l + y PROVE FALSE
      BY <1>3, <1>4, <2>1, <2>2, <3>3
    <3>4. ASSUME NEW x \in 1..m, i = l + x, j \in 1..l PROVE FALSE
      BY <1>3, <1>4, <2>1, <2>2, <3>4
    <3> QED  BY <1>5, <3>1, <3>2, <3>3, <3>4
  <2> QED  BY <1>2, <2>2 DEF Distinct
<1>8. ASSUME Rising(s), Rising(t), Below(Elems(s), Elems(t)) PROVE Rising(c)
  <2>1. \A i \in 1..l, j \in 1..m : s[i] < t[j]
    BY <1>0, <1>8 DEF Elems, Below
  <2>2. ASSUME NEW i \in 1..(l + m), NEW j \in 1..(l + m), i < j PROVE c[i] < c[j]
    <3>1. CASE i \in 1..l /\ j \in 1..l
      BY <1>0, <1>3, <1>8, <2>2, <3>1 DEF Rising
    <3>2. ASSUME NEW x \in 1..m, i = l + x, NEW y \in 1..m, j = l + y PROVE c[i] < c[j]
      <4>1. x < y
        BY <1>0, <2>2, <3>2
      <4> QED  BY <1>0, <1>4, <1>8, <3>2, <4>1 DEF Rising
    <3>3. ASSUME i \in 1..l, NEW y \in 1..m, j = l + y PROVE c[i] < c[j]
      BY <1>3, <1>4, <2>1, <3>3
    <3>4. ASSUME NEW x \in 1..m, i = l + x, j \in 1..l PROVE FALSE
      BY <1>0, <2>2, <3>4
    <3> QED  BY <1>5, <3>1, <3>2, <3>3, <3>4
  <2> QED  BY <1>2, <2>2 DEF Rising
<1> QED  BY <1>1, <1>6, <1>7, <1>8 DEF l, m, c

LEMMA One ==
  ASSUME NEW S, NEW s \in Seq(S), NEW e \in S
  PROVE  /\ Append(s, e) \in Seq(S) /\ Len(Append(s, e)) = Len(s) + 1 /\ Append(s, e) # <<>>
         /\ Elems(Append(s, e)) = Elems(s) \cup {e}
         /\ Distinct(s) /\ e \notin Elems(s) => Distinct(Append(s, e))
         /\ Rising(s) /\ Below(Elems(s), {e}) => Rising(Append(s, e))
<1> DEFINE t == <<e>>
           c == Append(s, e)
<1>1. t \in Seq(S) /\ Len(t) = 1 /\ Elems(t) = {e} /\ Distinct(t) /\ Rising(t) /\ c = s \o t
  BY DEF Elems, Distinct, Rising
<1>2. Len(s) \in Nat /\ Len(<<>>) = 0
  BY LenProperties
<1> HIDE DEF t, c
<1>3. /\ c \in Seq(S) /\ Len(c) = Len(s) + Len(t)
      /\ Elems(c) = Elems(s) \cup Elems(t)
      /\ Distinct(s) /\ Distinct(t) /\ Elems(s) \cap Elems(t) = {} => Distinct(c)
      /\ Rising(s) /\ Rising(t) /\ Below(Elems(s), Elems(t)) => Rising(c)
  <2>1. t \in Seq(S)
    BY <1>1
  <2>2. /\ s \o t \in Seq(S) /\ Len(s \o t) = Len(s) + Len(t)
        /\ Elems(s \o t) = Elems(s) \cup Elems(t)
        /\ Distinct(s) /\ Distinct(t) /\ Elems(s) \cap Elems(t) = {} => Distinct(s \o t)
        /\ Rising(s) /\ Rising(t) /\ Below(Elems(s), Elems(t)) => Rising(s \o t)
    BY <2>1, Join
  <2>3. c = s \o t
    BY <1>1
  <2> QED  BY <2>2, <2>3, Zenon
<1>4. Len(c) = Len(s) + 1 /\ c # <<>>
  BY <1>1, <1>2, <1>3
<1> QED  BY <1>1, <1>3, <1>4 DEF c

LEMMA OneMore ==
  ASSUME NEW S, NEW s \in Seq(S), NEW e \in S
  PROVE  \A x : x \in Elems(Append(s, e)) <=> x \in Elems(s) \/ x = e
<1> DEFINE t == <<e>>
           c == Append(s, e)
<1>1. t \in Seq(S) /\ Elems(t) = {e} /\ c = s \o t
  BY DEF Elems
<1> HIDE DEF t, c
<1>2. Elems(s \o t) = Elems(s) \cup Elems(t)
  BY <1>1, Join
<1>3. Elems(c) = Elems(s) \cup {e}
  BY <1>1, <1>2, Zenon
<1> QED  BY <1>3 DEF c

LEMMA ElemsIn ==
  ASSUME NEW S, NEW s \in Seq(S)
  PROVE  Elems(s) \subseteq S /\ (Elems(s) = {} => s = <<>>)
<1>1. Len(s) \in Nat /\ DOMAIN s = 1..Len(s) /\ \A i \in 1..Len(s) : s[i] \in S
  BY LenProperties, ElementOfSeq
<1>2. s # <<>> => 1 \in 1..Len(s)
  BY <1>1, EmptySeq
<1> QED  BY <1>1, <1>2 DEF Elems

-----------------------------------------------------------------------------
(* Forwarder.                                                              *)

\* Every event written is in exactly one of the queue, the batch, the
\* acknowledged and the dropped.
Accounted ==
  /\ Distinct(queue) /\ Distinct(batch) /\ Elems(queue) \cap Elems(batch) = {}
  /\ written = sent \cup dropped \cup (Elems(queue) \cup Elems(batch))
  /\ sent \cap dropped = {} /\ (sent \cup dropped) \cap (Elems(queue) \cup Elems(batch)) = {}

\* Central has gone through this event: it has its rows, or was refused one.
GoneThrough(e) == e \in denied \/ (e \in saved /\ rows[e] > 0)

\* An answer is to the batch under way, and follows the last of its rows.
AnswerIsTrue ==
  /\ reply \in {"none", "written", "cut"}
  /\ reply # "none" => stage = "posting"
  /\ reply = "written" => \A e \in Elems(batch) : GoneThrough(e)

ForwarderInv ==
  /\ F!TypeOK /\ \E k \in 0..MaxForwarded : written = 1..k
  /\ Accounted /\ AnswerIsTrue /\ F!SentIsStored /\ F!WaitsOnlyAfterFailure

LEMMA ForwarderConstants ==
  MaxForwarded \in Nat /\ Batch \in Nat \ {0} /\ ForwardRetries \in Nat
  /\ ForwardQueue \in Nat /\ ForwardQueue >= Batch
BY PartsConstants DEF F!ForwarderAssumption

\* A round of the drain: what was waiting is in the batch or still waits.
LEMMA DrainSplits ==
  ASSUME NEW q \in Seq(F!Event), Distinct(q), F!Drain(q)
  PROVE  /\ queue' \in Seq(F!Event) /\ batch' \in Seq(F!Event)
         /\ Distinct(queue') /\ Distinct(batch') /\ Elems(queue') \cap Elems(batch') = {}
         /\ Elems(q) = Elems(queue') \cup Elems(batch')
         /\ Len(batch') <= Batch /\ attempt' \in 0..ForwardRetries /\ stage' \in F!Stage
         /\ (stage' = "idle") = (batch' = <<>>) /\ (stage' = "idle" => queue' = <<>>)
<1> DEFINE n == IF Len(q) < Batch THEN Len(q) ELSE Batch
           a == batch'
           b == queue'
<1>0. Len(q) \in Nat /\ Batch \in Nat /\ Batch > 0 /\ ForwardRetries \in Nat
  BY ForwarderConstants, LenProperties
<1>1. n \in 0..Len(q) /\ n <= Batch /\ (n = 0 => Len(q) = 0)
  BY <1>0
<1>2. /\ a = SubSeq(q, 1, n) /\ b = SubSeq(q, Len(a) + 1, Len(q))
      /\ stage' = (IF q = <<>> THEN "idle" ELSE "posting") /\ attempt' = 0
  BY DEF F!Drain
<1> HIDE DEF n, a, b
<1>3. Len(a) = n
  BY <1>1, <1>2, Cut
<1>4. b = SubSeq(q, n + 1, Len(q))
  BY <1>2, <1>3
<1>5. /\ a \in Seq(F!Event) /\ b \in Seq(F!Event) /\ Len(b) = Len(q) - n
      /\ Elems(q) = Elems(a) \cup Elems(b)
      /\ Distinct(q) => Distinct(a) /\ Distinct(b) /\ Elems(a) \cap Elems(b) = {}
  BY <1>1, <1>2, <1>4, Cut
<1>6. q = <<>> <=> a = <<>>
  <2>1. q = <<>> => Len(q) = 0
    OBVIOUS
  <2>2. q # <<>> => n # 0
    BY <1>1, EmptySeq
  <2>3. Len(a) = 0 => a = <<>>
    BY <1>5, EmptySeq
  <2>4. a = <<>> => Len(a) = 0
    OBVIOUS
  <2> QED  BY <1>0, <1>1, <1>3, <2>1, <2>2, <2>3, <2>4
<1>7. q = <<>> => b = <<>>
  <2>1. q = <<>> => Len(q) = 0
    OBVIOUS
  <2>2. q = <<>> => Len(b) = 0
    BY <1>0, <1>1, <1>5, <2>1
  <2> QED  BY <1>5, <2>2, EmptySeq
<1>8. attempt' \in 0..ForwardRetries /\ stage' \in F!Stage /\ (stage' = "idle" <=> q = <<>>)
  BY <1>0, <1>2 DEF F!Stage
<1> QED  BY <1>1, <1>3, <1>5, <1>6, <1>7, <1>8 DEF a, b

\* What Central holds it keeps, and it goes through what it writes.
LEMMA PersistKeeps ==
  ASSUME rows \in [F!Event -> 0..2], NEW b \in Seq(F!Event), NEW n \in 0..Len(b),
         NEW half \in 0..1, F!Reached(b, n, half)
  PROVE  /\ rows' \in [F!Event -> 0..2]
         /\ \A e \in F!Event : GoneThrough(e) => GoneThrough(e)'
         /\ \A i \in 1..n : GoneThrough(b[i])'
<1>1. PICK no \in (SUBSET {b[i] : i \in 1..n + half}) \X (SUBSET {b[i] : i \in 1..n}) :
        F!Persist(b, n, half, no)
  BY DEF F!Reached
<1>2. /\ saved' = saved \cup ({b[i] : i \in 1..n + half} \ no[1])
      /\ rows' = [e \in F!Event |->
           IF rows[e] < 2 /\ e \notin no[2] /\ \E i \in 1..n : b[i] = e
           THEN rows[e] + 1 ELSE rows[e]]
      /\ denied' = denied \cup no[1] \cup no[2]
  BY <1>1 DEF F!Persist
<1>3. Len(b) \in Nat /\ n \in Nat /\ n <= Len(b) /\ half \in Nat
  BY LenProperties
<1>4. \A i \in 1..n : i \in 1..n + half /\ b[i] \in F!Event
  <2> SUFFICES ASSUME NEW i \in 1..n PROVE i \in 1..n + half /\ b[i] \in F!Event
    OBVIOUS
  <2>1. i \in 1..n + half /\ i \in 1..Len(b)
    BY <1>3
  <2> QED  BY <2>1, ElementOfSeq
<1>5. \A e \in F!Event : rows[e] \in Int /\ 0 <= rows[e] /\ rows[e] <= 2
  OBVIOUS
<1>6. \A e \in F!Event : rows'[e] \in 0..2 /\ (rows[e] > 0 => rows'[e] > 0)
  BY <1>2, <1>5
<1>7. \A e \in F!Event : GoneThrough(e) => GoneThrough(e)'
  <2> SUFFICES ASSUME NEW e \in F!Event, GoneThrough(e) PROVE GoneThrough(e)'
    OBVIOUS
  <2>1. (e \in denied => e \in denied') /\ (e \in saved => e \in saved')
    BY <1>2
  <2> QED  BY <1>6, <2>1 DEF GoneThrough
<1>8. \A i \in 1..n : GoneThrough(b[i])'
  <2> SUFFICES ASSUME NEW i \in 1..n, NEW e \in F!Event, b[i] = e, e \notin denied'
               PROVE  e \in saved' /\ rows'[e] > 0
    BY <1>4 DEF GoneThrough
  <2>1. e \notin no[1] /\ e \notin no[2] /\ e \in {b[m] : m \in 1..n + half}
    BY <1>2, <1>4
  <2>2. rows'[e] = IF rows[e] < 2 THEN rows[e] + 1 ELSE rows[e]
    BY <1>2, <2>1
  <2> QED  BY <1>2, <1>5, <2>1, <2>2
<1>9. rows' \in [F!Event -> 0..2]
  BY <1>2, <1>6
<1> QED  BY <1>7, <1>8, <1>9

\* The tables of Central stay, or a request is written to them so far.
Rewritten ==
  \/ UNCHANGED <<saved, rows, denied>>
  \/ \E b \in Seq(F!Event) : \E n \in 0..Len(b), half \in 0..1 : F!Reached(b, n, half)

\* What it has gone through is gone through.
LEMMA StoredStays ==
  ASSUME ForwarderInv, Rewritten
  PROVE  /\ rows' \in [F!Event -> 0..2]
         /\ sent \cup Elems(batch) \subseteq F!Event
         /\ \A e \in F!Event : GoneThrough(e) => GoneThrough(e)'
         /\ \A e \in sent : GoneThrough(e)'
<1>1. /\ rows \in [F!Event -> 0..2]
      /\ sent \cup Elems(batch) \subseteq F!Event
  <2>1. PICK k \in 0..MaxForwarded : written = 1..k
    BY DEF ForwarderInv
  <2>2. 1..k \subseteq F!Event
    BY ForwarderConstants DEF F!Event
  <2> QED  BY <2>1, <2>2 DEF ForwarderInv, Accounted, F!TypeOK
<1>2. \A e \in sent : GoneThrough(e)
  BY DEF ForwarderInv, F!SentIsStored, GoneThrough
<1>3. rows' \in [F!Event -> 0..2] /\ \A e \in F!Event : GoneThrough(e) => GoneThrough(e)'
  <2>1. CASE UNCHANGED <<saved, rows, denied>>
    BY <1>1, <2>1 DEF GoneThrough
  <2>2. ASSUME NEW b \in Seq(F!Event), NEW n \in 0..Len(b), NEW half \in 0..1, F!Reached(b, n, half)
        PROVE  rows' \in [F!Event -> 0..2] /\ \A e \in F!Event : GoneThrough(e) => GoneThrough(e)'
    BY <1>1, <2>2, PersistKeeps
  <2> QED  BY <2>1, <2>2 DEF Rewritten
<1> QED  BY <1>1, <1>2, <1>3

\* A step of Central, or an attempt that failed, seen from the Edge.
LEMMA SentStays ==
  ASSUME ForwarderInv, Rewritten, sent' = sent
  PROVE  F!SentIsStored' /\ rows' \in [F!Event -> 0..2]
<1>1. rows' \in [F!Event -> 0..2] /\ \A e \in sent : GoneThrough(e)'
  BY StoredStays
<1> QED  BY <1>1 DEF F!SentIsStored, GoneThrough

LEMMA ForwarderStep == ForwarderInv /\ [F!Next]_(F!vars) => ForwarderInv'
<1> SUFFICES ASSUME ForwarderInv, [F!Next]_(F!vars) PROVE ForwarderInv'
  OBVIOUS
<1>0. /\ phase \in {"up", "closing", "flushing", "down"} /\ stage \in F!Stage
      /\ queue \in Seq(F!Event) /\ batch \in Seq(F!Event) /\ late \in Seq(F!Event)
      /\ attempt \in 0..ForwardRetries
      /\ (stage = "idle") = (batch = <<>>) /\ Len(batch) <= Batch
      /\ rows \in [F!Event -> 0..2]
  BY DEF ForwarderInv, F!TypeOK
<1>1. Accounted /\ AnswerIsTrue /\ F!SentIsStored /\ F!WaitsOnlyAfterFailure
  BY DEF ForwarderInv
<1>2. PICK k \in 0..MaxForwarded : written = 1..k
  BY DEF ForwarderInv
<1>3. Elems(<<>>) = {} /\ Distinct(<<>>) /\ <<>> \in Seq(F!Event) /\ Len(<<>>) = 0
  BY NothingInEmpty
<1>4. ForwardRetries \in Nat /\ MaxForwarded \in Nat /\ k \in Nat /\ k <= MaxForwarded /\ Batch \in Nat
  BY ForwarderConstants
<1>5. ASSUME NEW e \in F!Event, F!Write(e) PROVE ForwarderInv'
  <2> DEFINE q == Append(queue, e)
  <2>1. /\ e = F!Cardinality(written) + 1 /\ written' = written \cup {e}
        /\ UNCHANGED <<phase, sent, dropped, failed, saved, rows, denied, late, reply>>
    BY <1>5 DEF F!Write, F!central, F!tables
  <2>2. F!Cardinality(written) = k
    <3>1. F!Cardinality(written) = Cardinality(written)
      BY DEF F!Cardinality, Cardinality
    <3>2. Cardinality(1..k) = k
      BY <1>4, FS_Interval
    <3> QED  BY <1>2, <3>1, <3>2
  <2>3. k + 1 \in 0..MaxForwarded /\ written' = 1..(k + 1) /\ e \notin written
    <3>1. e = k + 1 /\ e \in 1..MaxForwarded
      BY <2>1, <2>2 DEF F!Event
    <3> QED  BY <1>2, <1>4, <2>1, <3>1
  <2>4. q \in Seq(F!Event) /\ q # <<>> /\ Elems(q) = Elems(queue) \cup {e} /\ Distinct(q)
    <3>1. e \notin Elems(queue) /\ Distinct(queue)
      BY <1>1, <2>3 DEF Accounted
    <3>2. /\ q \in Seq(F!Event) /\ Len(q) = Len(queue) + 1 /\ q # <<>>
          /\ Elems(q) = Elems(queue) \cup {e}
          /\ Distinct(queue) /\ e \notin Elems(queue) => Distinct(q)
      <4>1. PICK S : S = F!Event
        OBVIOUS
      <4>2. queue \in Seq(S) /\ e \in S
        BY <1>0, <4>1
      <4>3. q \in Seq(S) /\ Len(q) = Len(queue) + 1
        BY <4>2, One
      <4>4. q # <<>>
        BY <4>2, One
      <4>5. Elems(q) = Elems(queue) \cup {e}
        BY <4>2, OneMore
      <4>6. Distinct(queue) /\ e \notin Elems(queue) => Distinct(q)
        BY <4>2, One
      <4> QED  BY <4>1, <4>3, <4>4, <4>5, <4>6, Zenon
    <3> HIDE DEF q
    <3> QED  BY <3>1, <3>2
  <2> HIDE DEF q
  <2>5. CASE stage = "idle"
    <3>1. batch = <<>> /\ F!Drain(q)
      BY <1>0, <1>5, <2>5 DEF F!Write, q
    <3>2. /\ queue' \in Seq(F!Event) /\ batch' \in Seq(F!Event)
          /\ Distinct(queue') /\ Distinct(batch') /\ Elems(queue') \cap Elems(batch') = {}
          /\ Elems(q) = Elems(queue') \cup Elems(batch')
          /\ Len(batch') <= Batch /\ attempt' \in 0..ForwardRetries /\ stage' \in F!Stage
          /\ (stage' = "idle") = (batch' = <<>>) /\ (stage' = "idle" => queue' = <<>>)
      BY <2>4, <3>1, DrainSplits
    <3>3. Accounted'
      <4>1. Elems(queue') \cup Elems(batch') = Elems(queue) \cup {e} /\ Elems(batch) = {}
        BY <1>3, <2>4, <3>1, <3>2
      <4>2. written' = sent' \cup dropped' \cup (Elems(queue') \cup Elems(batch'))
        BY <1>1, <2>1, <4>1 DEF Accounted
      <4>3. sent' \cap dropped' = {} /\ e \notin sent' /\ e \notin dropped'
        BY <1>1, <2>1, <2>3 DEF Accounted
      <4>4. (sent' \cup dropped') \cap (Elems(queue') \cup Elems(batch')) = {}
        BY <1>1, <2>1, <4>1, <4>3 DEF Accounted
      <4> QED  BY <3>2, <4>2, <4>3, <4>4 DEF Accounted
    <3>4. AnswerIsTrue'
      BY <1>1, <2>1, <2>5 DEF AnswerIsTrue
    <3>5. F!TypeOK'
      BY <1>0, <2>1, <3>2, <3>4 DEF F!TypeOK, AnswerIsTrue
    <3> QED  BY <1>1, <2>1, <2>3, <3>2, <3>3, <3>4, <3>5
             DEF ForwarderInv, F!SentIsStored, F!WaitsOnlyAfterFailure
  <2>6. CASE stage # "idle"
    <3>1. queue' = q /\ UNCHANGED <<batch, attempt, stage>>
      BY <1>5, <2>6 DEF F!Write, q
    <3>2. Accounted'
      BY <1>1, <2>1, <2>3, <2>4, <3>1 DEF Accounted
    <3>3. AnswerIsTrue'
      BY <1>1, <2>1, <3>1 DEF AnswerIsTrue, GoneThrough
    <3>4. F!TypeOK'
      BY <1>0, <2>1, <2>4, <3>1, <3>3 DEF F!TypeOK, AnswerIsTrue
    <3> QED  BY <1>1, <2>1, <2>3, <2>6, <3>1, <3>2, <3>3, <3>4
             DEF ForwarderInv, F!SentIsStored, F!WaitsOnlyAfterFailure
  <2> QED  BY <2>5, <2>6
<1>6. CASE F!Posted
  <2>1. /\ reply = "written" /\ reply' = "none" /\ F!Drain(queue)
        /\ sent' = sent \cup Elems(batch)
        /\ UNCHANGED <<phase, written, dropped, late, saved, rows, denied>>
    BY <1>6, SequenceWords DEF F!Posted, F!tables
  <2>2. /\ queue' \in Seq(F!Event) /\ batch' \in Seq(F!Event)
        /\ Distinct(queue') /\ Distinct(batch') /\ Elems(queue') \cap Elems(batch') = {}
        /\ Elems(queue) = Elems(queue') \cup Elems(batch')
        /\ Len(batch') <= Batch /\ attempt' \in 0..ForwardRetries /\ stage' \in F!Stage
        /\ (stage' = "idle") = (batch' = <<>>) /\ (stage' = "idle" => queue' = <<>>)
    BY <1>0, <1>1, <2>1, DrainSplits DEF Accounted
  <2>3. Accounted'
    BY <1>1, <2>1, <2>2 DEF Accounted
  <2>4. AnswerIsTrue'
    BY <2>1 DEF AnswerIsTrue
  <2>5. F!SentIsStored'
    BY <1>1, <2>1 DEF F!SentIsStored, AnswerIsTrue, GoneThrough
  <2>6. F!TypeOK'
    BY <1>0, <2>1, <2>2 DEF F!TypeOK
  <2> QED  BY <1>2, <2>1, <2>2, <2>3, <2>4, <2>5, <2>6 DEF ForwarderInv, F!WaitsOnlyAfterFailure
<1>7. CASE F!Retry
  <2>1. /\ F!Unanswered /\ stage = "posting" /\ stage' = "waiting"
        /\ attempt' = attempt + 1 /\ attempt < ForwardRetries
        /\ UNCHANGED <<phase, queue, batch, written, sent, dropped, failed>>
    BY <1>7 DEF F!Retry
  <2>2. reply' = "none" /\ UNCHANGED <<saved, rows, denied>> /\ late' \in Seq(F!Event)
    BY <1>0, <2>1 DEF F!Unanswered, F!tables
  <2>3. attempt' \in 0..ForwardRetries /\ stage' \in F!Stage
    BY <1>0, <1>4, <2>1 DEF F!Stage
  <2>4. AnswerIsTrue' /\ F!SentIsStored'
    BY <1>1, <2>1, <2>2 DEF AnswerIsTrue, F!SentIsStored
  <2>5. F!TypeOK'
    BY <1>0, <2>1, <2>2, <2>3 DEF F!TypeOK
  <2> QED  BY <1>1, <1>2, <2>1, <2>4, <2>5
           DEF ForwarderInv, Accounted, F!WaitsOnlyAfterFailure
<1>8. CASE F!GiveUp
  <2> DEFINE overflow == Len(queue) + Len(batch) - ForwardQueue
             n == IF overflow > 0 THEN overflow ELSE 0
             out == SubSeq(queue, 1, n)
             in == SubSeq(queue, n + 1, Len(queue))
  <2>1. /\ F!Unanswered /\ stage = "posting"
        /\ dropped' = dropped \cup Elems(out) /\ queue' = in \o batch
        /\ batch' = <<>> /\ stage' = "idle" /\ attempt' = 0 /\ failed' = TRUE
        /\ UNCHANGED <<phase, written, sent>>
    BY <1>8, SequenceWords DEF F!GiveUp, F!Trim
  <2>2. reply' = "none" /\ UNCHANGED <<saved, rows, denied>> /\ late' \in Seq(F!Event)
    BY <1>0, <2>1 DEF F!Unanswered, F!tables
  <2>3. n \in 0..Len(queue)
    <3>1. Len(queue) \in Nat /\ Len(batch) \in Nat
      BY <1>0, LenProperties
    <3>2. Len(batch) <= ForwardQueue /\ ForwardQueue \in Nat
      BY <1>0, <1>4, <3>1, ForwarderConstants
    <3> QED  BY <3>1, <3>2
  <2> HIDE DEF n, out, in
  <2>4. /\ in \in Seq(F!Event) /\ Elems(queue) = Elems(out) \cup Elems(in)
        /\ Distinct(out) /\ Distinct(in) /\ Elems(out) \cap Elems(in) = {}
    BY <1>0, <1>1, <2>3, Cut DEF Accounted, out, in
  <2>5. /\ queue' \in Seq(F!Event) /\ Elems(queue') = Elems(in) \cup Elems(batch) /\ Distinct(queue')
    <3>1. Elems(in) \cap Elems(batch) = {} /\ Distinct(batch)
      BY <1>1, <2>4 DEF Accounted
    <3> QED  BY <1>0, <2>1, <2>4, <3>1, Join
  <2>6. Accounted'
    BY <1>1, <1>3, <2>1, <2>4, <2>5 DEF Accounted
  <2>7. F!TypeOK'
    <3>1. attempt' \in 0..ForwardRetries /\ stage' \in F!Stage /\ Len(batch') <= Batch
      BY <1>3, <1>4, <2>1 DEF F!Stage
    <3> QED  BY <1>0, <1>3, <2>1, <2>2, <2>5, <3>1 DEF F!TypeOK
  <2>8. AnswerIsTrue' /\ F!SentIsStored'
    BY <1>1, <2>1, <2>2 DEF AnswerIsTrue, F!SentIsStored
  <2> QED  BY <1>2, <2>1, <2>6, <2>7, <2>8 DEF ForwarderInv, F!WaitsOnlyAfterFailure
<1>9. CASE F!LateRequest
  <2>1. /\ late' = <<>>
        /\ UNCHANGED <<phase, queue, batch, attempt, stage, written, sent, dropped, failed, reply>>
    BY <1>9 DEF F!LateRequest, F!edge
  <2>2. Rewritten
    BY <1>0, <1>9 DEF F!LateRequest, Rewritten
  <2>3. F!SentIsStored' /\ rows' \in [F!Event -> 0..2]
    BY <2>1, <2>2, SentStays
  <2>4. AnswerIsTrue'
    <3>1. \A e \in F!Event : GoneThrough(e) => GoneThrough(e)'
      BY <2>2, StoredStays
    <3>2. Elems(batch) \subseteq F!Event
      BY <2>2, StoredStays
    <3> QED  BY <1>1, <2>1, <3>1, <3>2 DEF AnswerIsTrue
  <2>5. F!TypeOK'
    BY <1>0, <1>3, <2>1, <2>3, <2>4 DEF F!TypeOK, AnswerIsTrue
  <2> QED  BY <1>1, <1>2, <2>1, <2>3, <2>4, <2>5 DEF ForwarderInv, Accounted, F!WaitsOnlyAfterFailure
<1>10. CASE F!Handle
  <2>1. PICK n \in 0..Len(batch), half \in 0..1 :
           /\ F!Reached(batch, n, half)
           /\ reply' \in IF n = Len(batch) THEN {"written", "cut"} ELSE {"cut"}
    BY <1>10 DEF F!Handle
  <2>2. /\ stage = "posting"
        /\ UNCHANGED <<phase, queue, batch, attempt, stage, written, sent, dropped, failed, late>>
    BY <1>10 DEF F!Handle, F!edge
  <2>3. Rewritten
    BY <1>0, <2>1 DEF Rewritten
  <2>4. F!SentIsStored' /\ rows' \in [F!Event -> 0..2]
    BY <2>2, <2>3, SentStays
  <2>5. AnswerIsTrue'
    <3>1. PICK b \in Seq(F!Event) : b = batch
      BY <1>0
    <3>2. /\ \A i \in 1..n : GoneThrough(b[i])'
          /\ DOMAIN b = 1..Len(b)
      BY <1>0, <2>1, <3>1, PersistKeeps, LenProperties
    <3>3. n = Len(b) => \A e \in Elems(b) : GoneThrough(e)'
      BY <3>2 DEF Elems
    <3>4. batch' = b /\ (reply' = "written" => n = Len(b))
      BY <2>1, <2>2, <3>1
    <3> QED  BY <2>1, <2>2, <3>3, <3>4 DEF AnswerIsTrue
  <2>6. F!TypeOK'
    BY <1>0, <2>2, <2>4, <2>5 DEF F!TypeOK, AnswerIsTrue
  <2> QED  BY <1>1, <1>2, <2>2, <2>4, <2>5, <2>6 DEF ForwarderInv, Accounted, F!WaitsOnlyAfterFailure
<1>11. CASE F!Flush
  <2>1. phase' = "flushing" /\ UNCHANGED <<written, sent, dropped, failed, saved, rows, denied, late, reply>>
    BY <1>11 DEF F!Flush, F!central, F!tables
  <2>2. CASE stage = "idle"
    <3>1. batch = <<>> /\ F!Drain(queue)
      BY <1>0, <1>11, <2>2 DEF F!Flush
    <3>2. /\ queue' \in Seq(F!Event) /\ batch' \in Seq(F!Event)
          /\ Distinct(queue') /\ Distinct(batch') /\ Elems(queue') \cap Elems(batch') = {}
          /\ Elems(queue) = Elems(queue') \cup Elems(batch')
          /\ Len(batch') <= Batch /\ attempt' \in 0..ForwardRetries /\ stage' \in F!Stage
          /\ (stage' = "idle") = (batch' = <<>>) /\ (stage' = "idle" => queue' = <<>>)
      BY <1>0, <1>1, <3>1, DrainSplits DEF Accounted
    <3>3. Accounted'
      BY <1>1, <1>3, <2>1, <3>1, <3>2 DEF Accounted
    <3>4. AnswerIsTrue'
      BY <1>1, <2>1, <2>2 DEF AnswerIsTrue
    <3>5. F!TypeOK'
      BY <1>0, <2>1, <3>2, <3>4 DEF F!TypeOK, AnswerIsTrue
    <3> QED  BY <1>1, <1>2, <2>1, <3>2, <3>3, <3>4, <3>5
             DEF ForwarderInv, F!SentIsStored, F!WaitsOnlyAfterFailure
  <2>3. CASE stage # "idle"
    <3>1. UNCHANGED <<queue, batch, attempt, stage>>
      BY <1>11, <2>3 DEF F!Flush
    <3>2. AnswerIsTrue'
      BY <1>1, <2>1, <3>1 DEF AnswerIsTrue, GoneThrough
    <3> QED  BY <1>0, <1>1, <1>2, <2>1, <3>1, <3>2
             DEF ForwarderInv, F!TypeOK, AnswerIsTrue, Accounted, F!SentIsStored, F!WaitsOnlyAfterFailure
  <2> QED  BY <2>2, <2>3
<1>12. CASE F!BackoffEnds \/ F!Close \/ F!Exit \/ UNCHANGED F!vars
  <2>1. /\ UNCHANGED <<queue, batch, attempt, written, sent, dropped, failed, saved, rows, denied, late, reply>>
        /\ phase' \in {"up", "closing", "flushing", "down"} /\ stage' \in F!Stage
        /\ (stage' = "idle") = (stage = "idle") /\ (stage = "posting" => stage' = "posting")
    BY <1>0, <1>12 DEF F!BackoffEnds, F!Close, F!Exit, F!vars, F!edge, F!central, F!tables, F!Stage
  <2>2. AnswerIsTrue'
    BY <1>1, <2>1 DEF AnswerIsTrue, GoneThrough
  <2> QED  BY <1>0, <1>1, <1>2, <2>1, <2>2
           DEF ForwarderInv, F!TypeOK, AnswerIsTrue, Accounted, F!SentIsStored, F!WaitsOnlyAfterFailure
<1> QED  BY <1>5, <1>6, <1>7, <1>8, <1>9, <1>11, <1>12, <1>10 DEF F!Next

LEMMA ForwarderAccounts ==
  ForwarderInv => F!TypeOK /\ F!NothingVanishes /\ F!SentIsStored /\ F!WaitsOnlyAfterFailure
<1> SUFFICES ASSUME ForwarderInv PROVE F!NothingVanishes
  BY DEF ForwarderInv
<1> DEFINE all == queue \o batch
<1>1. queue \in Seq(F!Event) /\ batch \in Seq(F!Event) /\ Accounted
  BY DEF ForwarderInv, F!TypeOK
<1>2. Distinct(all) /\ Elems(all) = Elems(queue) \cup Elems(batch)
  BY <1>1, Join DEF Accounted
<1> HIDE DEF all
<1>3. F!IsInjective(all) /\ written = sent \cup dropped \cup F!Range(all)
  BY <1>1, <1>2, SequenceWords DEF Accounted
<1>4. ASSUME NEW e \in written
      PROVE  F!Cardinality({i \in {1, 2, 3} : e \in <<sent, dropped, F!Range(all)>>[i]}) = 1
  <2> DEFINE Places == <<sent, dropped, F!Range(all)>>
             W == {i \in {1, 2, 3} : e \in Places[i]}
  <2>1. Places[1] = sent /\ Places[2] = dropped /\ Places[3] = Elems(all)
    BY SequenceWords
  <2> HIDE DEF Places
  <2>2. W = {1} \/ W = {2} \/ W = {3}
    BY <1>1, <1>2, <1>4, <2>1 DEF Accounted
  <2>3. Cardinality(W) = 1
    BY <2>2, FS_Singleton
  <2>4. F!Cardinality(W) = Cardinality(W)
    BY DEF F!Cardinality, Cardinality
  <2> QED  BY <2>3, <2>4 DEF Places
<1> QED  BY <1>3, <1>4 DEF F!NothingVanishes, all

-----------------------------------------------------------------------------
(* SplunkHec.                                                              *)

\* The sent, the batch and the queue are in the order of acceptance, one after
\* the other, and what is in none of them is lost.
HecOrder ==
  /\ Rising(hecSent) /\ Rising(hecBatch) /\ Rising(hecQueue)
  /\ Below(Elems(hecSent), Elems(hecBatch)) /\ Below(Elems(hecSent), Elems(hecQueue))
  /\ Below(Elems(hecBatch), Elems(hecQueue))
  /\ 1..accepted = (Elems(hecSent) \cup Elems(hecBatch) \cup Elems(hecQueue)) \cup hecLost
  /\ hecLost \cap (Elems(hecSent) \cup Elems(hecBatch) \cup Elems(hecQueue)) = {}

HecShape ==
  /\ hecQueue \in Seq(Nat) /\ hecBatch \in Seq(Nat)
  /\ Len(hecQueue) <= HecQueue /\ Len(hecBatch) <= BatchSize /\ Len(hecBatch) <= HecQueue
  /\ hecAttempt \in 0..HecRetries /\ hecStage \in {"idle", "posting", "waiting"}
  /\ (hecStage = "idle") = (hecBatch = <<>>) /\ H!HecNeverStalls

HecInv ==
  /\ accepted \in 0..MaxAccepted /\ hecSent \in Seq(Nat)
  /\ HecShape /\ HecOrder

LEMMA HecConstants ==
  MaxAccepted \in Nat /\ HecQueue \in Nat /\ HecRetries \in Nat /\ BatchSize \in Nat \ {0}
BY PartsConstants DEF H!SplunkHecAssumption

LEMMA HecDrain ==
  ASSUME NEW q \in Seq(Nat), Rising(q), Len(q) <= HecQueue, H!Drain(q)
  PROVE  /\ HecShape' /\ Rising(hecQueue') /\ Rising(hecBatch')
         /\ Below(Elems(hecBatch'), Elems(hecQueue'))
         /\ Elems(q) = Elems(hecQueue') \cup Elems(hecBatch')
<1> DEFINE n == IF Len(q) < BatchSize THEN Len(q) ELSE BatchSize
           a == hecBatch'
           b == hecQueue'
<1>0. Len(q) \in Nat /\ BatchSize \in Nat /\ BatchSize > 0 /\ HecRetries \in Nat /\ HecQueue \in Nat
  BY HecConstants, LenProperties
<1>1. n \in 0..Len(q) /\ n <= BatchSize /\ n <= HecQueue /\ Len(q) - n <= HecQueue /\ (n = 0 => Len(q) - n = 0)
  BY <1>0
<1>2. /\ a = SubSeq(q, 1, n) /\ b = SubSeq(q, n + 1, Len(q))
      /\ hecStage' = (IF n = 0 THEN "idle" ELSE "posting") /\ hecAttempt' = 0
  BY DEF H!Drain
<1> HIDE DEF n, a, b
<1>3. /\ a \in Seq(Nat) /\ Len(a) = n /\ b \in Seq(Nat) /\ Len(b) = Len(q) - n
      /\ Elems(q) = Elems(a) \cup Elems(b)
      /\ Rising(a) /\ Rising(b) /\ Below(Elems(a), Elems(b))
  BY <1>1, <1>2, Cut
<1>4. (n = 0 <=> a = <<>>) /\ (n = 0 => b = <<>>)
  <2>1. Len(a) = 0 <=> a = <<>>
    BY <1>3, EmptySeq
  <2>2. Len(b) = 0 => b = <<>>
    BY <1>3, EmptySeq
  <2> QED  BY <1>1, <1>3, <2>1, <2>2
<1>5. hecAttempt' \in 0..HecRetries
  BY <1>0, <1>2
<1> QED  BY <1>1, <1>2, <1>3, <1>4, <1>5 DEF HecShape, H!HecNeverStalls, a, b

LEMMA ShedKeepsNewest ==
  ASSUME NEW q \in Seq(Nat), Rising(q), NEW max \in Nat
  PROVE  /\ H!Shed(q, max) \in Seq(Nat) /\ Rising(H!Shed(q, max))
         /\ Elems(H!Shed(q, max)) \subseteq Elems(q) /\ Len(H!Shed(q, max)) <= max
<1> DEFINE n == IF Len(q) > max THEN Len(q) - max ELSE 0
<1>0. Len(q) \in Nat
  BY LenProperties
<1>1. n \in 0..Len(q) /\ Len(q) - n <= max
  BY <1>0
<1>2. H!Shed(q, max) = SubSeq(q, n + 1, Len(q))
  BY <1>0 DEF H!Shed
<1> HIDE DEF n
<1>3. /\ SubSeq(q, n + 1, Len(q)) \in Seq(Nat) /\ Len(SubSeq(q, n + 1, Len(q))) = Len(q) - n
      /\ Rising(SubSeq(q, n + 1, Len(q))) /\ Elems(SubSeq(q, n + 1, Len(q))) \subseteq Elems(q)
  BY <1>1, Cut
<1> QED  BY <1>1, <1>2, <1>3

\* Of what waits some stays and the rest is lost; what is out is neither.
LEMMA ShedIsLost ==
  ASSUME NEW Out, NEW Waits, NEW Gone, NEW Stays, NEW Lost,
         Gone \cap (Out \cup Waits) = {}, Out \cap Waits = {}, Stays \subseteq Waits, Lost = Gone \cup (Waits \ Stays)
  PROVE  (Out \cup Waits) \cup Gone = (Out \cup Stays) \cup Lost /\ Lost \cap (Out \cup Stays) = {}
OBVIOUS

LEMMA HecApart ==
  ASSUME hecSent \in Seq(Nat), hecBatch \in Seq(Nat), HecOrder
  PROVE  /\ Elems(hecSent) \cap Elems(hecBatch) = {}
         /\ (Elems(hecSent) \cup Elems(hecBatch)) \cap Elems(hecQueue) = {}
<1>1. Elems(hecSent) \subseteq Nat /\ Elems(hecBatch) \subseteq Nat
  BY ElemsIn
<1> QED  BY <1>1 DEF HecOrder, Below

LEMMA HecStep == HecInv /\ [H!Next]_(H!vars) => HecInv'
<1> SUFFICES ASSUME HecInv, [H!Next]_(H!vars) PROVE HecInv'
  OBVIOUS
<1>0. /\ accepted \in Nat /\ accepted <= MaxAccepted /\ MaxAccepted \in Nat /\ HecRetries \in Nat /\ HecQueue \in Nat
      /\ hecSent \in Seq(Nat) /\ hecQueue \in Seq(Nat) /\ hecBatch \in Seq(Nat)
      /\ HecShape /\ HecOrder
  BY HecConstants DEF HecInv, HecShape
<1>1. Elems(<<>>) = {} /\ Rising(<<>>)
  BY NothingInEmpty
<1>2. ASSUME H!Accept PROVE HecInv'
  <2> DEFINE x == accepted + 1
             q == Append(hecQueue, x)
             newest == H!Shed(q, HecQueue)
  <2>1. /\ accepted' = x /\ accepted < MaxAccepted /\ hecSent' = hecSent
        /\ hecLost' = hecLost \cup (Elems(q) \ Elems(newest))
    BY <1>2, SequenceWords DEF H!Accept
  <2>2. /\ x \in Nat /\ accepted' \in 0..MaxAccepted /\ 1..x = (1..accepted) \cup {x} /\ x \notin 1..accepted
        /\ \A y \in 1..accepted : y < x
    BY <1>0, <2>1
  <2>3. Below(Elems(hecQueue), {x}) /\ Below(Elems(hecSent), {x}) /\ Below(Elems(hecBatch), {x})
    BY <1>0, <2>2 DEF HecOrder, Below
  <2> HIDE DEF x
  <2>4. q \in Seq(Nat) /\ Rising(q) /\ Elems(q) = Elems(hecQueue) \cup {x}
    <3>1. /\ q \in Seq(Nat) /\ Elems(q) = Elems(hecQueue) \cup {x}
          /\ Rising(hecQueue) /\ Below(Elems(hecQueue), {x}) => Rising(q)
      <4>1. PICK S : S = Nat
        OBVIOUS
      <4>2. hecQueue \in Seq(S) /\ x \in S
        BY <1>0, <2>2, <4>1
      <4>3. /\ q \in Seq(S) /\ Elems(q) = Elems(hecQueue) \cup {x}
            /\ Rising(hecQueue) /\ Below(Elems(hecQueue), {x}) => Rising(q)
        BY ONLY <4>2, One
      <4> QED  BY <4>1, <4>3
    <3> QED  BY <1>0, <2>3, <3>1 DEF HecOrder
  <2>5. newest \in Seq(Nat) /\ Rising(newest) /\ Elems(newest) \subseteq Elems(q) /\ Len(newest) <= HecQueue
    <3> HIDE DEF q
    <3> QED  BY <1>0, <2>4, ShedKeepsNewest
  <2>6. Below(Elems(hecSent), Elems(newest)) /\ Below(Elems(hecBatch), Elems(newest))
    BY <1>0, <2>3, <2>4, <2>5 DEF HecOrder, Below
  <2> DEFINE Out == Elems(hecSent) \cup Elems(hecBatch)
  <2>9. /\ 1..x = (Out \cup Elems(newest)) \cup hecLost'
        /\ hecLost' \cap (Out \cup Elems(newest)) = {}
    <3>1. Out \cap Elems(hecQueue) = {}
      BY <1>0, HecApart
    <3>2. 1..accepted = (Out \cup Elems(hecQueue)) \cup hecLost /\ hecLost \cap (Out \cup Elems(hecQueue)) = {}
      BY <1>0 DEF HecOrder
    <3> DEFINE Waits == Elems(q)
               Stays == Elems(newest)
    <3>3. Waits = Elems(hecQueue) \cup {x} /\ Stays \subseteq Waits /\ hecLost' = hecLost \cup (Waits \ Stays)
      BY <2>1, <2>4, <2>5
    <3> HIDE DEF Out, Waits, Stays
    <3>4. Out \cap Waits = {} /\ hecLost \cap (Out \cup Waits) = {} /\ 1..x = (Out \cup Waits) \cup hecLost
      BY <2>2, <3>1, <3>2, <3>3
    <3>5. 1..x = (Out \cup Stays) \cup hecLost' /\ hecLost' \cap (Out \cup Stays) = {}
      BY <3>3, <3>4, ShedIsLost
    <3> QED  BY <3>5 DEF Stays
  <2>7. CASE hecStage = "idle"
    <3>1. H!Drain(newest) /\ hecBatch = <<>>
      BY <1>0, <1>2, <2>7 DEF H!Accept, HecShape, x
    <3> HIDE DEF newest, q
    <3>2. /\ HecShape' /\ Rising(hecQueue') /\ Rising(hecBatch')
          /\ Below(Elems(hecBatch'), Elems(hecQueue'))
          /\ Elems(newest) = Elems(hecQueue') \cup Elems(hecBatch')
      BY <2>5, <3>1, HecDrain
    <3>3. Below(Elems(hecSent), Elems(hecQueue')) /\ Below(Elems(hecSent), Elems(hecBatch'))
      BY <2>6, <3>2 DEF Below
    <3>4. /\ 1..x = (Elems(hecSent) \cup Elems(hecBatch') \cup Elems(hecQueue')) \cup hecLost'
          /\ hecLost' \cap (Elems(hecSent) \cup Elems(hecBatch') \cup Elems(hecQueue')) = {}
      <4>1. Out = Elems(hecSent)
        BY <1>1, <3>1
      <4> QED  BY <2>9, <3>2, <4>1
    <3>5. HecOrder'
      BY <1>0, <2>1, <3>2, <3>3, <3>4 DEF HecOrder
    <3> QED  BY <1>0, <2>1, <2>2, <3>2, <3>5 DEF HecInv
  <2>8. CASE hecStage # "idle"
    <3>1. hecQueue' = newest /\ UNCHANGED <<hecBatch, hecAttempt, hecStage>>
      BY <1>2, <2>8 DEF H!Accept, x
    <3> HIDE DEF newest, q
    <3>2. HecShape'
      BY <1>0, <2>5, <2>8, <3>1 DEF HecShape, H!HecNeverStalls
    <3>3. /\ 1..x = (Elems(hecSent) \cup Elems(hecBatch) \cup Elems(newest)) \cup hecLost'
          /\ hecLost' \cap (Elems(hecSent) \cup Elems(hecBatch) \cup Elems(newest)) = {}
      BY <2>9
    <3>4. HecOrder'
      BY <1>0, <2>1, <2>5, <2>6, <3>1, <3>3 DEF HecOrder
    <3> QED  BY <1>0, <2>1, <2>2, <3>2, <3>4 DEF HecInv
  <2> QED  BY <2>7, <2>8
<1>3. CASE H!Sent
  <2>1. /\ hecSent' = hecSent \o hecBatch /\ H!Drain(hecQueue) /\ UNCHANGED <<accepted, hecLost>>
    BY <1>3 DEF H!Sent
  <2>2. Rising(hecQueue) /\ Len(hecQueue) <= HecQueue
    BY <1>0 DEF HecOrder, HecShape
  <2>3. /\ HecShape' /\ Rising(hecQueue') /\ Rising(hecBatch')
        /\ Below(Elems(hecBatch'), Elems(hecQueue'))
        /\ Elems(hecQueue) = Elems(hecQueue') \cup Elems(hecBatch')
    BY <1>0, <2>1, <2>2, HecDrain
  <2>4. hecSent' \in Seq(Nat) /\ Elems(hecSent') = Elems(hecSent) \cup Elems(hecBatch) /\ Rising(hecSent')
    <3>1. /\ hecSent \o hecBatch \in Seq(Nat)
          /\ Elems(hecSent \o hecBatch) = Elems(hecSent) \cup Elems(hecBatch)
          /\ Rising(hecSent) /\ Rising(hecBatch) /\ Below(Elems(hecSent), Elems(hecBatch)) => Rising(hecSent \o hecBatch)
      BY <1>0, Join
    <3> QED  BY <1>0, <2>1, <3>1 DEF HecOrder
  <2>5. Below(Elems(hecSent'), Elems(hecQueue')) /\ Below(Elems(hecSent'), Elems(hecBatch'))
    BY <1>0, <2>3, <2>4 DEF HecOrder, Below
  <2>6. /\ 1..accepted = (Elems(hecSent') \cup Elems(hecBatch') \cup Elems(hecQueue')) \cup hecLost
        /\ hecLost \cap (Elems(hecSent') \cup Elems(hecBatch') \cup Elems(hecQueue')) = {}
    BY <1>0, <2>3, <2>4 DEF HecOrder
  <2> QED  BY <1>0, <2>1, <2>3, <2>4, <2>5, <2>6 DEF HecInv, HecOrder
<1>4. CASE H!GiveUp
  <2> DEFINE newest == H!Shed(hecQueue, HecQueue - Len(hecBatch))
  <2>1. /\ hecLost' = hecLost \cup Elems(hecBatch) \cup (Elems(hecQueue) \ Elems(newest))
        /\ H!Drain(newest) /\ UNCHANGED <<accepted, hecSent>>
    BY <1>4, SequenceWords DEF H!GiveUp
  <2>2. HecQueue - Len(hecBatch) \in Nat /\ HecQueue - Len(hecBatch) <= HecQueue /\ Rising(hecQueue)
    <3>1. Len(hecBatch) \in Nat /\ Len(hecBatch) <= HecQueue
      BY <1>0, LenProperties DEF HecShape
    <3> QED  BY <1>0, <3>1 DEF HecOrder
  <2>3. newest \in Seq(Nat) /\ Rising(newest) /\ Elems(newest) \subseteq Elems(hecQueue)
        /\ Len(newest) <= HecQueue - Len(hecBatch)
    BY <1>0, <2>2, ShedKeepsNewest
  <2>4. Len(newest) \in Nat
    BY <2>3, LenProperties
  <2> HIDE DEF newest
  <2>5. Len(newest) <= HecQueue
    BY <1>0, <2>2, <2>3, <2>4
  <2>6. /\ HecShape' /\ Rising(hecQueue') /\ Rising(hecBatch')
        /\ Below(Elems(hecBatch'), Elems(hecQueue'))
        /\ Elems(newest) = Elems(hecQueue') \cup Elems(hecBatch')
    BY <2>1, <2>3, <2>5, HecDrain
  <2>7. Below(Elems(hecSent), Elems(hecQueue')) /\ Below(Elems(hecSent), Elems(hecBatch'))
    BY <1>0, <2>3, <2>6 DEF HecOrder, Below
  <2>8. /\ 1..accepted = (Elems(hecSent) \cup Elems(hecBatch') \cup Elems(hecQueue')) \cup hecLost'
        /\ hecLost' \cap (Elems(hecSent) \cup Elems(hecBatch') \cup Elems(hecQueue')) = {}
    <3> DEFINE Out == Elems(hecSent)
               Waits == Elems(hecBatch) \cup Elems(hecQueue)
               Stays == Elems(newest)
    <3>1. Out \cap Waits = {} /\ Elems(hecBatch) \cap Elems(hecQueue) = {}
      BY <1>0, HecApart
    <3>2. 1..accepted = (Out \cup Waits) \cup hecLost /\ hecLost \cap (Out \cup Waits) = {}
      BY <1>0 DEF HecOrder
    <3>3. Stays \subseteq Waits /\ hecLost' = hecLost \cup (Waits \ Stays)
      BY <2>1, <2>3, <3>1
    <3> HIDE DEF Out, Waits, Stays
    <3>4. 1..accepted = (Out \cup Stays) \cup hecLost' /\ hecLost' \cap (Out \cup Stays) = {}
      BY <3>1, <3>2, <3>3, ShedIsLost
    <3> QED  BY <2>6, <3>4 DEF Out, Stays
  <2> QED  BY <1>0, <2>1, <2>6, <2>7, <2>8 DEF HecInv, HecOrder
<1>5. CASE H!Retry \/ H!BackoffEnds \/ UNCHANGED H!vars
  <2>1. /\ UNCHANGED <<accepted, hecQueue, hecBatch, hecLost, hecSent>>
        /\ hecAttempt' \in 0..HecRetries /\ hecStage' \in {"idle", "posting", "waiting"}
        /\ (hecStage' = "idle") = (hecStage = "idle")
    BY <1>0, <1>5 DEF H!Retry, H!BackoffEnds, H!vars, HecShape
  <2> QED  BY <1>0, <2>1 DEF HecInv, HecShape, HecOrder, H!HecNeverStalls
<1> QED  BY <1>2, <1>3, <1>4, <1>5 DEF H!Next

LEMMA HecAccounts == HecInv => H!HecTypeOK /\ H!HecNeverStalls /\ H!HecInOrder
<1> SUFFICES ASSUME HecInv PROVE H!HecTypeOK /\ H!HecNeverStalls /\ H!HecInOrder
  OBVIOUS
<1> DEFINE s == hecSent \o hecBatch
           all == s \o hecQueue
<1>1. /\ hecSent \in Seq(Nat) /\ hecQueue \in Seq(Nat) /\ hecBatch \in Seq(Nat) /\ HecShape /\ HecOrder
  BY DEF HecInv, HecShape
<1>2. s \in Seq(Nat) /\ Elems(s) = Elems(hecSent) \cup Elems(hecBatch) /\ Rising(s)
  <2>1. /\ s \in Seq(Nat) /\ Elems(s) = Elems(hecSent) \cup Elems(hecBatch)
        /\ Rising(hecSent) /\ Rising(hecBatch) /\ Below(Elems(hecSent), Elems(hecBatch)) => Rising(s)
    BY <1>1, Join
  <2> QED  BY <1>1, <2>1 DEF HecOrder
<1> HIDE DEF s
<1>3. Elems(all) = Elems(s) \cup Elems(hecQueue) /\ Rising(all)
  <2>1. /\ Elems(all) = Elems(s) \cup Elems(hecQueue)
        /\ Rising(s) /\ Rising(hecQueue) /\ Below(Elems(s), Elems(hecQueue)) => Rising(all)
    <3>1. s \in Seq(Nat) /\ hecQueue \in Seq(Nat)
      BY <1>1, <1>2
    <3> QED  BY ONLY <3>1, Join
  <2>2. Below(Elems(s), Elems(hecQueue))
    BY <1>1, <1>2 DEF HecOrder, Below
  <2> QED  BY <1>1, <1>2, <2>1, <2>2 DEF HecOrder
<1> HIDE DEF all
<1>4. /\ \A i, j \in DOMAIN all : i < j => all[i] < all[j]
      /\ H!Range(all) \cap hecLost = {} /\ H!Range(all) \cup hecLost = 1..accepted
  BY <1>1, <1>2, <1>3, SequenceWords DEF HecOrder, Rising
<1>5. H!HecInOrder
  BY <1>4 DEF H!HecInOrder, all, s
<1> QED  BY <1>1, <1>5 DEF HecInv, HecShape, H!HecTypeOK

-----------------------------------------------------------------------------
(* Integrations.                                                           *)

\* A setting whose mark, if it has one, is of its own configuration.
GoodSetting ==
  {r \in [config : Config, enabled : BOOLEAN, verified : Config \cup {None}] :
     r.verified \in {None, r.config}}

Untouched == <<"none", 0>>

\* The tasks t of a connector and what it put aside, q.
ConnectorOK(t, q) ==
  /\ t \in [Bundle -> I!Task] /\ q \in Seq(Bundle) /\ Len(q) <= CtiQueue /\ Distinct(q)
  /\ \A e \in Bundle : e \in Elems(q) <=> t[e][1] = "queued"
  /\ (\E e \in Bundle : t[e][1] = "shed") => Len(q) = CtiQueue

\* A test under way holds such a setting too; an event goes to all connectors at
\* once, and to none that is not there.
IntegrationsInv ==
  /\ setting \in [Name -> GoodSetting \cup {None}]
  /\ test \in [Job -> [name : Name, setting : GoodSetting] \cup {None}]
  /\ connector \in [Name -> Config \cup {None}]
  /\ task \in [Name -> [Bundle -> I!Task]] /\ ctiQueue \in [Name -> Seq(Bundle)]
  /\ \A n \in Name : ConnectorOK(task[n], ctiQueue[n])
  /\ \A n \in Name, e \in Bundle : connector[n] = None => task[n][e] = Untouched
  /\ \A n, m \in Name, e \in Bundle :
       connector[n] # None /\ connector[m] # None /\ task[n][e] = Untouched => task[m][e] = Untouched

LEMMA Tasks ==
  /\ Untouched \in I!Task /\ Untouched[1] = "none"
  /\ <<"sent", 0>> \in I!Task /\ <<"queued", 0>> \in I!Task /\ <<"shed", 0>> \in I!Task
  /\ \A k \in 0..CtiRetries : <<"posting", k>> \in I!Task /\ <<"waiting", k>> \in I!Task
BY PartsConstants DEF I!Task, I!IntegrationsAssumption, Untouched

LEMMA TaskMoves ==
  ASSUME NEW t, NEW q, ConnectorOK(t, q), NEW e \in Bundle, t[e][1] # "queued",
         NEW v \in I!Task, v[1] # "queued", v[1] # "shed"
  PROVE  ConnectorOK([t EXCEPT ![e] = v], q)
<1> DEFINE u == [t EXCEPT ![e] = v]
<1>1. u \in [Bundle -> I!Task] /\ u[e] = v /\ \A x \in Bundle \ {e} : u[x] = t[x]
  BY DEF ConnectorOK
<1> HIDE DEF u
<1>2. \A x \in Bundle : x \in Elems(q) <=> u[x][1] = "queued"
  BY <1>1 DEF ConnectorOK
<1>3. (\E x \in Bundle : u[x][1] = "shed") => Len(q) = CtiQueue
  BY <1>1 DEF ConnectorOK
<1>4. ConnectorOK(u, q)
  BY <1>1, <1>2, <1>3 DEF ConnectorOK
<1> QED  BY <1>4 DEF u

LEMMA WithoutFirst ==
  ASSUME NEW S, NEW s \in Seq(S), s # <<>>, Distinct(s)
  PROVE  /\ Tail(s) \in Seq(S) /\ Len(Tail(s)) = Len(s) - 1 /\ Distinct(Tail(s))
         /\ Head(s) \in Elems(s) /\ Elems(Tail(s)) = Elems(s) \ {Head(s)}
<1> DEFINE t == Tail(s)
           h == Head(s)
<1>1. /\ h \in S /\ t \in Seq(S) /\ Len(t) = Len(s) - 1 /\ h = s[1]
      /\ \A i \in 1..Len(t) : t[i] = s[i + 1]
      /\ Len(s) \in Nat \ {0}
  BY HeadTailProperties, EmptySeq
<1>2. DOMAIN t = 1..Len(t) /\ DOMAIN s = 1..Len(s)
  BY <1>1, LenProperties
<1> HIDE DEF t, h
<1>3. 1 \in DOMAIN s /\ \A i \in DOMAIN t : i + 1 \in DOMAIN s /\ i + 1 # 1 /\ t[i] = s[i + 1]
  BY <1>1, <1>2
<1>4. \A i \in DOMAIN s : i # 1 => i - 1 \in DOMAIN t /\ t[i - 1] = s[i]
  <2> SUFFICES ASSUME NEW i \in DOMAIN s, i # 1 PROVE i - 1 \in DOMAIN t /\ t[i - 1] = s[i]
    OBVIOUS
  <2>1. i - 1 \in DOMAIN t /\ (i - 1) + 1 = i
    BY <1>1, <1>2
  <2> QED  BY <1>3, <2>1
<1>5. Distinct(t)
  <2> SUFFICES ASSUME NEW i \in DOMAIN t, NEW j \in DOMAIN t, t[i] = t[j] PROVE i = j
    BY DEF Distinct
  <2>1. i + 1 = j + 1
    BY <1>3 DEF Distinct
  <2> QED  BY <1>1, <1>2, <2>1
<1>6. Elems(t) = Elems(s) \ {h}
  <2>1. \A i \in DOMAIN t : t[i] \in Elems(s) /\ t[i] # h
    BY <1>1, <1>3 DEF Elems, Distinct
  <2>2. \A i \in DOMAIN s : s[i] = h \/ s[i] \in Elems(t)
    BY <1>1, <1>4 DEF Elems
  <2> QED  BY <2>1, <2>2 DEF Elems
<1> QED  BY <1>1, <1>3, <1>5, <1>6 DEF t, h, Elems

LEMMA PuttingAside ==
  ASSUME NEW t, NEW q, ConnectorOK(t, q), NEW e \in Bundle, t[e][1] = "posting"
  PROVE  ConnectorOK(
           [x \in Bundle |-> IF x = e THEN <<"queued", 0>>
              ELSE IF Len(q) >= CtiQueue /\ x = Head(q) THEN <<"shed", 0>> ELSE t[x]],
           Append(IF Len(q) >= CtiQueue THEN Tail(q) ELSE q, e))
<1> DEFINE full == Len(q) >= CtiQueue
           u == [x \in Bundle |-> IF x = e THEN <<"queued", 0>>
                                 ELSE IF full /\ x = Head(q) THEN <<"shed", 0>> ELSE t[x]]
<1> SUFFICES ConnectorOK(u, Append(IF full THEN Tail(q) ELSE q, e))
  OBVIOUS
<1>0. /\ t \in [Bundle -> I!Task] /\ q \in Seq(Bundle) /\ Len(q) <= CtiQueue /\ Len(q) \in Nat
      /\ CtiQueue \in Nat /\ CtiQueue # 0 /\ Distinct(q) /\ e \notin Elems(q)
      /\ \A x \in Bundle : x \in Elems(q) <=> t[x][1] = "queued"
      /\ (\E x \in Bundle : t[x][1] = "shed") => Len(q) = CtiQueue
  BY PartsConstants, LenProperties DEF ConnectorOK, I!IntegrationsAssumption
<1>1. u \in [Bundle -> I!Task] /\ \A x \in Bundle : u[x] = IF x = e THEN <<"queued", 0>>
                                     ELSE IF full /\ x = Head(q) THEN <<"shed", 0>> ELSE t[x]
  BY <1>0, Tasks
<1> HIDE DEF u
<1>2. CASE full
  <2> DEFINE r == Tail(q)
             c == Append(r, e)
  <2>1. Len(q) = CtiQueue /\ q # <<>>
    <3>1. Len(q) = CtiQueue
      BY <1>0, <1>2
    <3> QED  BY <1>0, <3>1
  <2>2. /\ r \in Seq(Bundle) /\ Len(r) = Len(q) - 1 /\ Distinct(r)
        /\ Head(q) \in Elems(q) /\ Elems(r) = Elems(q) \ {Head(q)}
    BY <1>0, <2>1, WithoutFirst
  <2> HIDE DEF r
  <2>3. c \in Seq(Bundle) /\ Len(c) = Len(r) + 1 /\ Elems(c) = Elems(r) \cup {e} /\ Distinct(c)
    <3>1. r \in Seq(Bundle) /\ Distinct(r) /\ e \notin Elems(r)
      BY <1>0, <2>2
    <3> QED  BY <3>1, One
  <2> HIDE DEF c
  <2>4. \A x \in Bundle : x \in Elems(c) <=> u[x][1] = "queued"
    <3> SUFFICES ASSUME NEW x \in Bundle PROVE x \in Elems(c) <=> u[x][1] = "queued"
      OBVIOUS
    <3>1. CASE x = e
      BY <1>1, <2>3, <3>1
    <3>2. CASE x # e /\ x = Head(q)
      BY <1>1, <1>2, <2>2, <2>3, <3>2
    <3>3. CASE x # e /\ x # Head(q)
      BY <1>0, <1>1, <2>2, <2>3, <3>3
    <3> QED  BY <3>1, <3>2, <3>3
  <2>5. Len(c) = CtiQueue /\ Distinct(c)
    BY <1>0, <2>1, <2>2, <2>3
  <2>6. ConnectorOK(u, c)
    BY <1>0, <1>1, <2>3, <2>4, <2>5 DEF ConnectorOK
  <2> QED  BY <1>2, <2>6 DEF c, r
<1>3. CASE ~full
  <2> DEFINE c == Append(q, e)
  <2>1. /\ c \in Seq(Bundle) /\ Len(c) = Len(q) + 1 /\ Elems(c) = Elems(q) \cup {e}
        /\ Distinct(q) /\ e \notin Elems(q) => Distinct(c)
    BY <1>0, One
  <2> HIDE DEF c
  <2>2. \A x \in Bundle : x \in Elems(c) <=> u[x][1] = "queued"
    BY <1>0, <1>1, <1>3, <2>1
  <2>3. Len(q) < CtiQueue /\ Len(c) <= CtiQueue
    BY <1>0, <1>3, <2>1
  <2>4. \A x \in Bundle : u[x][1] # "shed"
    <3>1. \A x \in Bundle : t[x][1] # "shed"
      BY <1>0, <2>3
    <3> QED  BY <1>1, <1>3, <3>1
  <2>5. ConnectorOK(u, c)
    BY <1>0, <1>1, <2>1, <2>2, <2>3, <2>4 DEF ConnectorOK
  <2> QED  BY <1>3, <2>5 DEF c
<1> QED  BY <1>2, <1>3

LEMMA NothingAside == ConnectorOK([e \in Bundle |-> Untouched], <<>>)
<1> DEFINE t == [e \in Bundle |-> Untouched]
<1>1. t \in [Bundle -> I!Task] /\ \A e \in Bundle : t[e][1] = "none"
  BY Tasks
<1>2. Len(<<>>) = 0 /\ <<>> \in Seq(Bundle) /\ Elems(<<>>) = {} /\ Distinct(<<>>) /\ 0 <= CtiQueue
  BY NothingInEmpty, PartsConstants DEF I!IntegrationsAssumption
<1> HIDE DEF t
<1>3. ConnectorOK(t, <<>>)
  BY <1>1, <1>2 DEF ConnectorOK
<1> QED  BY <1>3 DEF t

\* The routes leave the connectors alone, and a setting as good as it was: also
\* the end of a test, which puts back what the test had read.
LEMMA RoutesKeepSettings ==
  ASSUME IntegrationsInv,
         \/ \E n \in Name : I!Delete(n) \/ I!Enable(n) \/ \E c \in Config : I!Save(n, c)
         \/ \E j \in Job : (\E n \in Name : I!BeginTest(j, n)) \/ \E ok \in BOOLEAN : I!EndTest(j, ok)
  PROVE  /\ setting' \in [Name -> GoodSetting \cup {None}]
         /\ test' \in [Job -> [name : Name, setting : GoodSetting] \cup {None}]
         /\ UNCHANGED <<connector, task, ctiQueue>>
<1>0. /\ setting \in [Name -> GoodSetting \cup {None}]
      /\ test \in [Job -> [name : Name, setting : GoodSetting] \cup {None}]
  BY DEF IntegrationsInv
<1>1. ASSUME NEW n \in Name, NEW c \in Config, I!Save(n, c)
      PROVE  setting' \in [Name -> GoodSetting \cup {None}] /\ UNCHANGED <<test, connector, task, ctiQueue>>
  <2>1. [config |-> c, enabled |-> FALSE, verified |-> None] \in GoodSetting
    BY DEF GoodSetting
  <2> QED  BY <1>0, <1>1, <2>1 DEF I!Save, I!connectors
<1>2. ASSUME NEW n \in Name, I!Delete(n)
      PROVE  setting' \in [Name -> GoodSetting \cup {None}] /\ UNCHANGED <<test, connector, task, ctiQueue>>
  BY <1>0, <1>2 DEF I!Delete, I!connectors
<1>3. ASSUME NEW n \in Name, I!Enable(n)
      PROVE  setting' \in [Name -> GoodSetting \cup {None}] /\ UNCHANGED <<test, connector, task, ctiQueue>>
  <2> DEFINE r == setting[n]
  <2>1. /\ r \in GoodSetting /\ UNCHANGED <<test, connector, task, ctiQueue>>
        /\ setting' = [setting EXCEPT ![n] = [r EXCEPT !.enabled = ~@]]
    BY <1>0, <1>3 DEF I!Enable, I!connectors
  <2> HIDE DEF r
  <2>2. [r EXCEPT !.enabled = ~@] \in GoodSetting
    BY <2>1 DEF GoodSetting
  <2> QED  BY <1>0, <2>1, <2>2
<1>4. ASSUME NEW j \in Job, NEW n \in Name, I!BeginTest(j, n)
      PROVE  /\ test' \in [Job -> [name : Name, setting : GoodSetting] \cup {None}]
             /\ UNCHANGED <<setting, connector, task, ctiQueue>>
  <2>1. setting[n] \in GoodSetting
    BY <1>0, <1>4 DEF I!BeginTest
  <2> QED  BY <1>0, <1>4, <2>1 DEF I!BeginTest, I!connectors
<1>5. ASSUME NEW j \in Job, NEW ok \in BOOLEAN, I!EndTest(j, ok)
      PROVE  /\ setting' \in [Name -> GoodSetting \cup {None}]
             /\ test' \in [Job -> [name : Name, setting : GoodSetting] \cup {None}]
             /\ UNCHANGED <<connector, task, ctiQueue>>
  <2> DEFINE r == test[j].setting
             v == IF ok THEN [r EXCEPT !.verified = r.config] ELSE r
  <2>1. /\ test[j].name \in Name /\ r \in GoodSetting
        /\ setting' = [setting EXCEPT ![test[j].name] = v]
        /\ test' = [test EXCEPT ![j] = None] /\ UNCHANGED <<connector, task, ctiQueue>>
    BY <1>0, <1>5 DEF I!EndTest, I!connectors
  <2>2. v \in GoodSetting
    <3> HIDE DEF r
    <3>1. [r EXCEPT !.verified = r.config] \in GoodSetting
      BY <2>1 DEF GoodSetting
    <3> QED  BY <2>1, <3>1
  <2> HIDE DEF r, v
  <2> QED  BY <1>0, <2>1, <2>2
<1> QED  BY <1>0, <1>1, <1>2, <1>3, <1>4, <1>5

\* A step of one connector that leaves the untouched events so.
LEMMA ConnectorSteps ==
  ASSUME IntegrationsInv, NEW n \in Name, NEW t, NEW q, ConnectorOK(t, q),
         \A e \in Bundle : t[e] = Untouched <=> task[n][e] = Untouched,
         task' = [task EXCEPT ![n] = t], ctiQueue' = [ctiQueue EXCEPT ![n] = q],
         UNCHANGED <<setting, test, connector>>
  PROVE  IntegrationsInv'
<1>0. /\ task \in [Name -> [Bundle -> I!Task]] /\ ctiQueue \in [Name -> Seq(Bundle)]
      /\ \A m \in Name : ConnectorOK(task[m], ctiQueue[m])
      /\ \A m \in Name, e \in Bundle : connector[m] = None => task[m][e] = Untouched
      /\ \A l, m \in Name, e \in Bundle :
           connector[l] # None /\ connector[m] # None /\ task[l][e] = Untouched => task[m][e] = Untouched
  BY DEF IntegrationsInv
<1>1. t \in [Bundle -> I!Task] /\ q \in Seq(Bundle)
  BY DEF ConnectorOK
<1>2. /\ task' \in [Name -> [Bundle -> I!Task]] /\ ctiQueue' \in [Name -> Seq(Bundle)]
      /\ task'[n] = t /\ ctiQueue'[n] = q
      /\ \A m \in Name \ {n} : task'[m] = task[m] /\ ctiQueue'[m] = ctiQueue[m]
  BY <1>0, <1>1
<1>3. \A m \in Name : ConnectorOK(task'[m], ctiQueue'[m])
  <2> SUFFICES ASSUME NEW m \in Name PROVE ConnectorOK(task'[m], ctiQueue'[m])
    OBVIOUS
  <2>1. CASE m = n
    BY <1>2, <2>1
  <2>2. CASE m # n
    <3>1. task'[m] = task[m] /\ ctiQueue'[m] = ctiQueue[m] /\ ConnectorOK(task[m], ctiQueue[m])
      BY <1>0, <1>2, <2>2
    <3> QED  BY <3>1
  <2> QED  BY <2>1, <2>2
<1>4. \A m \in Name, e \in Bundle : task'[m][e] = Untouched <=> task[m][e] = Untouched
  BY <1>2
<1>5. \A m \in Name, e \in Bundle : connector'[m] = None => task'[m][e] = Untouched
  BY <1>0, <1>4
<1>6. \A l, m \in Name, e \in Bundle :
        connector'[l] # None /\ connector'[m] # None /\ task'[l][e] = Untouched => task'[m][e] = Untouched
  BY <1>0, <1>4
<1> QED  BY <1>2, <1>3, <1>5, <1>6 DEF IntegrationsInv, ConnectorOK

LEMMA TaskSteps ==
  ASSUME IntegrationsInv, NEW n \in Name, NEW e \in Bundle,
         task[n][e] # Untouched, task[n][e][1] # "queued",
         NEW v \in I!Task, v[1] \notin {"none", "queued", "shed"},
         task' = [task EXCEPT ![n][e] = v], UNCHANGED <<setting, test, connector, ctiQueue>>
  PROVE  IntegrationsInv'
<1> DEFINE t == [task[n] EXCEPT ![e] = v]
           q == ctiQueue[n]
<1>1. /\ task \in [Name -> [Bundle -> I!Task]] /\ ctiQueue \in [Name -> Seq(Bundle)]
      /\ ConnectorOK(task[n], q)
  BY DEF IntegrationsInv
<1>2. task' = [task EXCEPT ![n] = t] /\ ctiQueue' = [ctiQueue EXCEPT ![n] = q]
  BY <1>1
<1>3. ConnectorOK(t, q)
  <2> DEFINE s == task[n]
  <2>1. ConnectorOK(s, q) /\ s[e][1] # "queued" /\ v[1] # "queued" /\ v[1] # "shed"
    BY <1>1
  <2> HIDE DEF s, q
  <2>2. ConnectorOK([s EXCEPT ![e] = v], q)
    BY <2>1, TaskMoves
  <2> QED  BY <2>2 DEF s
<1>4. \A x \in Bundle : t[x] = Untouched <=> task[n][x] = Untouched
  <2>1. v # Untouched
    BY Tasks
  <2>2. t[e] = v /\ \A x \in Bundle \ {e} : t[x] = task[n][x]
    BY <1>1
  <2> QED  BY <2>1, <2>2
<1>5. UNCHANGED <<setting, test, connector>>
  OBVIOUS
<1> HIDE DEF t, q
<1> QED  BY <1>2, <1>3, <1>4, <1>5, ConnectorSteps, ZenonT(60)

LEMMA IntegrationsStep == IntegrationsInv /\ [I!Next]_(I!vars) => IntegrationsInv'
<1> SUFFICES ASSUME IntegrationsInv, [I!Next]_(I!vars) PROVE IntegrationsInv'
  OBVIOUS
<1>0. /\ setting \in [Name -> GoodSetting \cup {None}]
      /\ test \in [Job -> [name : Name, setting : GoodSetting] \cup {None}]
      /\ connector \in [Name -> Config \cup {None}]
      /\ task \in [Name -> [Bundle -> I!Task]] /\ ctiQueue \in [Name -> Seq(Bundle)]
      /\ \A m \in Name : ConnectorOK(task[m], ctiQueue[m])
      /\ \A m \in Name, e \in Bundle : connector[m] = None => task[m][e] = Untouched
      /\ \A l, m \in Name, e \in Bundle :
           connector[l] # None /\ connector[m] # None /\ task[l][e] = Untouched => task[m][e] = Untouched
  BY DEF IntegrationsInv
<1>1. CASE \/ \E n \in Name : I!Delete(n) \/ I!Enable(n) \/ \E c \in Config : I!Save(n, c)
           \/ \E j \in Job : (\E n \in Name : I!BeginTest(j, n)) \/ \E ok \in BOOLEAN : I!EndTest(j, ok)
  <2>1. /\ setting' \in [Name -> GoodSetting \cup {None}]
        /\ test' \in [Job -> [name : Name, setting : GoodSetting] \cup {None}]
        /\ UNCHANGED <<connector, task, ctiQueue>>
    BY <1>1, RoutesKeepSettings
  <2>2. /\ connector' \in [Name -> Config \cup {None}]
        /\ task' \in [Name -> [Bundle -> I!Task]] /\ ctiQueue' \in [Name -> Seq(Bundle)]
        /\ \A m \in Name, e \in Bundle : connector'[m] = None => task'[m][e] = Untouched
        /\ \A l, m \in Name, e \in Bundle :
             connector'[l] # None /\ connector'[m] # None /\ task'[l][e] = Untouched => task'[m][e] = Untouched
    BY <1>0, <2>1
  <2>3. (\A m \in Name : ConnectorOK(task[m], ctiQueue[m]))'
    BY <1>0, <2>1 DEF ConnectorOK
  <2> QED  BY <2>1, <2>2, <2>3 DEF IntegrationsInv
<1>2. CASE I!Boot
  <2> DEFINE t == [e \in Bundle |-> Untouched]
  <2>1. /\ connector' = [n \in Name |-> IF setting[n] # None /\ setting[n].enabled THEN setting[n].config ELSE None]
        /\ task' = [n \in Name |-> t] /\ ctiQueue' = [n \in Name |-> <<>>]
        /\ test' = [j \in Job |-> None] /\ setting' = setting
    BY <1>2 DEF I!Boot, I!Idle, I!Empty, Untouched
  <2>2. ConnectorOK(t, <<>>) /\ t \in [Bundle -> I!Task] /\ \A e \in Bundle : t[e] = Untouched
    BY NothingAside, Tasks
  <2> HIDE DEF t
  <2>3. /\ task' \in [Name -> [Bundle -> I!Task]] /\ ctiQueue' \in [Name -> Seq(Bundle)]
        /\ \A n \in Name : task'[n] = t /\ ctiQueue'[n] = <<>>
    BY <2>1, <2>2
  <2>4. connector' \in [Name -> Config \cup {None}]
    <3>1. \A n \in Name : setting[n] # None => setting[n].config \in Config
      BY <1>0 DEF GoodSetting
    <3> QED  BY <2>1, <3>1
  <2>5. test' \in [Job -> [name : Name, setting : GoodSetting] \cup {None}]
    BY <2>1
  <2>6. \A n \in Name : ConnectorOK(task'[n], ctiQueue'[n]) /\ \A e \in Bundle : task'[n][e] = Untouched
    BY <2>2, <2>3
  <2> QED  BY <1>0, <2>1, <2>3, <2>4, <2>5, <2>6 DEF IntegrationsInv, ConnectorOK
<1>3. ASSUME NEW e \in Bundle, I!Persist(e) PROVE IntegrationsInv'
  <2> DEFINE v == <<"posting", 0>>
  <2>1. /\ \E n \in Name : connector[n] # None /\ task[n][e] = Untouched
        /\ task' = [n \in Name |-> IF connector[n] # None THEN [task[n] EXCEPT ![e] = v] ELSE task[n]]
        /\ UNCHANGED <<setting, test, connector, ctiQueue>>
    BY <1>3 DEF I!Persist, I!settings, Untouched
  <2>2. \A n \in Name : task[n][e] = Untouched
    BY <1>0, <2>1
  <2>3. v \in I!Task /\ v[1] = "posting" /\ v # Untouched
    <3>1. 0 \in 0..CtiRetries
      BY PartsConstants DEF I!IntegrationsAssumption
    <3>2. v[1] = "posting"
      OBVIOUS
    <3>3. v \in I!Task
      BY <3>1, Tasks
    <3> QED  BY <3>2, <3>3 DEF Untouched
  <2> HIDE DEF v
  <2>4. ASSUME NEW n \in Name
        PROVE  /\ task'[n] \in [Bundle -> I!Task] /\ ConnectorOK(task'[n], ctiQueue'[n])
               /\ connector[n] = None => task'[n] = task[n]
               /\ connector[n] # None => task'[n][e] = v /\ \A x \in Bundle \ {e} : task'[n][x] = task[n][x]
    <3> DEFINE s == task[n]
               q == ctiQueue[n]
    <3>1. s \in [Bundle -> I!Task] /\ ConnectorOK(s, q) /\ s[e][1] # "queued"
      BY <1>0, <2>2, Tasks
    <3>2. task'[n] = (IF connector[n] # None THEN [s EXCEPT ![e] = v] ELSE s) /\ ctiQueue'[n] = q
      BY <2>1
    <3> HIDE DEF s, q
    <3>3. ConnectorOK([s EXCEPT ![e] = v], q)
      BY <2>3, <3>1, TaskMoves
    <3>4. CASE connector[n] # None
      <4>1. task'[n] = [s EXCEPT ![e] = v]
        BY <3>2, <3>4
      <4> QED  BY <2>3, <3>1, <3>2, <3>3, <3>4, <4>1 DEF s
    <3>5. CASE connector[n] = None
      BY <3>1, <3>2, <3>5 DEF s
    <3> QED  BY <3>4, <3>5
  <2>5. task' \in [Name -> [Bundle -> I!Task]]
    <3>1. DOMAIN task' = Name /\ task' = [n \in Name |-> task'[n]]
      BY <2>1
    <3> QED  BY <2>4, <3>1
  <2>6. \A m \in Name, x \in Bundle : connector[m] = None => task'[m][x] = Untouched
    BY <1>0, <2>4
  <2>7. \A l, m \in Name, x \in Bundle :
          connector[l] # None /\ connector[m] # None /\ task'[l][x] = Untouched => task'[m][x] = Untouched
    <3> SUFFICES ASSUME NEW l \in Name, NEW m \in Name, NEW x \in Bundle, connector[l] # None,
                        connector[m] # None, task'[l][x] = Untouched
                 PROVE  task'[m][x] = Untouched
      OBVIOUS
    <3>1. x # e
      BY <2>3, <2>4
    <3> QED  BY <1>0, <2>4, <3>1
  <2> QED  BY <1>0, <2>1, <2>4, <2>5, <2>6, <2>7 DEF IntegrationsInv, ConnectorOK
<1>4. ASSUME NEW n \in Name, NEW e \in Bundle, I!Sent(n, e) \/ I!Fail(n, e) \/ I!PauseEnds(n, e)
      PROVE  IntegrationsInv'
  <2>1. /\ task[n][e][1] \in {"posting", "waiting"} /\ UNCHANGED <<setting, test, connector, ctiQueue>>
        /\ \E v \in I!Task : v[1] \notin {"none", "queued", "shed"} /\ task' = [task EXCEPT ![n][e] = v]
    <3>0. CtiRetries \in Nat
      BY PartsConstants DEF I!IntegrationsAssumption
    <3>1. CASE I!Sent(n, e)
      <4>1. <<"sent", 0>> \in I!Task /\ <<"sent", 0>>[1] = "sent"
        BY Tasks
      <4> QED  BY <3>1, <4>1 DEF I!Sent, I!settings
    <3>2. CASE I!Fail(n, e)
      <4>1. PICK k \in 0..CtiRetries - 1 :
              task[n][e] = <<"posting", k>> /\ task' = [task EXCEPT ![n][e] = <<"waiting", k>>]
        BY <3>2 DEF I!Fail
      <4>2. k \in 0..CtiRetries
        BY <3>0
      <4>3. <<"waiting", k>> \in I!Task
        BY <4>2, Tasks
      <4>4. <<"waiting", k>>[1] = "waiting" /\ <<"posting", k>>[1] = "posting"
        OBVIOUS
      <4> QED  BY <3>2, <4>1, <4>3, <4>4 DEF I!Fail, I!settings
    <3>3. CASE I!PauseEnds(n, e)
      <4>1. PICK k \in 0..CtiRetries - 1 :
              task[n][e] = <<"waiting", k>> /\ task' = [task EXCEPT ![n][e] = <<"posting", k + 1>>]
        BY <3>3 DEF I!PauseEnds
      <4>2. k + 1 \in 0..CtiRetries
        BY <3>0
      <4>3. <<"posting", k + 1>> \in I!Task /\ <<"posting", k + 1>>[1] = "posting" /\ <<"waiting", k>>[1] = "waiting"
        BY <4>2, Tasks
      <4> QED  BY <3>3, <4>1, <4>3 DEF I!PauseEnds, I!settings
    <3> QED  BY <1>4, <3>1, <3>2, <3>3
  <2>2. PICK v \in I!Task : v[1] \notin {"none", "queued", "shed"} /\ task' = [task EXCEPT ![n][e] = v]
    BY <2>1
  <2>3. task[n][e] # Untouched /\ task[n][e][1] # "queued"
    BY <2>1, Tasks
  <2> QED  BY <2>1, <2>2, <2>3, TaskSteps
<1>5. ASSUME NEW n \in Name, NEW e \in Bundle, I!PutAside(n, e) PROVE IntegrationsInv'
  <2> DEFINE s == task[n]
             q == ctiQueue[n]
             full == Len(q) >= CtiQueue
             t == [x \in Bundle |-> IF x = e THEN <<"queued", 0>>
                                   ELSE IF full /\ x = Head(q) THEN <<"shed", 0>> ELSE s[x]]
             c == Append(IF full THEN Tail(q) ELSE q, e)
  <2>1. /\ s[e] = <<"posting", CtiRetries>> /\ UNCHANGED <<setting, test, connector>>
        /\ ctiQueue' = [ctiQueue EXCEPT ![n] = c] /\ task' = [task EXCEPT ![n] = t]
    BY <1>0, <1>5 DEF I!PutAside, I!Enqueue, I!settings
  <2>2. s \in [Bundle -> I!Task] /\ ConnectorOK(s, q) /\ s[e][1] = "posting"
    BY <1>0, <2>1
  <2>3. \A x \in Bundle : t[x] = IF x = e THEN <<"queued", 0>>
                                 ELSE IF full /\ x = Head(q) THEN <<"shed", 0>> ELSE s[x]
    OBVIOUS
  <2> HIDE DEF s, q
  <2>4. ConnectorOK(t, c)
    BY <2>2, PuttingAside
  <2>5. full => Head(q) \in Elems(q)
    <3>1. q \in Seq(Bundle) /\ Distinct(q) /\ CtiQueue \in Nat \ {0} /\ Len(q) \in Nat
      BY <2>2, PartsConstants, LenProperties DEF ConnectorOK, I!IntegrationsAssumption
    <3>2. full => q # <<>>
      BY <3>1
    <3> QED  BY <3>1, <3>2, WithoutFirst
  <2> HIDE DEF t, c, full
  <2>6. \A x \in Bundle : t[x] = Untouched <=> s[x] = Untouched
    <3> SUFFICES ASSUME NEW x \in Bundle PROVE t[x] = Untouched <=> s[x] = Untouched
      OBVIOUS
    <3>1. CASE x = e
      <4>1. t[x] = <<"queued", 0>>
        BY <2>3, <3>1
      <4>2. t[x] # Untouched /\ s[x] # Untouched
        BY <2>2, <3>1, <4>1, Tasks
      <4> QED  BY <4>2
    <3>2. CASE x # e /\ full /\ x = Head(q)
      <4>1. t[x] = <<"shed", 0>> /\ s[x][1] = "queued"
        BY <2>2, <2>3, <2>5, <3>2 DEF ConnectorOK
      <4>2. t[x] # Untouched /\ s[x] # Untouched
        BY <4>1, Tasks
      <4> QED  BY <4>2
    <3>3. CASE x # e /\ ~(full /\ x = Head(q))
      BY <2>3, <3>3
    <3> QED  BY <3>1, <3>2, <3>3
  <2> QED  BY <2>1, <2>4, <2>6, ConnectorSteps DEF s
<1>6. CASE UNCHANGED I!vars
  BY <1>0, <1>6 DEF I!vars, IntegrationsInv, ConnectorOK
<1> QED  BY <1>1, <1>2, <1>3, <1>4, <1>5, <1>6 DEF I!Next

LEMMA IntegrationsAccount ==
  IntegrationsInv => I!IntegrationsTypeOK /\ I!VerifiedWasTested /\ I!QueuedIsKept
<1> SUFFICES ASSUME IntegrationsInv
             PROVE  I!IntegrationsTypeOK /\ I!VerifiedWasTested /\ I!QueuedIsKept
  OBVIOUS
<1>1. I!IntegrationsTypeOK /\ I!VerifiedWasTested
  <2>1. \A n \in Name : setting[n] # None => setting[n] \in GoodSetting
    BY DEF IntegrationsInv
  <2>2. \A n \in Name : Len(ctiQueue[n]) <= CtiQueue
    BY DEF IntegrationsInv, ConnectorOK
  <2> QED  BY <2>1, <2>2 DEF IntegrationsInv, I!IntegrationsTypeOK, I!VerifiedWasTested, GoodSetting
<1>2. ASSUME NEW n \in Name
      PROVE  /\ I!IsInjective(ctiQueue[n])
             /\ I!Range(ctiQueue[n]) = {e \in Bundle : task[n][e][1] = "queued"}
             /\ (\E e \in Bundle : task[n][e][1] = "shed") => Len(ctiQueue[n]) = CtiQueue
  <2> DEFINE t == task[n]
             q == ctiQueue[n]
  <2>1. ConnectorOK(t, q)
    BY DEF IntegrationsInv
  <2> HIDE DEF t, q
  <2>2. /\ q \in Seq(Bundle) /\ Distinct(q)
        /\ \A e \in Bundle : e \in Elems(q) <=> t[e][1] = "queued"
        /\ (\E e \in Bundle : t[e][1] = "shed") => Len(q) = CtiQueue
    BY <2>1 DEF ConnectorOK
  <2>3. Elems(q) = {e \in Bundle : t[e][1] = "queued"}
    BY <2>2, ElemsIn
  <2>4. I!IsInjective(q) /\ I!Range(q) = {e \in Bundle : t[e][1] = "queued"}
    BY <2>2, <2>3, SequenceWords
  <2> QED  BY <2>2, <2>4 DEF t, q
<1> QED  BY <1>1, <1>2 DEF I!QueuedIsKept

-----------------------------------------------------------------------------
\* An event is accounted for on its way out (central/forwarder.ts,
\* central/splunk-hec.ts, cti/connector.ts), whatever fails, is given up, shed
\* or put aside; and a setting marked verified was tested as it stands.
THEOREM ExportsAlwaysAccount == PartsSpec => []ExportsAccount
<1>1. PartsInit => ForwarderInv
  <2> SUFFICES ASSUME PartsInit PROVE ForwarderInv
    OBVIOUS
  <2>1. F!Init
    BY DEF PartsInit
  <2>2. /\ <<>> \in Seq(F!Event) /\ Elems(<<>>) = {} /\ Distinct(<<>>) /\ Len(<<>>) = 0
        /\ Batch \in Nat /\ 0 \in 0..ForwardRetries /\ 0 \in 0..MaxForwarded /\ 1..0 = {}
    BY NothingInEmpty, ForwarderConstants
  <2>3. F!TypeOK
    BY <2>1, <2>2 DEF F!Init, F!TypeOK, F!Stage
  <2>4. Accounted /\ AnswerIsTrue
    BY <2>1, <2>2 DEF F!Init, Accounted, AnswerIsTrue
  <2>5. \E k \in 0..MaxForwarded : written = 1..k
    BY <2>1, <2>2 DEF F!Init
  <2> QED  BY <2>1, <2>3, <2>4, <2>5 DEF F!Init, ForwarderInv, F!SentIsStored, F!WaitsOnlyAfterFailure
<1>2. PartsInit => HecInv
  <2> SUFFICES ASSUME PartsInit PROVE HecInv
    OBVIOUS
  <2>1. H!Init
    BY DEF PartsInit
  <2>2. /\ <<>> \in Seq(Nat) /\ Elems(<<>>) = {} /\ Rising(<<>>) /\ Len(<<>>) = 0
        /\ BatchSize \in Nat /\ HecQueue \in Nat /\ 0 \in 0..HecRetries /\ 0 \in 0..MaxAccepted /\ 1..0 = {}
    BY NothingInEmpty, HecConstants
  <2>3. HecShape
    BY <2>1, <2>2 DEF H!Init, HecShape, H!HecNeverStalls
  <2>4. HecOrder
    BY <2>1, <2>2 DEF H!Init, HecOrder, Below
  <2> QED  BY <2>1, <2>2, <2>3, <2>4 DEF H!Init, HecInv
<1>3. PartsInit => IntegrationsInv
  <2> SUFFICES ASSUME PartsInit PROVE IntegrationsInv
    OBVIOUS
  <2> DEFINE t == [e \in Bundle |-> Untouched]
  <2>1. /\ setting = [n \in Name |-> None] /\ test = [j \in Job |-> None] /\ connector = [n \in Name |-> None]
        /\ task = [n \in Name |-> t] /\ ctiQueue = [n \in Name |-> <<>>]
    BY DEF PartsInit, I!Init, I!Idle, I!Empty, Untouched
  <2>2. ConnectorOK(t, <<>>) /\ t \in [Bundle -> I!Task] /\ \A e \in Bundle : t[e] = Untouched
    BY NothingAside, Tasks
  <2> HIDE DEF t
  <2>3. /\ task \in [Name -> [Bundle -> I!Task]] /\ ctiQueue \in [Name -> Seq(Bundle)]
        /\ \A n \in Name : task[n] = t /\ ctiQueue[n] = <<>>
    BY <2>1, <2>2
  <2>4. \A n \in Name : ConnectorOK(task[n], ctiQueue[n]) /\ \A e \in Bundle : task[n][e] = Untouched
    BY <2>2, <2>3
  <2> QED  BY <2>1, <2>3, <2>4 DEF IntegrationsInv
<1>4. ForwarderInv /\ [PartsNext]_partsVars => ForwarderInv'
  BY OnePartMoves, ForwarderStep
<1>5. HecInv /\ [PartsNext]_partsVars => HecInv'
  BY OnePartMoves, HecStep
<1>6. IntegrationsInv /\ [PartsNext]_partsVars => IntegrationsInv'
  BY OnePartMoves, IntegrationsStep
<1>7. ForwarderInv /\ HecInv /\ IntegrationsInv => ExportsAccount
  BY ForwarderAccounts, HecAccounts, IntegrationsAccount DEF ExportsAccount
<1> QED  BY <1>1, <1>2, <1>3, <1>4, <1>5, <1>6, <1>7, PTL DEF PartsSpec

-----------------------------------------------------------------------------
(* NodeRecords.                                                            *)

LEMMA FlattenOne ==
  ASSUME NEW S, NEW s \in Seq(Seq(S)), Len(s) = 1
  PROVE  R!FlattenSeq(s) = s[1]
<1> DEFINE E(f) == [i \in 1..Len(s) |-> IF i = 1 THEN s[i] ELSE f[i - 1] \o s[i]]
           g == [i \in 1..Len(s) |-> s[1]]
           h == CHOOSE f : f = E(f)
<1>1. g = E(g)
  OBVIOUS
<1>2. h = E(h)
  BY <1>1
<1> HIDE DEF h
<1>3. h[1] = s[1]
  BY <1>2
<1>4. R!FlattenSeq(s) = h[1]
  BY DEF R!FlattenSeq, h
<1> QED  BY <1>3, <1>4

LEMMA FlattenTwo ==
  ASSUME NEW S, NEW s \in Seq(Seq(S)), Len(s) = 2
  PROVE  R!FlattenSeq(s) = s[1] \o s[2]
<1> DEFINE E(f) == [i \in 1..Len(s) |-> IF i = 1 THEN s[i] ELSE f[i - 1] \o s[i]]
           g == [i \in 1..Len(s) |-> IF i = 1 THEN s[1] ELSE s[1] \o s[2]]
           h == CHOOSE f : f = E(f)
<1>1. g = E(g)
  OBVIOUS
<1>2. h = E(h)
  BY <1>1
<1> HIDE DEF h
<1>3. h[1] = s[1] /\ h[2] = h[1] \o s[2]
  BY <1>2
<1>4. R!FlattenSeq(s) = h[2]
  BY DEF R!FlattenSeq, h
<1> QED  BY <1>3, <1>4

Statement == {"v2", "activity", "events", "envelope", "flags"} \X Nat

\* A statement that is still to be run.
Coming(x) == \E i \in 1..Len(todo) : todo[i] = x

\* An event and its envelope are one write, and the activity of later events
\* comes later.
InOrder ==
  /\ \A i \in 1..Len(todo) : todo[i][1] = "events" =>
       i < Len(todo) /\ todo[i + 1] = <<"envelope", todo[i][2]>>
  /\ \A i \in 1..Len(todo) : todo[i][1] = "envelope" =>
       \/ i = 1 /\ todo[1][2] \in table["events"]
       \/ i > 1 /\ todo[i - 1] = <<"events", todo[i][2]>>
  /\ \A i \in 1..Len(todo), e \in 1..Len(emitted) : todo[i][1] = "activity" /\ e > todo[i][2] =>
       \E j \in 1..Len(todo) : j > i /\ todo[j] = <<"activity", e>>

\* What EveryEventIsKept and ActivityIsNewest come to while statements wait.
KeptSoFar ==
  \A e \in 1..Len(emitted) : e \notin lost =>
    /\ e \in table["envelope"] \/ e \in memory["events"] \/ Coming(<<"envelope", e>>)
    /\ emitted[e].flag =>
         e \in table["flags"] \/ e \in memory["flags"] \/ Coming(<<"flags", e>>)
    /\ e \notin refused => e \in table["v2"] \/ Coming(<<"v2", e>>)

NewestSoFar ==
  \A e \in 1..Len(emitted) : e \notin lost /\ e \notin refused =>
    activity[R!Key(e)] >= e \/ Coming(<<"activity", e>>)

RecordsTypes ==
  /\ emitted \in Seq(R!Event) /\ Len(emitted) <= MaxEmitted
  /\ todo \in Seq(Statement) /\ \A i \in 1..Len(todo) : todo[i][2] \in 1..Len(emitted)
  /\ table \in [R!Tables -> SUBSET (1..Len(emitted))]
  /\ memory \in [{"events", "flags"} -> SUBSET Nat]
  /\ activity \in [Client \X BOOLEAN -> 0..MaxEmitted]

RecordsInv == RecordsTypes /\ InOrder /\ KeptSoFar /\ NewestSoFar /\ R!ServedIsRecorded

LEMMA EmittedKeys ==
  ASSUME emitted \in Seq(R!Event), NEW e \in 1..Len(emitted)
  PROVE  R!Key(e) \in Client \X BOOLEAN /\ emitted[e].flag \in BOOLEAN
<1>1. emitted[e] \in R!Event
  OBVIOUS
<1> QED  BY <1>1 DEF R!Key, R!Event

LEMMA HeadStatement ==
  ASSUME RecordsTypes, todo # <<>>
  PROVE  /\ Len(todo) \in Nat \ {0} /\ Head(todo) = todo[1] /\ todo[1] \in Statement
         /\ todo[1] = <<todo[1][1], todo[1][2]>> /\ todo[1][2] \in 1..Len(emitted)
         /\ Tail(todo) \in Seq(Statement) /\ Len(Tail(todo)) = Len(todo) - 1
         /\ \A i \in 1..(Len(todo) - 1) : Tail(todo)[i] = todo[i + 1]
<1>1. todo \in Seq(Statement) /\ Len(todo) \in Nat \ {0} /\ Head(todo) = todo[1]
  BY DEF RecordsTypes
<1>2. todo[1] \in Statement /\ todo[1][2] \in 1..Len(emitted)
  BY <1>1 DEF RecordsTypes
<1>3. todo[1] = <<todo[1][1], todo[1][2]>>
  BY <1>2 DEF Statement
<1> QED  BY <1>1, <1>2, <1>3

\* The first n statements have been run or refused.
LEMMA Popped ==
  ASSUME RecordsTypes, InOrder, NEW n \in 1..2, n <= Len(todo), UNCHANGED emitted,
         todo' \in Seq(Statement), Len(todo') = Len(todo) - n,
         \A i \in 1..Len(todo') : todo'[i] = todo[i + n],
         table["events"] \subseteq table'["events"],
         todo[n][1] = "events" => todo[n][2] \in table'["events"]
  PROVE  /\ InOrder'
         /\ \A i \in 1..Len(todo') : todo'[i][2] \in 1..Len(emitted')
         /\ \A x : Coming(x)' => Coming(x)
         /\ \A x : Coming(x) => Coming(x)' \/ x = todo[1] \/ (n = 2 /\ x = todo[2])
<1>1. Len(todo) \in Nat /\ Len(emitted) \in Nat
  BY DEF RecordsTypes
<1>2. ASSUME NEW i \in 1..Len(todo'), todo'[i][1] = "events"
      PROVE  i < Len(todo') /\ todo'[i + 1] = <<"envelope", todo'[i][2]>>
  <2>1. i + n \in 1..Len(todo) /\ todo'[i] = todo[i + n]
    BY <1>1, <1>2
  <2>2. i + n < Len(todo) /\ todo[i + n + 1] = <<"envelope", todo[i + n][2]>>
    BY <2>1, <1>2 DEF InOrder
  <2>3. i < Len(todo') /\ todo'[i + 1] = todo[(i + 1) + n] /\ (i + 1) + n = i + n + 1
    BY <1>1, <2>2
  <2> QED  BY <2>1, <2>2, <2>3
<1>3. ASSUME NEW i \in 1..Len(todo'), todo'[i][1] = "envelope"
      PROVE  \/ i = 1 /\ todo'[1][2] \in table'["events"]
             \/ i > 1 /\ todo'[i - 1] = <<"events", todo'[i][2]>>
  <2>1. i + n \in 1..Len(todo) /\ todo'[i] = todo[i + n] /\ i + n > 1
    BY <1>1, <1>3
  <2>2. todo[i + n - 1] = <<"events", todo[i + n][2]>>
    BY <2>1, <1>3 DEF InOrder
  <2>3. CASE i = 1
    <3>1. todo[n] = <<"events", todo'[1][2]>>
      BY <2>1, <2>2, <2>3
    <3> QED  BY <2>3, <3>1
  <2>4. CASE i > 1
    <3>1. i - 1 \in 1..Len(todo') /\ (i - 1) + n = i + n - 1
      BY <2>4
    <3> QED  BY <2>1, <2>2, <2>4, <3>1
  <2> QED  BY <2>3, <2>4
<1>4. ASSUME NEW i \in 1..Len(todo'), NEW e \in 1..Len(emitted),
             todo'[i][1] = "activity", e > todo'[i][2]
      PROVE  \E j \in 1..Len(todo') : j > i /\ todo'[j] = <<"activity", e>>
  <2>1. i + n \in 1..Len(todo) /\ todo'[i] = todo[i + n]
    BY <1>1, <1>4
  <2>2. PICK j \in 1..Len(todo) : j > i + n /\ todo[j] = <<"activity", e>>
    BY <2>1, <1>4 DEF InOrder
  <2>3. j - n \in 1..Len(todo') /\ j - n > i /\ (j - n) + n = j
    BY <1>1, <2>2
  <2> QED  BY <2>2, <2>3
<1>5. \A i \in 1..Len(todo') : todo'[i][2] \in 1..Len(emitted)
  <2> TAKE i \in 1..Len(todo')
  <2>1. i + n \in 1..Len(todo)
    BY <1>1
  <2> QED  BY <2>1 DEF RecordsTypes
<1>6. ASSUME NEW x, Coming(x)' PROVE Coming(x)
  <2>1. PICK i \in 1..Len(todo') : todo'[i] = x
    BY <1>6 DEF Coming
  <2>2. i + n \in 1..Len(todo)
    BY <1>1
  <2> QED  BY <2>1, <2>2 DEF Coming
<1>7. ASSUME NEW x, Coming(x), x # todo[1], ~(n = 2 /\ x = todo[2]) PROVE Coming(x)'
  <2>1. PICK i \in 1..Len(todo) : todo[i] = x
    BY <1>7 DEF Coming
  <2>2. i - n \in 1..Len(todo') /\ (i - n) + n = i
    BY <1>1, <1>7, <2>1
  <2> QED  BY <2>1, <2>2 DEF Coming
<1>8. InOrder'
  BY <1>2, <1>3, <1>4 DEF InOrder
<1> QED  BY <1>5, <1>6, <1>7, <1>8

LEMMA RecordsConstant == MaxEmitted \in Nat
BY PartsConstants DEF R!NodeRecordsAssumption

LEMMA TailFacts ==
  ASSUME NEW S, NEW q \in Seq(S), Len(q) # 0
  PROVE  /\ Tail(q) \in Seq(S) /\ Len(Tail(q)) = Len(q) - 1
         /\ \A i \in 1..(Len(q) - 1) : Tail(q)[i] = q[i + 1]
OBVIOUS

LEMMA WriteRecords ==
  ASSUME RecordsInv, R!Write
  PROVE  RecordsInv'
<1> DEFINE t == todo[1][1]
           d == todo[1][2]
<1>0. RecordsTypes /\ InOrder /\ KeptSoFar /\ NewestSoFar /\ R!ServedIsRecorded
  BY DEF RecordsInv
<1>1. /\ Len(todo) \in Nat \ {0} /\ Head(todo) = todo[1] /\ todo[1] \in Statement
      /\ todo[1] = <<t, d>> /\ d \in 1..Len(emitted)
      /\ Tail(todo) \in Seq(Statement) /\ Len(Tail(todo)) = Len(todo) - 1
      /\ \A i \in 1..(Len(todo) - 1) : Tail(todo)[i] = todo[i + 1]
  BY <1>0, HeadStatement DEF R!Write
<1>2. /\ todo' = Tail(todo) /\ UNCHANGED <<emitted, memory, lost, refused>>
      /\ t = "activity" => activity' = [activity EXCEPT ![R!Key(d)] = d] /\ UNCHANGED table
      /\ t # "activity" => table' = [table EXCEPT ![t] = @ \cup {d}] /\ UNCHANGED activity
  BY <1>1 DEF R!Write, R!WriteActivity
<1>3. table \in [R!Tables -> SUBSET (1..Len(emitted))] /\ emitted \in Seq(R!Event)
      /\ activity \in [Client \X BOOLEAN -> 0..MaxEmitted] /\ Len(emitted) <= MaxEmitted
      /\ Len(emitted) \in Nat /\ MaxEmitted \in Nat
  BY <1>0, RecordsConstant DEF RecordsTypes
<1>4. t \in {"v2", "activity", "events", "envelope", "flags"}
  BY <1>1 DEF Statement
<1> HIDE DEF t, d
<1>5. /\ table' \in [R!Tables -> SUBSET (1..Len(emitted))]
      /\ \A u \in R!Tables : table[u] \subseteq table'[u]
      /\ t # "activity" => d \in table'[t]
      /\ \A u \in R!Tables : u # t => table'[u] = table[u]
      /\ \A u \in R!Tables : table'[u] \subseteq table[u] \cup {d}
  BY <1>1, <1>2, <1>3, <1>4 DEF R!Tables
<1>6. /\ InOrder' /\ \A i \in 1..Len(todo') : todo'[i][2] \in 1..Len(emitted')
      /\ \A x : Coming(x)' => Coming(x)
      /\ \A x : Coming(x) => Coming(x)' \/ x = todo[1]
  <2>1. table["events"] \subseteq table'["events"]
    BY <1>5 DEF R!Tables
  <2>2. todo[1][1] = "events" => todo[1][2] \in table'["events"]
    BY <1>5 DEF t, d
  <2>3. 1 \in 1..2 /\ 1 <= Len(todo) /\ todo' \in Seq(Statement) /\ Len(todo') = Len(todo) - 1
        /\ \A i \in 1..Len(todo') : todo'[i] = todo[i + 1]
    BY <1>1, <1>2
  <2> HIDE DEF Coming, InOrder, RecordsTypes
  <2> QED  BY <1>0, <1>2, <2>1, <2>2, <2>3, Popped
<1>7. /\ activity' \in [Client \X BOOLEAN -> 0..MaxEmitted]
      /\ t = "activity" => activity'[R!Key(d)] = d
      /\ \A k \in Client \X BOOLEAN : k # R!Key(d) => activity'[k] = activity[k]
      /\ t # "activity" => activity' = activity
  <2>1. R!Key(d) \in Client \X BOOLEAN /\ d \in 0..MaxEmitted
    BY <1>1, <1>3, EmittedKeys
  <2> QED  BY <1>2, <1>3, <2>1
<1>8. RecordsTypes'
  BY <1>0, <1>1, <1>2, <1>3, <1>5, <1>6, <1>7 DEF RecordsTypes
<1>9. KeptSoFar'
  <2> SUFFICES ASSUME NEW e \in 1..Len(emitted), e \notin lost
      PROVE  /\ e \in table'["envelope"] \/ e \in memory["events"] \/ Coming(<<"envelope", e>>)'
             /\ emitted[e].flag =>
                  e \in table'["flags"] \/ e \in memory["flags"] \/ Coming(<<"flags", e>>)'
             /\ e \notin refused => e \in table'["v2"] \/ Coming(<<"v2", e>>)'
    BY <1>2 DEF KeptSoFar
  <2>1. ASSUME NEW u \in R!Tables, Coming(<<u, e>>) PROVE Coming(<<u, e>>)' \/ e \in table'[u]
    <3>1. CASE <<u, e>> = todo[1]
      <4>1. u = t /\ e = d /\ t # "activity"
        BY <1>1, <3>1 DEF R!Tables
      <4> QED  BY <1>5, <4>1
    <3> QED  BY <1>6, <2>1, <3>1
  <2> QED  BY <1>0, <1>5, <2>1 DEF KeptSoFar, R!Tables
<1>10. NewestSoFar'
  <2> SUFFICES ASSUME NEW e \in 1..Len(emitted), e \notin lost, e \notin refused
               PROVE  activity'[R!Key(e)] >= e \/ Coming(<<"activity", e>>)'
    BY <1>2 DEF NewestSoFar, R!Key
  <2>1. activity[R!Key(e)] >= e \/ Coming(<<"activity", e>>)
    BY <1>0 DEF NewestSoFar
  <2>2. R!Key(e) \in Client \X BOOLEAN
    BY <1>3, EmittedKeys
  <2>3. CASE t # "activity"
    <3>1. <<"activity", e>> # todo[1]
      BY <1>1, <2>3
    <3> QED  BY <1>6, <1>7, <2>1, <2>3, <3>1
  <2>4. CASE t = "activity" /\ e > d
    <3>1. todo[1][1] = "activity" /\ e > todo[1][2] /\ 1 \in 1..Len(todo)
      BY <1>1, <2>4 DEF t, d
    <3>2. PICK j \in 1..Len(todo) : j > 1 /\ todo[j] = <<"activity", e>>
      BY <1>0, <3>1 DEF InOrder
    <3>3. <<"activity", e>> # todo[1]
      BY <1>1, <2>4
    <3> QED  BY <1>6, <3>2, <3>3 DEF Coming
  <2>5. CASE t = "activity" /\ e = d
    BY <1>7, <2>5
  <2>6. CASE t = "activity" /\ e < d
    <3>1. <<"activity", e>> # todo[1]
      BY <1>1, <2>6
    <3>2. CASE R!Key(e) = R!Key(d)
      BY <1>1, <1>7, <2>6, <3>2
    <3>3. CASE R!Key(e) # R!Key(d)
      BY <1>6, <1>7, <2>1, <2>2, <3>1, <3>3
    <3> QED  BY <3>2, <3>3
  <2> QED  BY <1>1, <2>3, <2>4, <2>5, <2>6
<1>11. R!ServedIsRecorded'
  <2>1. CASE t = "envelope"
    <3>1. d \in table["events"]
      <4>1. 1 \in 1..Len(todo) /\ todo[1][1] = "envelope"
        BY <1>1, <2>1 DEF t
      <4> QED  BY <1>0, <4>1 DEF InOrder, d
    <3> QED  BY <1>0, <1>5, <3>1 DEF R!ServedIsRecorded, R!Tables
  <2> QED  BY <1>0, <1>5, <2>1 DEF R!ServedIsRecorded, R!Tables
<1> QED  BY <1>6, <1>8, <1>9, <1>10, <1>11 DEF RecordsInv

LEMMA RefuseRecords ==
  ASSUME RecordsInv, R!Refuse
  PROVE  RecordsInv'
<1> DEFINE t == todo[1][1]
           d == todo[1][2]
           n == IF t = "events" THEN 2 ELSE 1
<1>0. RecordsTypes /\ InOrder /\ KeptSoFar /\ NewestSoFar /\ R!ServedIsRecorded
  BY DEF RecordsInv
<1>1. /\ Len(todo) \in Nat \ {0} /\ Head(todo) = todo[1] /\ todo[1] \in Statement
      /\ todo[1] = <<t, d>> /\ d \in 1..Len(emitted)
      /\ Tail(todo) \in Seq(Statement) /\ Len(Tail(todo)) = Len(todo) - 1
      /\ \A i \in 1..(Len(todo) - 1) : Tail(todo)[i] = todo[i + 1]
  BY <1>0, HeadStatement DEF R!Refuse
<1>2. /\ todo' = IF t = "events" THEN Tail(Tail(todo)) ELSE Tail(todo)
      /\ t \in {"events", "envelope"} =>
           memory' = [memory EXCEPT !["events"] = @ \cup {d}]
      /\ t = "flags" => memory' = [memory EXCEPT !["flags"] = @ \cup {d}]
      /\ t \notin {"events", "envelope", "flags"} => memory' = memory
      /\ refused' = refused \cup {d} /\ UNCHANGED <<emitted, table, activity, lost>>
  BY <1>1 DEF R!Refuse
<1>3. memory \in [{"events", "flags"} -> SUBSET Nat] /\ Len(emitted) \in Nat
  BY <1>0 DEF RecordsTypes
<1>4. t = "events" => Len(todo) > 1 /\ todo[2] = <<"envelope", d>>
  BY <1>0, <1>1 DEF InOrder
<1>5. n \in 1..2 /\ n <= Len(todo) /\ todo' \in Seq(Statement) /\ Len(todo') = Len(todo) - n
      /\ \A i \in 1..Len(todo') : todo'[i] = todo[i + n]
  <2>1. CASE t = "events"
    <3>1. Tail(todo) \in Seq(Statement) /\ Len(Tail(todo)) = Len(todo) - 1 /\ Len(Tail(todo)) # 0
      BY <1>1, <1>4, <2>1
    <3>2. todo' = Tail(Tail(todo)) /\ todo' \in Seq(Statement) /\ Len(todo') = Len(todo) - 2
          /\ \A i \in 1..Len(todo') : todo'[i] = Tail(todo)[i + 1]
      <4>1. todo' = Tail(Tail(todo))
        BY <1>2, <2>1
      <4> DEFINE q == Tail(todo)
      <4>2. q \in Seq(Statement) /\ Len(q) # 0 /\ Len(q) = Len(todo) - 1
        BY <3>1
      <4> HIDE DEF q
      <4>3. Tail(q) \in Seq(Statement) /\ Len(Tail(q)) = Len(q) - 1
            /\ \A i \in 1..(Len(q) - 1) : Tail(q)[i] = q[i + 1]
        BY <4>2, TailFacts
      <4> QED  BY <1>1, <4>1, <4>2, <4>3 DEF q
    <3>3. \A i \in 1..Len(todo') : i + 1 \in 1..(Len(todo) - 1) /\ (i + 1) + 1 = i + 2
      BY <1>1, <3>2
    <3> QED  BY <1>1, <1>4, <2>1, <3>2, <3>3
  <2>2. CASE t # "events"
    BY <1>1, <1>2, <2>2
  <2> QED  BY <2>1, <2>2
<1>6. todo[n][1] # "events"
  BY <1>1, <1>4
<1> HIDE DEF t, d, n
<1>7. /\ memory' \in [{"events", "flags"} -> SUBSET Nat]
      /\ \A u \in {"events", "flags"} : memory[u] \subseteq memory'[u]
      /\ t \in {"events", "envelope"} => d \in memory'["events"]
      /\ t = "flags" => d \in memory'["flags"]
  BY <1>1, <1>2, <1>3
<1>8. /\ InOrder' /\ \A i \in 1..Len(todo') : todo'[i][2] \in 1..Len(emitted')
      /\ \A x : Coming(x) => Coming(x)' \/ x = todo[1] \/ (n = 2 /\ x = todo[2])
  <2>1. table["events"] \subseteq table'["events"]
    BY <1>2
  <2> HIDE DEF Coming, InOrder, RecordsTypes
  <2> QED  BY <1>0, <1>2, <1>5, <1>6, <2>1, Popped
<1>9. ASSUME NEW u, NEW e, Coming(<<u, e>>)
      PROVE  \/ Coming(<<u, e>>)'
             \/ e = d /\ u = t
             \/ e = d /\ u = "envelope" /\ t = "events"
  <2>1. \/ Coming(<<u, e>>)' \/ <<u, e>> = <<t, d>>
        \/ n = 2 /\ <<u, e>> = todo[2]
    BY <1>1, <1>8, <1>9
  <2>2. n = 2 => t = "events" /\ todo[2] = <<"envelope", d>>
    BY <1>4 DEF n
  <2> QED  BY <2>1, <2>2
<1>10. RecordsTypes'
  BY <1>0, <1>2, <1>5, <1>7, <1>8 DEF RecordsTypes
<1>11. KeptSoFar'
  <2> SUFFICES ASSUME NEW e \in 1..Len(emitted), e \notin lost
      PROVE  /\ e \in table["envelope"] \/ e \in memory'["events"] \/ Coming(<<"envelope", e>>)'
             /\ emitted[e].flag =>
                  e \in table["flags"] \/ e \in memory'["flags"] \/ Coming(<<"flags", e>>)'
             /\ e \notin refused' => e \in table["v2"] \/ Coming(<<"v2", e>>)'
    BY <1>2 DEF KeptSoFar
  <2>1. e \in table["envelope"] \/ e \in memory'["events"] \/ Coming(<<"envelope", e>>)'
    <3>1. e \in table["envelope"] \/ e \in memory["events"] \/ Coming(<<"envelope", e>>)
      BY <1>0 DEF KeptSoFar
    <3>2. CASE Coming(<<"envelope", e>>)
      <4>1. Coming(<<"envelope", e>>)' \/ (e = d /\ t \in {"events", "envelope"})
        BY <1>9, <3>2
      <4> QED  BY <1>7, <4>1
    <3> QED  BY <1>7, <3>1, <3>2
  <2>2. emitted[e].flag =>
          e \in table["flags"] \/ e \in memory'["flags"] \/ Coming(<<"flags", e>>)'
    BY <1>0, <1>7, <1>9 DEF KeptSoFar
  <2>3. e \notin refused' => e \in table["v2"] \/ Coming(<<"v2", e>>)'
    BY <1>0, <1>2, <1>9 DEF KeptSoFar
  <2> QED  BY <2>1, <2>2, <2>3
<1>12. NewestSoFar'
  <2> SUFFICES ASSUME NEW e \in 1..Len(emitted), e \notin lost, e \notin refused'
               PROVE  activity[R!Key(e)] >= e \/ Coming(<<"activity", e>>)'
    BY <1>2 DEF NewestSoFar, R!Key
  <2>1. e # d /\ e \notin refused
    BY <1>2
  <2> QED  BY <1>0, <1>9, <2>1 DEF NewestSoFar
<1>13. R!ServedIsRecorded'
  BY <1>0, <1>2 DEF R!ServedIsRecorded
<1> QED  BY <1>8, <1>10, <1>11, <1>12, <1>13 DEF RecordsInv

LEMMA CrashRecords ==
  ASSUME RecordsInv, R!Crash
  PROVE  RecordsInv'
<1>0. RecordsTypes /\ KeptSoFar /\ NewestSoFar /\ R!ServedIsRecorded
  BY DEF RecordsInv
<1>1. /\ todo' = <<>> /\ UNCHANGED <<emitted, table, activity, refused>>
      /\ memory' = [t \in {"events", "flags"} |-> {}]
      /\ lost \subseteq lost'
      /\ \A i \in 1..Len(todo) : todo[i][2] \in lost'
      /\ memory["events"] \subseteq lost' /\ memory["flags"] \subseteq lost'
  <2>1. DOMAIN todo = 1..Len(todo) /\ DOMAIN memory = {"events", "flags"}
    BY <1>0 DEF RecordsTypes
  <2> QED  BY <2>1 DEF R!Crash
<1>2. ASSUME NEW t, NEW e, Coming(<<t, e>>) PROVE e \in lost'
  <2>1. PICK i \in 1..Len(todo) : todo[i] = <<t, e>>
    BY <1>2 DEF Coming
  <2>2. todo[i][2] = e
    BY <2>1
  <2> QED  BY <1>1, <2>2
<1>3. RecordsTypes'
  BY <1>0, <1>1 DEF RecordsTypes
<1>4. InOrder'
  BY <1>1 DEF InOrder
<1>5. KeptSoFar'
  BY <1>0, <1>1, <1>2 DEF KeptSoFar
<1>6. NewestSoFar'
  BY <1>0, <1>1, <1>2 DEF NewestSoFar, R!Key
<1>7. R!ServedIsRecorded'
  BY <1>0, <1>1 DEF R!ServedIsRecorded
<1> QED  BY <1>3, <1>4, <1>5, <1>6, <1>7 DEF RecordsInv

\* What the statements B and G of the events m..n have to be.
Bodies(B, m, n) ==
  /\ B \in Seq(Statement) /\ \A i \in 1..Len(B) : B[i][2] \in m..n
  /\ \A i \in 1..Len(B) : B[i][1] = "events" =>
       i < Len(B) /\ B[i + 1] = <<"envelope", B[i][2]>>
  /\ \A i \in 1..Len(B) : B[i][1] = "envelope" =>
       i > 1 /\ B[i - 1] = <<"events", B[i][2]>>
  /\ \A i \in 1..Len(B), e \in m..n : B[i][1] = "activity" /\ e > B[i][2] =>
       \E j \in 1..Len(B) : j > i /\ B[j] = <<"activity", e>>
  /\ \A e \in m..n, t \in {"v2", "activity", "envelope"} :
       \E i \in 1..Len(B) : B[i] = <<t, e>>

Flags(G, m, n) ==
  /\ G \in Seq(Statement) /\ \A i \in 1..Len(G) : G[i][1] = "flags" /\ G[i][2] \in m..n
  /\ \A e \in m..n : emitted'[e].flag => \E i \in 1..Len(G) : G[i] = <<"flags", e>>

LEMMA FlushedRecords ==
  ASSUME RecordsInv, todo = <<>>, UNCHANGED <<table, memory, activity, lost, refused>>,
         emitted' \in Seq(R!Event), Len(emitted') <= MaxEmitted, Len(emitted) <= Len(emitted'),
         \A e \in 1..Len(emitted) : emitted'[e] = emitted[e],
         NEW B, NEW G, Bodies(B, Len(emitted) + 1, Len(emitted')),
         Flags(G, Len(emitted) + 1, Len(emitted')), todo' = B \o G
  PROVE  RecordsInv'
<1> DEFINE m == Len(emitted) + 1
           n == Len(emitted')
<1>0. RecordsTypes /\ KeptSoFar /\ NewestSoFar /\ R!ServedIsRecorded
  BY DEF RecordsInv
<1>1. /\ m \in Nat \ {0} /\ n \in Nat /\ Len(emitted) = m - 1 /\ B \in Seq(Statement) /\ G \in Seq(Statement)
      /\ Len(B) \in Nat /\ Len(G) \in Nat /\ m - 1 <= n
  BY <1>0 DEF RecordsTypes, Bodies, Flags
<1>b. Bodies(B, m, n) /\ Flags(G, m, n) /\ n <= MaxEmitted
  OBVIOUS
<1> HIDE DEF m, n
<1>2. /\ todo' \in Seq(Statement) /\ Len(todo') = Len(B) + Len(G)
      /\ \A i \in 1..Len(B) : todo'[i] = B[i]
      /\ \A i \in 1..Len(G) : todo'[Len(B) + i] = G[i]
      /\ \A i \in (Len(B) + 1)..(Len(B) + Len(G)) : i - Len(B) \in 1..Len(G) /\ todo'[i] = G[i - Len(B)]
  BY <1>1
<1>3. ASSUME NEW i \in 1..Len(todo'), i \notin 1..Len(B)
      PROVE  todo'[i][1] = "flags" /\ todo'[i][2] \in m..n
  BY <1>1, <1>2, <1>3, <1>b DEF Flags
<1>4. ASSUME NEW i \in 1..Len(B)
      PROVE  i \in 1..Len(todo') /\ todo'[i] = B[i]
  BY <1>1, <1>2
<1>5. \A e \in m..n, t \in {"v2", "activity", "envelope"} : Coming(<<t, e>>)'
  BY <1>4, <1>b DEF Bodies, Coming
<1>6. \A e \in m..n : emitted'[e].flag => Coming(<<"flags", e>>)'
  <2> TAKE e \in m..n
  <2> HAVE emitted'[e].flag
  <2>1. PICK i \in 1..Len(G) : G[i] = <<"flags", e>>
    BY <1>b DEF Flags
  <2>2. Len(B) + i \in 1..Len(todo') /\ todo'[Len(B) + i] = G[i]
    BY <1>1, <1>2
  <2> QED  BY <2>1, <2>2 DEF Coming
<1>7. \A x : ~Coming(x)
  BY DEF Coming
<1>8. \A e \in 1..n : e \in 1..Len(emitted) \/ e \in m..n
  BY <1>1
<1>9. RecordsTypes'
  <2>1. \A i \in 1..Len(todo') : todo'[i][2] \in 1..n
    <3> TAKE i \in 1..Len(todo')
    <3>1. todo'[i][2] \in m..n
      BY <1>3, <1>4, <1>b DEF Bodies
    <3> QED  BY <1>1, <3>1
  <2>2. 1..Len(emitted) \subseteq 1..n
    BY <1>1
  <2> QED  BY <1>0, <1>2, <1>b, <2>1, <2>2 DEF RecordsTypes, n
<1>10. InOrder'
  <2>1. ASSUME NEW i \in 1..Len(todo'), todo'[i][1] = "events"
        PROVE  i < Len(todo') /\ todo'[i + 1] = <<"envelope", todo'[i][2]>>
    <3>1. i \in 1..Len(B) /\ B[i] = todo'[i]
      BY <1>3, <1>4, <2>1
    <3>2. i < Len(B) /\ B[i + 1] = <<"envelope", B[i][2]>>
      BY <1>b, <2>1, <3>1 DEF Bodies
    <3>3. i + 1 \in 1..Len(B) /\ i < Len(todo')
      BY <1>1, <1>2, <3>1, <3>2
    <3> QED  BY <1>4, <3>1, <3>2, <3>3
  <2>2. ASSUME NEW i \in 1..Len(todo'), todo'[i][1] = "envelope"
        PROVE  i > 1 /\ todo'[i - 1] = <<"events", todo'[i][2]>>
    <3>1. i \in 1..Len(B) /\ B[i] = todo'[i]
      BY <1>3, <1>4, <2>2
    <3>2. i > 1 /\ B[i - 1] = <<"events", B[i][2]>>
      BY <1>b, <2>2, <3>1 DEF Bodies
    <3>3. i - 1 \in 1..Len(B)
      BY <1>1, <3>1, <3>2
    <3> QED  BY <1>4, <3>1, <3>2, <3>3
  <2>3. ASSUME NEW i \in 1..Len(todo'), NEW e \in 1..n, todo'[i][1] = "activity", e > todo'[i][2]
        PROVE  \E j \in 1..Len(todo') : j > i /\ todo'[j] = <<"activity", e>>
    <3>1. i \in 1..Len(B) /\ B[i] = todo'[i]
      BY <1>3, <1>4, <2>3
    <3>2. B[i][2] \in m..n
      BY <1>b, <3>1 DEF Bodies
    <3>3. e \in m..n
      BY <1>1, <2>3, <3>1, <3>2
    <3>4. B[i][1] = "activity" /\ e > B[i][2]
      BY <2>3, <3>1
    <3>5. PICK j \in 1..Len(B) : j > i /\ B[j] = <<"activity", e>>
      BY <1>b, <3>1, <3>3, <3>4 DEF Bodies
    <3> QED  BY <1>4, <3>5
  <2>4. n = Len(emitted')
    BY DEF n
  <2>5. \A i \in 1..Len(todo') : todo'[i][1] = "envelope" =>
          \/ i = 1 /\ todo'[1][2] \in table'["events"]
          \/ i > 1 /\ todo'[i - 1] = <<"events", todo'[i][2]>>
    BY <2>2
  <2> QED  BY <2>1, <2>3, <2>4, <2>5 DEF InOrder
<1>11. KeptSoFar'
  <2> SUFFICES ASSUME NEW e \in 1..n, e \notin lost
      PROVE  /\ e \in table["envelope"] \/ e \in memory["events"] \/ Coming(<<"envelope", e>>)'
             /\ emitted'[e].flag =>
                  e \in table["flags"] \/ e \in memory["flags"] \/ Coming(<<"flags", e>>)'
             /\ e \notin refused => e \in table["v2"] \/ Coming(<<"v2", e>>)'
    BY DEF KeptSoFar, n
  <2>1. CASE e \in m..n
    BY <1>5, <1>6, <2>1
  <2>2. CASE e \in 1..Len(emitted)
    BY <1>0, <1>7, <2>2 DEF KeptSoFar
  <2> QED  BY <1>8, <2>1, <2>2
<1>12. NewestSoFar'
  <2> SUFFICES ASSUME NEW e \in 1..n, e \notin lost, e \notin refused
      PROVE  activity[R!Key(e)'] >= e \/ Coming(<<"activity", e>>)'
    BY DEF NewestSoFar, n, R!Key
  <2>1. CASE e \in m..n
    BY <1>5, <2>1
  <2>2. CASE e \in 1..Len(emitted)
    <3>1. R!Key(e)' = R!Key(e)
      BY <2>2 DEF R!Key
    <3> QED  BY <1>0, <1>7, <2>2, <3>1 DEF NewestSoFar
  <2> QED  BY <1>8, <2>1, <2>2
<1>13. R!ServedIsRecorded'
  BY <1>0 DEF R!ServedIsRecorded
<1> QED  BY <1>9, <1>10, <1>11, <1>12, <1>13 DEF RecordsInv

LEMMA StatementsOf ==
  ASSUME NEW m \in Nat
  PROVE  /\ R!Statements(m) \in Seq(Statement) /\ Len(R!Statements(m)) = 4
         /\ R!Statements(m)[1] = <<"v2", m>> /\ R!Statements(m)[2] = <<"activity", m>>
         /\ R!Statements(m)[3] = <<"events", m>> /\ R!Statements(m)[4] = <<"envelope", m>>
BY DEF R!Statements, Statement

LEMMA BodyOfOne ==
  ASSUME NEW m \in Nat
  PROVE  Bodies(R!Statements(m), m, m)
<1> DEFINE B == R!Statements(m)
<1>1. /\ B \in Seq(Statement) /\ Len(B) = 4 /\ 1..Len(B) = {1, 2, 3, 4} /\ m..m = {m}
      /\ B[1] = <<"v2", m>> /\ B[2] = <<"activity", m>>
      /\ B[3] = <<"events", m>> /\ B[4] = <<"envelope", m>>
  <2>1. B \in Seq(Statement) /\ Len(B) = 4
    BY StatementsOf
  <2>2. 1..4 = {1, 2, 3, 4} /\ m..m = {m}
    OBVIOUS
  <2>3. /\ B[1] = <<"v2", m>> /\ B[2] = <<"activity", m>>
        /\ B[3] = <<"events", m>> /\ B[4] = <<"envelope", m>>
    BY StatementsOf
  <2> HIDE DEF B
  <2> QED  BY <2>1, <2>2, <2>3
<1> HIDE DEF B
<1>2. Bodies(B, m, m)
  BY <1>1 DEF Bodies
<1> QED  BY <1>2 DEF B

LEMMA Joined ==
  ASSUME NEW Z, NEW s \in Seq(Z), NEW u \in Seq(Z), NEW v, v = s \o u
  PROVE  /\ v \in Seq(Z) /\ Len(v) = Len(s) + Len(u)
         /\ \A i \in 1..Len(s) : v[i] = s[i]
         /\ \A i \in 1..Len(u) : v[i + Len(s)] = u[i]
<1>1. v \in Seq(Z) /\ Len(v) = Len(s) + Len(u)
  OBVIOUS
<1>2. \A i \in 1..Len(s) : v[i] = s[i]
  OBVIOUS
<1>3. \A i \in 1..Len(u) : v[i + Len(s)] = u[i]
  OBVIOUS
<1> QED  BY <1>1, <1>2, <1>3

LEMMA BodyOfTwo ==
  ASSUME NEW m \in Nat
  PROVE  Bodies(R!Statements(m) \o R!Statements(m + 1), m, m + 1)
<1> DEFINE S == R!Statements(m)
           U == R!Statements(m + 1)
           B == S \o U
<1>1. /\ S \in Seq(Statement) /\ Len(S) = 4 /\ S[1] = <<"v2", m>> /\ S[2] = <<"activity", m>>
      /\ S[3] = <<"events", m>> /\ S[4] = <<"envelope", m>>
      /\ U \in Seq(Statement) /\ Len(U) = 4 /\ U[1] = <<"v2", m + 1>> /\ U[2] = <<"activity", m + 1>>
      /\ U[3] = <<"events", m + 1>> /\ U[4] = <<"envelope", m + 1>>
  BY StatementsOf
<1> HIDE DEF S, U
<1>2. /\ B \in Seq(Statement) /\ Len(B) = 8 /\ 1..Len(B) = 1..8
      /\ \A i \in 1..4 : B[i] = S[i] /\ B[i + 4] = U[i]
  <2>1. S \in Seq(Statement) /\ U \in Seq(Statement)
    BY <1>1
  <2>2. B = S \o U
    OBVIOUS
  <2> HIDE DEF B
  <2>3. /\ B \in Seq(Statement) /\ Len(B) = Len(S) + Len(U)
        /\ \A i \in 1..Len(S) : B[i] = S[i]
        /\ \A i \in 1..Len(U) : B[i + Len(S)] = U[i]
    BY <2>1, <2>2, Joined
  <2>4. Len(S) = 4 /\ Len(U) = 4
    BY <1>1
  <2> QED  BY <2>3, <2>4
<1> HIDE DEF B
<1>3. /\ B[1] = <<"v2", m>> /\ B[2] = <<"activity", m>> /\ B[3] = <<"events", m>> /\ B[4] = <<"envelope", m>>
      /\ B[5] = <<"v2", m + 1>> /\ B[6] = <<"activity", m + 1>>
      /\ B[7] = <<"events", m + 1>> /\ B[8] = <<"envelope", m + 1>>
  BY <1>1, <1>2
<1>4. 1..8 = {1, 2, 3, 4, 5, 6, 7, 8} /\ m..(m + 1) = {m, m + 1} /\ m \in Int
  OBVIOUS
<1>5. \A i \in 1..Len(B) : B[i][2] \in m..(m + 1)
  BY <1>2, <1>3, <1>4
<1>6. \A i \in 1..Len(B) : B[i][1] = "events" => i < Len(B) /\ B[i + 1] = <<"envelope", B[i][2]>>
  BY <1>2, <1>3, <1>4
<1>7. \A i \in 1..Len(B) : B[i][1] = "envelope" => i > 1 /\ B[i - 1] = <<"events", B[i][2]>>
  BY <1>2, <1>3, <1>4
<1>8. \A i \in 1..Len(B), e \in m..(m + 1) : B[i][1] = "activity" /\ e > B[i][2] =>
        \E j \in 1..Len(B) : j > i /\ B[j] = <<"activity", e>>
  BY <1>2, <1>3, <1>4
<1>9. \A e \in m..(m + 1), t \in {"v2", "activity", "envelope"} :
        \E i \in 1..Len(B) : B[i] = <<t, e>>
  BY <1>2, <1>3, <1>4
<1>10. Bodies(B, m, m + 1)
  BY <1>2, <1>5, <1>6, <1>7, <1>8, <1>9 DEF Bodies
<1> QED  BY <1>10 DEF B, S, U

LEMMA FlushRecords ==
  ASSUME RecordsInv, NEW new_ \in Seq(R!Event), Len(new_) \in {1, 2}, R!Flush(new_)
  PROVE  RecordsInv'
<1> DEFINE m == Len(emitted) + 1
           s == [i \in DOMAIN new_ |-> R!Statements(Len(emitted) + i)]
           Flag(i) == IF new_[i].flag THEN << <<"flags", Len(emitted) + i>> >> ELSE <<>>
           f == [i \in DOMAIN new_ |-> Flag(i)]
<1>1. /\ todo = <<>> /\ Len(emitted) + Len(new_) <= MaxEmitted /\ emitted' = emitted \o new_
      /\ todo' = R!FlattenSeq(s) \o R!FlattenSeq(f)
      /\ UNCHANGED <<table, memory, activity, lost, refused>>
  BY DEF R!Flush
<1>2. emitted \in Seq(R!Event) /\ Len(emitted) \in Nat /\ m \in Nat
  BY DEF RecordsInv, RecordsTypes
<1>3. /\ emitted' \in Seq(R!Event) /\ Len(emitted') = Len(emitted) + Len(new_) /\ Len(emitted') <= MaxEmitted
      /\ Len(emitted) <= Len(emitted') /\ \A e \in 1..Len(emitted) : emitted'[e] = emitted[e]
      /\ \A i \in 1..Len(new_) : emitted'[Len(emitted) + i] = new_[i]
  BY <1>1, <1>2
<1>4. /\ DOMAIN new_ = 1..Len(new_) /\ Len(new_) \in Nat
      /\ \A i \in 1..Len(new_) : Len(emitted) + i \in Nat
  BY <1>2
<1>5. /\ s \in Seq(Seq(Statement)) /\ Len(s) = Len(new_)
      /\ \A i \in 1..Len(new_) : s[i] = R!Statements(Len(emitted) + i)
  BY <1>4, StatementsOf
<1>6. \A i \in 1..Len(new_) :
        /\ Flag(i) \in Seq(Statement)
        /\ \A j \in 1..Len(Flag(i)) : Flag(i)[j] = <<"flags", Len(emitted) + i>>
        /\ new_[i].flag => 1 \in 1..Len(Flag(i))
  <2> TAKE i \in 1..Len(new_)
  <2>1. Len(emitted) + i \in Nat
    BY <1>4
  <2>2. CASE new_[i].flag
    <3>1. Flag(i) = << <<"flags", Len(emitted) + i>> >> /\ <<"flags", Len(emitted) + i>> \in Statement
      BY <2>1, <2>2 DEF Statement
    <3> HIDE DEF Flag
    <3> QED  BY <3>1
  <2>3. CASE ~new_[i].flag
    <3>1. Flag(i) = <<>>
      BY <2>3
    <3> HIDE DEF Flag
    <3> QED  BY <2>3, <3>1
  <2> QED  BY <2>2, <2>3
<1>7. f \in Seq(Seq(Statement)) /\ Len(f) = Len(new_) /\ \A i \in 1..Len(new_) : f[i] = Flag(i)
  <2> HIDE DEF Flag
  <2> QED  BY <1>4, <1>6
<1> HIDE DEF s, f, Flag
<1>8. CASE Len(new_) = 1
  <2>1. R!FlattenSeq(s) = R!Statements(m) /\ R!FlattenSeq(f) = Flag(1)
    BY <1>5, <1>7, <1>8, FlattenOne
  <2>2. Len(emitted') = m /\ m..m = {m}
    BY <1>2, <1>3, <1>8
  <2>3. Bodies(R!Statements(m), m, m)
    BY <1>2, BodyOfOne
  <2>4. Flags(Flag(1), m, m)
    <3>1. /\ Flag(1) \in Seq(Statement) /\ \A j \in 1..Len(Flag(1)) : Flag(1)[j] = <<"flags", m>>
          /\ new_[1].flag => 1 \in 1..Len(Flag(1))
      BY <1>6, <1>8
    <3>2. emitted'[m] = new_[1]
      BY <1>3, <1>8
    <3> QED  BY <2>2, <3>1, <3>2 DEF Flags
  <2> QED  BY <1>1, <1>3, <2>1, <2>2, <2>3, <2>4, FlushedRecords
<1>9. CASE Len(new_) = 2
  <2> DEFINE G == Flag(1) \o Flag(2)
  <2>1. R!FlattenSeq(s) = R!Statements(m) \o R!Statements(m + 1) /\ R!FlattenSeq(f) = G
    <3>1. s[1] = R!Statements(m) /\ s[2] = R!Statements(m + 1)
      <4>1. Len(emitted) + 1 = m /\ Len(emitted) + 2 = m + 1
        BY <1>2
      <4> QED  BY <1>5, <1>9, <4>1
    <3>2. f[1] = Flag(1) /\ f[2] = Flag(2)
      BY <1>7, <1>9
    <3> QED  BY <1>5, <1>7, <1>9, <3>1, <3>2, FlattenTwo
  <2>2. Len(emitted') = m + 1 /\ m..(m + 1) = {m, m + 1}
    BY <1>2, <1>3, <1>9
  <2>3. Bodies(R!Statements(m) \o R!Statements(m + 1), m, m + 1)
    BY <1>2, BodyOfTwo
  <2>4. Flags(G, m, m + 1)
    <3>1. /\ Flag(1) \in Seq(Statement) /\ \A j \in 1..Len(Flag(1)) : Flag(1)[j] = <<"flags", m>>
          /\ new_[1].flag => 1 \in 1..Len(Flag(1))
      BY <1>6, <1>9
    <3>2. /\ Flag(2) \in Seq(Statement) /\ \A j \in 1..Len(Flag(2)) : Flag(2)[j] = <<"flags", m + 1>>
          /\ new_[2].flag => 1 \in 1..Len(Flag(2))
      <4>1. Len(emitted) + 2 = m + 1
        BY <1>2
      <4> QED  BY <1>6, <1>9, <4>1
    <3>3. /\ G \in Seq(Statement) /\ Len(G) = Len(Flag(1)) + Len(Flag(2))
          /\ Len(Flag(1)) \in Nat /\ Len(Flag(2)) \in Nat
          /\ \A j \in 1..Len(Flag(1)) : G[j] = Flag(1)[j]
          /\ \A j \in 1..Len(Flag(2)) : G[Len(Flag(1)) + j] = Flag(2)[j]
          /\ \A j \in (Len(Flag(1)) + 1)..Len(G) : G[j] = Flag(2)[j - Len(Flag(1))]
      BY <3>1, <3>2
    <3> HIDE DEF G
    <3>4. \A j \in 1..Len(G) : G[j] \in {<<"flags", m>>, <<"flags", m + 1>>}
      <4> TAKE j \in 1..Len(G)
      <4>1. CASE j <= Len(Flag(1))
        <5>1. j \in 1..Len(Flag(1))
          BY <3>3, <4>1
        <5> QED  BY <3>1, <3>3, <5>1
      <4>2. CASE j > Len(Flag(1))
        <5>1. j \in (Len(Flag(1)) + 1)..Len(G) /\ j - Len(Flag(1)) \in 1..Len(Flag(2))
          BY <3>3, <4>2
        <5> QED  BY <3>2, <3>3, <5>1
      <4> QED  BY <3>3, <4>1, <4>2
    <3>5. emitted'[m] = new_[1] /\ emitted'[m + 1] = new_[2]
      <4>1. Len(emitted) + 2 = m + 1
        BY <1>2
      <4> QED  BY <1>3, <1>9, <4>1
    <3>6. new_[1].flag => \E j \in 1..Len(G) : G[j] = <<"flags", m>>
      <4> HAVE new_[1].flag
      <4>1. 1 \in 1..Len(Flag(1)) /\ 1 \in 1..Len(G)
        BY <3>1, <3>3
      <4> QED  BY <3>1, <3>3, <4>1
    <3>7. new_[2].flag => \E j \in 1..Len(G) : G[j] = <<"flags", m + 1>>
      <4> HAVE new_[2].flag
      <4>1. Len(Flag(1)) + 1 \in 1..Len(G) /\ G[Len(Flag(1)) + 1] = <<"flags", m + 1>>
        BY <3>2, <3>3
      <4> QED  BY <4>1
    <3>8. G \in Seq(Statement) /\ m \in m..(m + 1) /\ m + 1 \in m..(m + 1)
      BY <1>2, <3>3
    <3>9. \A j \in 1..Len(G) : G[j][1] = "flags" /\ G[j][2] \in m..(m + 1)
      BY <3>4, <3>8
    <3>10. \A e \in m..(m + 1) : emitted'[e].flag => \E j \in 1..Len(G) : G[j] = <<"flags", e>>
      BY <2>2, <3>5, <3>6, <3>7
    <3> QED  BY <3>8, <3>9, <3>10 DEF Flags
  <2> HIDE DEF G
  <2> QED  BY <1>1, <1>3, <2>1, <2>2, <2>3, <2>4, FlushedRecords
<1> QED  BY <1>8, <1>9

LEMMA RecordsStart == R!Init => RecordsInv
<1> SUFFICES ASSUME R!Init PROVE RecordsInv
  OBVIOUS
<1>1. /\ emitted = <<>> /\ todo = <<>> /\ table = [t \in R!Tables |-> {}]
      /\ memory = [t \in {"events", "flags"} |-> {}] /\ activity = [k \in Client \X BOOLEAN |-> 0]
  BY DEF R!Init
<1>2. RecordsTypes
  BY <1>1, RecordsConstant DEF RecordsTypes
<1> QED  BY <1>1, <1>2 DEF RecordsInv, InOrder, KeptSoFar, NewestSoFar, R!ServedIsRecorded, R!Tables

LEMMA RecordsStep == RecordsInv /\ [R!Next]_(R!vars) => RecordsInv'
<1> SUFFICES ASSUME RecordsInv, [R!Next]_(R!vars) PROVE RecordsInv'
  OBVIOUS
<1>1. ASSUME NEW a \in R!Event, R!Flush(<<a>>) PROVE RecordsInv'
  <2>1. <<a>> \in Seq(R!Event) /\ Len(<<a>>) = 1
    OBVIOUS
  <2> QED  BY <1>1, <2>1, FlushRecords
<1>2. ASSUME NEW a \in R!Event, NEW b \in R!Event, R!Flush(<<a, b>>) PROVE RecordsInv'
  <2>1. <<a, b>> \in Seq(R!Event) /\ Len(<<a, b>>) = 2
    OBVIOUS
  <2> QED  BY <1>2, <2>1, FlushRecords
<1>3. CASE UNCHANGED R!vars
  <2>1. UNCHANGED <<emitted, todo, table, memory, activity, lost, refused>>
    BY <1>3 DEF R!vars
  <2>2. RecordsTypes' /\ InOrder' /\ R!ServedIsRecorded'
    BY <2>1 DEF RecordsInv, RecordsTypes, InOrder, R!ServedIsRecorded
  <2>3. \A x : Coming(x) => Coming(x)'
    BY <2>1 DEF Coming
  <2>4. KeptSoFar'
    BY <2>1, <2>3 DEF RecordsInv, KeptSoFar
  <2>5. NewestSoFar'
    BY <2>1, <2>3 DEF RecordsInv, NewestSoFar, R!Key
  <2> QED  BY <2>2, <2>4, <2>5 DEF RecordsInv
<1> QED  BY <1>1, <1>2, <1>3, WriteRecords, RefuseRecords, CrashRecords DEF R!Next

LEMMA RecordsPromise ==
  RecordsInv => R!RecordsTypeOK /\ R!ServedIsRecorded /\ R!EveryEventIsKept /\ R!ActivityIsNewest
<1> SUFFICES ASSUME RecordsInv
             PROVE  R!RecordsTypeOK /\ R!ServedIsRecorded /\ R!EveryEventIsKept /\ R!ActivityIsNewest
  OBVIOUS
<1>1. DOMAIN emitted = 1..Len(emitted)
  BY DEF RecordsInv, RecordsTypes
<1>2. todo = <<>> => \A x : ~Coming(x)
  BY DEF Coming
<1>3. R!RecordsTypeOK
  BY <1>1 DEF RecordsInv, RecordsTypes, R!RecordsTypeOK
<1>4. R!EveryEventIsKept
  BY <1>1, <1>2 DEF RecordsInv, KeptSoFar, R!EveryEventIsKept
<1>5. R!ActivityIsNewest
  BY <1>1, <1>2 DEF RecordsInv, NewestSoFar, R!ActivityIsNewest
<1> QED  BY <1>3, <1>4, <1>5 DEF RecordsInv

-----------------------------------------------------------------------------
(* Migration.                                                              *)

Steps == {"guard", "create", "copy", "drop", "rename"}

\* A table as nothing has gone wrong: served under the current key, as the
\* earlier version left it, or not there.
Ready(t) == main[t] = "current" /\ new[t] = "none" /\ (t \in had => kept[t])
Old(t) == t \in had /\ main[t] = "legacy" /\ new[t] = "none" /\ kept[t]
Missing(t) == t \notin had /\ main[t] = "absent" /\ new[t] = "none"

\* The table the rebuild has come to, by the statement that comes next.
Reached(t) ==
  /\ next = "guard" => Ready(t) \/ Old(t) \/ Missing(t)
  /\ next = "create" => Old(t)
  /\ next \in {"copy", "drop"} => t \in had /\ main[t] = "legacy" /\ kept[t]
  /\ next = "rename" => t \in had

Undisturbed ==
  /\ doing = "off" => \A i \in 1..5 : Ready(M!Table[i]) \/ Old(M!Table[i]) \/ Missing(M!Table[i])
  /\ doing = "rebuild" =>
       /\ \A i \in 1..5 : i < at => Ready(M!Table[i]) \/ Missing(M!Table[i])
       /\ \A i \in 1..5 : i > at => Ready(M!Table[i]) \/ Old(M!Table[i]) \/ Missing(M!Table[i])
       /\ \A i \in 1..5 : i = at => Reached(M!Table[i])
  /\ doing \in {"columns", "create"} => \A i \in 1..5 : Ready(M!Table[i]) \/ Missing(M!Table[i])
  /\ doing \in {"database", "memory"} => doing = "database" /\ \A i \in 1..5 : Ready(M!Table[i])

MigrationInv ==
  /\ had \subseteq M!T /\ main \in [M!T -> M!Form] /\ kept \in [M!T -> BOOLEAN]
  /\ new \in [M!T -> {"none", "empty", "copy"}]
  /\ doing \in {"off", "rebuild", "columns", "create", "database", "memory"}
  /\ at \in 1..6 /\ next \in Steps /\ calm \in BOOLEAN
  /\ doing = "rebuild" => at \in 1..5 /\ (next \in {"drop", "rename"} => new[M!Table[at]] = "copy")
  /\ M!RowsSurvive
  /\ calm => Undisturbed

LEMMA FiveTables ==
  /\ Len(M!Table) = 5 /\ DOMAIN M!Table = 1..5 /\ M!T = {M!Table[i] : i \in 1..5}
  /\ \A i \in 1..5 : M!Table[i] \in M!T
  /\ \A i, j \in 1..5 : M!Table[i] = M!Table[j] => i = j
  /\ M!T = {"events", "event_envelopes", "central_events", "sessions", "flags"}
<1>1. /\ Len(M!Table) = 5 /\ M!Table[1] = "events" /\ M!Table[2] = "event_envelopes"
      /\ M!Table[3] = "central_events" /\ M!Table[4] = "sessions" /\ M!Table[5] = "flags"
      /\ DOMAIN M!Table = 1..5
  BY DEF M!Table
<1>2. 1..5 = {1, 2, 3, 4, 5}
  OBVIOUS
<1>3. M!T = {M!Table[i] : i \in 1..5}
  BY <1>1 DEF M!T
<1>4. M!T = {"events", "event_envelopes", "central_events", "sessions", "flags"}
  <2>1. \A x : x \in M!T <=> \E i \in {1, 2, 3, 4, 5} : x = M!Table[i]
    BY <1>2, <1>3
  <2> QED  BY <1>1, <2>1
<1>5. \A i, j \in 1..5 : M!Table[i] = M!Table[j] => i = j
  BY <1>1, <1>2
<1> QED  BY <1>1, <1>3, <1>4, <1>5

\* Where the rebuild goes on, with or without a statement of its own.
LEMMA NextTableGoesOn ==
  ASSUME MigrationInv, doing = "rebuild", M!NextTable,
         NEW t \in M!T, t = M!Table[at], UNCHANGED <<had, calm>>,
         main' \in [M!T -> M!Form], kept' \in [M!T -> BOOLEAN],
         new' \in [M!T -> {"none", "empty", "copy"}],
         \A u \in M!T : u # t => main'[u] = main[u] /\ kept'[u] = kept[u] /\ new'[u] = new[u],
         t \in had => kept'[t] \/ new'[t] = "copy",
         calm => Ready(t)' \/ Missing(t)'
  PROVE  MigrationInv'
<1>1. /\ at \in 1..5 /\ at' = at + 1 /\ next' = "guard" /\ next' \in Steps
      /\ doing' = IF at = 5 THEN "columns" ELSE "rebuild"
  BY FiveTables DEF MigrationInv, M!NextTable, Steps
<1>2. M!RowsSurvive'
  BY DEF MigrationInv, M!RowsSurvive
<1>3. \A i \in 1..5 : i # at => M!Table[i] \in M!T /\ M!Table[i] # t
  BY <1>1, FiveTables
<1>4. \A u \in M!T : u # t => /\ Ready(u)' <=> Ready(u)
                              /\ Old(u)' <=> Old(u)
                              /\ Missing(u)' <=> Missing(u)
  BY DEF Ready, Old, Missing
<1>5. ASSUME calm PROVE Undisturbed'
  <2>1. /\ \A i \in 1..5 : i < at => Ready(M!Table[i]) \/ Missing(M!Table[i])
        /\ \A i \in 1..5 : i > at => Ready(M!Table[i]) \/ Old(M!Table[i]) \/ Missing(M!Table[i])
    BY <1>5 DEF MigrationInv, Undisturbed
  <2>2. \A i \in 1..5 : i < at' => Ready(M!Table[i])' \/ Missing(M!Table[i])'
    <3> TAKE i \in 1..5
    <3> HAVE i < at'
    <3>1. CASE i = at
      BY <1>5, <3>1
    <3>2. CASE i < at
      BY <1>3, <1>4, <2>1, <3>2
    <3> QED  BY <1>1, <3>1, <3>2
  <2>3. \A i \in 1..5 : i >= at' => Ready(M!Table[i])' \/ Old(M!Table[i])' \/ Missing(M!Table[i])'
    <3> TAKE i \in 1..5
    <3> HAVE i >= at'
    <3>1. i > at
      BY <1>1
    <3> QED  BY <1>3, <1>4, <2>1, <3>1
  <2>4. CASE at = 5
    <3>1. doing' = "columns" /\ \A i \in 1..5 : i < at'
      BY <1>1, <2>4
    <3> QED  BY <2>2, <3>1 DEF Undisturbed
  <2>5. CASE at # 5
    <3>1. doing' = "rebuild" /\ at' \in 1..5 /\ at' >= at'
      BY <1>1, <2>5
    <3>2. \A i \in 1..5 : i = at' => Reached(M!Table[i])'
      BY <1>1, <2>3 DEF Reached
    <3>3. \A i \in 1..5 : i > at' => i >= at'
      BY <3>1
    <3> QED  BY <2>2, <2>3, <3>1, <3>2, <3>3 DEF Undisturbed
  <2> QED  BY <2>4, <2>5
<1>6. doing' \in {"columns", "rebuild"} /\ at' \in 1..6 /\ (doing' = "rebuild" => at' \in 1..5)
  BY <1>1
<1> QED  BY <1>1, <1>2, <1>5, <1>6 DEF MigrationInv

LEMMA MigrationStart == M!Init => MigrationInv
<1> SUFFICES ASSUME M!Init PROVE MigrationInv
  OBVIOUS
<1>1. /\ had \subseteq M!T /\ main = [t \in M!T |-> IF t \in had THEN "legacy" ELSE "absent"]
      /\ kept = [t \in M!T |-> t \in had] /\ new = [t \in M!T |-> "none"]
      /\ doing = "off" /\ at = 1 /\ next = "guard" /\ calm = TRUE
  BY DEF M!Init
<1>2. M!RowsSurvive
  BY <1>1 DEF M!RowsSurvive
<1>3. Undisturbed
  BY <1>1, FiveTables DEF Undisturbed, Old, Missing
<1>4. main \in [M!T -> M!Form] /\ kept \in [M!T -> BOOLEAN] /\ new \in [M!T -> {"none", "empty", "copy"}]
  BY <1>1 DEF M!Form
<1> QED  BY <1>1, <1>2, <1>3, <1>4 DEF MigrationInv, Steps

\* Where it stays at the table, for the next statement of its script.
LEMMA SameTableGoesOn ==
  ASSUME MigrationInv, doing = "rebuild",
         NEW t \in M!T, t = M!Table[at], UNCHANGED <<had, calm, doing, at>>,
         next' \in Steps, next' \in {"drop", "rename"} => new'[t] = "copy",
         main' \in [M!T -> M!Form], kept' \in [M!T -> BOOLEAN],
         new' \in [M!T -> {"none", "empty", "copy"}],
         \A u \in M!T : u # t => main'[u] = main[u] /\ kept'[u] = kept[u] /\ new'[u] = new[u],
         t \in had => kept'[t] \/ new'[t] = "copy",
         calm => Reached(t)'
  PROVE  MigrationInv'
<1>1. at \in 1..5 /\ at' \in 1..6 /\ doing' = "rebuild" /\ at' = at
  BY DEF MigrationInv
<1>2. M!RowsSurvive'
  BY DEF MigrationInv, M!RowsSurvive
<1>3. \A i \in 1..5 : i # at => M!Table[i] \in M!T /\ M!Table[i] # t
  BY <1>1, FiveTables
<1>4. \A u \in M!T : u # t => /\ Ready(u)' <=> Ready(u)
                              /\ Old(u)' <=> Old(u)
                              /\ Missing(u)' <=> Missing(u)
  BY DEF Ready, Old, Missing
<1>5. ASSUME calm PROVE Undisturbed'
  <2>1. /\ \A i \in 1..5 : i < at => Ready(M!Table[i]) \/ Missing(M!Table[i])
        /\ \A i \in 1..5 : i > at => Ready(M!Table[i]) \/ Old(M!Table[i]) \/ Missing(M!Table[i])
    BY <1>5 DEF MigrationInv, Undisturbed
  <2>2. /\ \A i \in 1..5 : i < at' => Ready(M!Table[i])' \/ Missing(M!Table[i])'
        /\ \A i \in 1..5 : i > at' => Ready(M!Table[i])' \/ Old(M!Table[i])' \/ Missing(M!Table[i])'
    BY <1>1, <1>3, <1>4, <2>1
  <2>3. \A i \in 1..5 : i = at' => Reached(M!Table[i])'
    BY <1>1, <1>5
  <2> QED  BY <1>1, <2>2, <2>3 DEF Undisturbed
<1>6. next' \in {"drop", "rename"} => new'[M!Table[at']] = "copy"
  BY <1>1
<1> QED  BY <1>1, <1>2, <1>5, <1>6 DEF MigrationInv

\* The rebuild comes to a table: where it stands, and in what state it is.
LEMMA ComeTo ==
  ASSUME MigrationInv, doing = "rebuild", NEW t, t = M!Table[at]
  PROVE  /\ t \in M!T /\ (calm => Reached(t)) /\ (t \in had => kept[t] \/ new[t] = "copy")
         /\ next \in {"drop", "rename"} => new[t] = "copy"
         /\ main[t] \in M!Form /\ kept[t] \in BOOLEAN /\ new[t] \in {"none", "empty", "copy"}
<1>1. at \in 1..5
  BY DEF MigrationInv
<1>2. t \in M!T
  BY <1>1, FiveTables
<1>3. calm => Reached(t)
  BY <1>1 DEF MigrationInv, Undisturbed
<1> QED  BY <1>2, <1>3 DEF MigrationInv, M!RowsSurvive

LEMMA GuardTable ==
  ASSUME MigrationInv, doing = "rebuild", NEW t, t = M!Table[at], M!Guard(t)
  PROVE  MigrationInv'
<1>1. /\ t \in M!T /\ (calm => Ready(t) \/ Old(t) \/ Missing(t)) /\ (t \in had => kept[t] \/ new[t] = "copy")
      /\ next = "guard" /\ UNCHANGED <<had, main, kept, new, calm>>
      /\ main \in [M!T -> M!Form] /\ kept \in [M!T -> BOOLEAN] /\ new \in [M!T -> {"none", "empty", "copy"}]
      /\ main[t] \in M!Form
  BY ComeTo DEF M!Guard, Reached, MigrationInv
<1>2. CASE main[t] # "absent" /\ ~M!HasSiteId(t)
  <2>1. next' = "create" /\ UNCHANGED <<doing, at>>
    BY <1>2 DEF M!Guard
  <2>2. main[t] = "legacy"
    BY <1>1, <1>2 DEF M!HasSiteId, M!Form
  <2>3. calm => Old(t)
    BY <1>1, <2>2 DEF Ready, Missing
  <2>4. calm => Reached(t)'
    BY <1>1, <2>1, <2>3 DEF Reached, Old
  <2> QED  BY <1>1, <2>1, <2>4, SameTableGoesOn DEF Steps
<1>3. CASE ~(main[t] # "absent" /\ ~M!HasSiteId(t))
  <2>1. M!NextTable
    BY <1>3 DEF M!Guard
  <2>2. calm => Ready(t) \/ Missing(t)
    BY <1>1, <1>3 DEF Old, M!HasSiteId
  <2>3. calm => Ready(t)' \/ Missing(t)'
    BY <1>1, <2>2 DEF Ready, Missing
  <2> QED  BY <1>1, <2>1, <2>3, NextTableGoesOn
<1> QED  BY <1>2, <1>3

\* A script that is broken off.  As nothing has gone wrong, none is.
LEMMA BrokenOff ==
  ASSUME MigrationInv, calm' = FALSE, M!Abandon, UNCHANGED <<had, main, kept, new>>
  PROVE  MigrationInv'
<1>1. doing' = "columns" /\ UNCHANGED <<at, next>>
  BY DEF M!Abandon
<1>2. M!RowsSurvive'
  BY DEF MigrationInv, M!RowsSurvive
<1> QED  BY <1>1, <1>2 DEF MigrationInv

LEMMA CreateTable ==
  ASSUME MigrationInv, doing = "rebuild", NEW t, t = M!Table[at], M!Create(t)
  PROVE  MigrationInv'
<1>1. /\ t \in M!T /\ (calm => Old(t)) /\ (t \in had => kept[t] \/ new[t] = "copy")
      /\ next = "create" /\ UNCHANGED <<had, main, kept, calm>>
      /\ main \in [M!T -> M!Form] /\ kept \in [M!T -> BOOLEAN] /\ new \in [M!T -> {"none", "empty", "copy"}]
      /\ calm \in BOOLEAN
  BY ComeTo DEF M!Create, Reached, MigrationInv
<1>2. CASE new[t] = "none"
  <2>1. new' = [new EXCEPT ![t] = "empty"] /\ next' = "copy" /\ UNCHANGED <<doing, at>>
    BY <1>2 DEF M!Create
  <2>2. /\ new' \in [M!T -> {"none", "empty", "copy"}] /\ new'[t] = "empty"
        /\ \A u \in M!T : u # t => new'[u] = new[u]
    BY <1>1, <2>1
  <2>3. calm => Reached(t)'
    BY <1>1, <2>1 DEF Reached, Old
  <2>4. t \in had => kept'[t]
    BY <1>1, <1>2
  <2> QED  BY <1>1, <2>1, <2>2, <2>3, <2>4, SameTableGoesOn DEF Steps
<1>3. CASE new[t] # "none"
  <2>1. M!Abandon /\ UNCHANGED new
    BY <1>3 DEF M!Create
  <2>2. calm' = FALSE
    BY <1>1, <1>3 DEF Old
  <2> QED  BY <1>1, <2>1, <2>2, BrokenOff
<1> QED  BY <1>2, <1>3

LEMMA CopyTable ==
  ASSUME MigrationInv, doing = "rebuild", NEW t, t = M!Table[at], M!Copy(t)
  PROVE  MigrationInv'
<1>1. /\ t \in M!T /\ (calm => Reached(t))
      /\ next = "copy" /\ next' = "drop" /\ new' = [new EXCEPT ![t] = "copy"]
      /\ UNCHANGED <<had, main, kept, doing, at, calm>>
      /\ main \in [M!T -> M!Form] /\ kept \in [M!T -> BOOLEAN] /\ new \in [M!T -> {"none", "empty", "copy"}]
  BY ComeTo DEF M!Copy, MigrationInv
<1>2. /\ new' \in [M!T -> {"none", "empty", "copy"}] /\ new'[t] = "copy"
      /\ \A u \in M!T : u # t => new'[u] = new[u]
  BY <1>1
<1>3. calm => Reached(t)'
  BY <1>1 DEF Reached
<1> QED  BY <1>1, <1>2, <1>3, SameTableGoesOn DEF Steps

LEMMA DropTable ==
  ASSUME MigrationInv, doing = "rebuild", NEW t, t = M!Table[at], M!Drop(t)
  PROVE  MigrationInv'
<1>1. /\ t \in M!T /\ (calm => Reached(t)) /\ new[t] = "copy"
      /\ next = "drop" /\ next' = "rename"
      /\ main' = [main EXCEPT ![t] = "absent"] /\ kept' = [kept EXCEPT ![t] = FALSE]
      /\ UNCHANGED <<had, new, doing, at, calm>>
      /\ main \in [M!T -> M!Form] /\ kept \in [M!T -> BOOLEAN] /\ new \in [M!T -> {"none", "empty", "copy"}]
  BY ComeTo DEF M!Drop, MigrationInv
<1>2. /\ main' \in [M!T -> M!Form] /\ kept' \in [M!T -> BOOLEAN]
      /\ \A u \in M!T : u # t => main'[u] = main[u] /\ kept'[u] = kept[u]
  BY <1>1 DEF M!Form
<1>3. calm => Reached(t)'
  BY <1>1 DEF Reached
<1> QED  BY <1>1, <1>2, <1>3, SameTableGoesOn DEF Steps

LEMMA RenameTable ==
  ASSUME MigrationInv, doing = "rebuild", NEW t, t = M!Table[at], M!Rename(t)
  PROVE  MigrationInv'
<1>1. /\ t \in M!T /\ new[t] = "copy" /\ M!NextTable
      /\ main' = [main EXCEPT ![t] = "current"] /\ kept' = [kept EXCEPT ![t] = new[t] = "copy"]
      /\ new' = [new EXCEPT ![t] = "none"] /\ UNCHANGED <<had, calm>>
      /\ main \in [M!T -> M!Form] /\ kept \in [M!T -> BOOLEAN] /\ new \in [M!T -> {"none", "empty", "copy"}]
  BY ComeTo DEF M!Rename, MigrationInv
<1>2. /\ main' \in [M!T -> M!Form] /\ new' \in [M!T -> {"none", "empty", "copy"}]
      /\ main'[t] = "current" /\ new'[t] = "none"
      /\ \A u \in M!T : u # t => main'[u] = main[u] /\ new'[u] = new[u]
  BY <1>1 DEF M!Form
<1>3. /\ kept' \in [M!T -> BOOLEAN] /\ kept'[t]
      /\ \A u \in M!T : u # t => kept'[u] = kept[u]
  <2> DEFINE r == (new[t] = "copy")
  <2>1. r \in BOOLEAN /\ r
    BY <1>1
  <2>2. kept' = [kept EXCEPT ![t] = r]
    BY <1>1
  <2> HIDE DEF r
  <2> QED  BY <1>1, <2>1, <2>2
<1>4. Ready(t)'
  BY <1>2, <1>3 DEF Ready
<1> QED  BY <1>1, <1>2, <1>3, <1>4, NextTableGoesOn

\* The steps of an opening outside the scripts.
LEMMA OpeningStep ==
  ASSUME MigrationInv, M!Start \/ M!Columns \/ M!CreateTables \/ M!Die
  PROVE  MigrationInv'
<1> USE DEF MigrationInv
<1>1. CASE M!Start
  <2>1. /\ doing = "off" /\ doing' = "rebuild" /\ at' = 1 /\ next' = "guard"
        /\ UNCHANGED <<had, main, kept, new, calm>>
    BY <1>1 DEF M!Start
  <2>2. M!RowsSurvive'
    BY <2>1 DEF M!RowsSurvive
  <2>3. \A i \in 1..5 : /\ Ready(M!Table[i])' <=> Ready(M!Table[i])
                        /\ Old(M!Table[i])' <=> Old(M!Table[i])
                        /\ Missing(M!Table[i])' <=> Missing(M!Table[i])
    BY <2>1 DEF Ready, Old, Missing
  <2>4. calm' => Undisturbed'
    <3> SUFFICES ASSUME calm PROVE Undisturbed'
      BY <2>1
    <3>1. \A i \in 1..5 : Ready(M!Table[i])' \/ Old(M!Table[i])' \/ Missing(M!Table[i])'
      BY <2>1, <2>3 DEF Undisturbed
    <3>2. \A i \in 1..5 : Reached(M!Table[i])'
      BY <2>1, <3>1 DEF Reached
    <3> QED  BY <2>1, <3>1, <3>2 DEF Undisturbed
  <2> QED  BY <2>1, <2>2, <2>4 DEF Steps
<1>2. CASE M!Columns
  <2>1. /\ doing = "columns" /\ doing' = "create"
        /\ main' = [main EXCEPT !["event_envelopes"] = IF main["event_envelopes"] = "legacy" THEN "widened" ELSE main["event_envelopes"]]
        /\ UNCHANGED <<had, kept, new, at, next, calm>>
    BY <1>2 DEF M!Columns
  <2>2. M!RowsSurvive'
    BY <2>1 DEF M!RowsSurvive
  <2>3. /\ main' \in [M!T -> M!Form]
        /\ \A u \in M!T : main[u] # "legacy" => main'[u] = main[u]
    BY <2>1, FiveTables DEF M!Form
  <2>4. calm' => Undisturbed'
    <3> SUFFICES ASSUME calm PROVE Undisturbed'
      BY <2>1
    <3>1. \A i \in 1..5 : M!Table[i] \in M!T /\ (Ready(M!Table[i]) \/ Missing(M!Table[i]))
      BY <2>1, FiveTables DEF Undisturbed
    <3>2. \A i \in 1..5 : Ready(M!Table[i])' \/ Missing(M!Table[i])'
      BY <2>1, <2>3, <3>1 DEF Ready, Missing
    <3> QED  BY <2>1, <3>2 DEF Undisturbed
  <2> QED  BY <2>1, <2>2, <2>3, <2>4
<1>3. CASE M!CreateTables
  <2>1. /\ doing = "create" /\ doing' = (IF main["central_events"] = "legacy" THEN "memory" ELSE "database")
        /\ main' = [t \in M!T |-> IF main[t] = "absent" THEN "current" ELSE main[t]]
        /\ UNCHANGED <<had, kept, new, at, next, calm>>
    BY <1>3 DEF M!CreateTables
  <2>2. M!RowsSurvive'
    BY <2>1 DEF M!RowsSurvive
  <2>3. main' \in [M!T -> M!Form] /\ doing' \in {"memory", "database"}
    BY <2>1 DEF M!Form
  <2>4. calm' => Undisturbed'
    <3> SUFFICES ASSUME calm PROVE Undisturbed'
      BY <2>1
    <3>1. \A i \in 1..5 : M!Table[i] \in M!T /\ (Ready(M!Table[i]) \/ Missing(M!Table[i]))
      BY <2>1, FiveTables DEF Undisturbed
    <3>2. \A i \in 1..5 : Ready(M!Table[i])'
      BY <2>1, <3>1 DEF Ready, Missing
    <3>3. \E i \in 1..5 : M!Table[i] = "central_events"
      BY FiveTables
    <3>4. main["central_events"] # "legacy"
      BY <3>1, <3>3 DEF Ready, Missing
    <3> QED  BY <2>1, <3>2, <3>4 DEF Undisturbed
  <2> QED  BY <2>1, <2>2, <2>3, <2>4
<1>4. CASE M!Die
  <2>1. /\ doing # "off" /\ doing' = "off" /\ calm' = (calm /\ doing \in {"database", "memory"})
        /\ UNCHANGED <<had, main, kept, new, at, next>>
    BY <1>4 DEF M!Die
  <2>2. M!RowsSurvive'
    BY <2>1 DEF M!RowsSurvive
  <2>3. ASSUME calm' PROVE Undisturbed'
    <3>1. \A i \in 1..5 : Ready(M!Table[i])
      BY <2>1, <2>3 DEF Undisturbed
    <3>2. \A i \in 1..5 : Ready(M!Table[i])'
      BY <2>1, <3>1 DEF Ready
    <3> QED  BY <2>1, <3>2 DEF Undisturbed
  <2>4. calm' \in BOOLEAN
    BY <2>1
  <2> QED  BY <2>1, <2>2, <2>3, <2>4
<1> QED  BY <1>1, <1>2, <1>3, <1>4

\* Every step of an opening keeps the invariant.
LEMMA MigrationStep == MigrationInv /\ [M!Next]_(M!vars) => MigrationInv'
<1> SUFFICES ASSUME MigrationInv, [M!Next]_(M!vars) PROVE MigrationInv'
  OBVIOUS
<1>1. CASE M!Start \/ M!Columns \/ M!CreateTables \/ M!Die
  BY <1>1, OpeningStep
<1>2. CASE M!Fail
  BY <1>2, BrokenOff DEF M!Fail
<1>3. CASE doing = "rebuild" /\ \/ M!Guard(M!Table[at])
                                \/ M!Create(M!Table[at])
                                \/ M!Copy(M!Table[at])
                                \/ M!Drop(M!Table[at])
                                \/ M!Rename(M!Table[at])
  BY <1>3, GuardTable, CreateTable, CopyTable, DropTable, RenameTable
<1>4. CASE UNCHANGED M!vars
  BY <1>4 DEF M!vars, MigrationInv, M!RowsSurvive, Undisturbed, Reached, Ready, Old, Missing
<1> QED  BY <1>1, <1>2, <1>3, <1>4 DEF M!Next

LEMMA MigrationPromise ==
  MigrationInv => M!MigrationTypeOK /\ M!RowsSurvive /\ M!UndisturbedMigrates
<1> SUFFICES ASSUME MigrationInv
             PROVE  M!MigrationTypeOK /\ M!RowsSurvive /\ M!UndisturbedMigrates
  OBVIOUS
<1>1. M!MigrationTypeOK
  BY FiveTables DEF MigrationInv, M!MigrationTypeOK
<1>2. ASSUME calm, doing \in {"database", "memory"}
      PROVE  /\ doing = "database"
             /\ \A t \in M!T : main[t] = "current" /\ new[t] = "none"
             /\ \A t \in had : kept[t]
  <2>1. doing = "database" /\ \A i \in 1..5 : Ready(M!Table[i])
    BY <1>2 DEF MigrationInv, Undisturbed
  <2>2. \A t \in M!T : Ready(t)
    BY <2>1, FiveTables
  <2> QED  BY <2>1, <2>2 DEF Ready, MigrationInv
<1> QED  BY <1>1, <1>2 DEF MigrationInv, M!UndisturbedMigrates

-----------------------------------------------------------------------------
\* The tables of a node agree (feeds/builder.ts, storage/indexer.ts), in spite of
\* crashes and of writes the database refuses: the feed serves nothing without its
\* evidence row, an event no crash cut short is kept, the activity row of a session
\* is its newest, and a migration cut short anywhere destroys no row.
THEOREM RecordsAlwaysAgree == PartsSpec => []RecordsAgree
<1>1. PartsInit => RecordsInv
  BY RecordsStart DEF PartsInit
<1>2. PartsInit => MigrationInv
  BY MigrationStart DEF PartsInit
<1>3. RecordsInv /\ [PartsNext]_partsVars => RecordsInv'
  BY OnePartMoves, RecordsStep
<1>4. MigrationInv /\ [PartsNext]_partsVars => MigrationInv'
  BY OnePartMoves, MigrationStep
<1>5. RecordsInv /\ MigrationInv => RecordsAgree
  BY RecordsPromise, MigrationPromise DEF RecordsAgree
<1> QED  BY <1>1, <1>2, <1>3, <1>4, <1>5, PTL DEF PartsSpec
-----------------------------------------------------------------------------
(* Releases.                                                               *)

\* Among numbers up to n there is a greatest: n less it is the least.
LEMMA GreatestExists ==
  ASSUME NEW n \in Nat, NEW S \in SUBSET (1..n), S # {}
  PROVE  \E x \in S : \A y \in S : y <= x
<1> DEFINE D == {n - x : x \in S}
<1>1. D \subseteq Nat /\ D # {}
  <2>1. \A x \in S : n - x \in Nat
    OBVIOUS
  <2> QED  BY <2>1
<1> HIDE DEF D
<1>2. PICK less : /\ IsWellFoundedOn(less, Nat)
                  /\ \A i, j \in Nat : <<i, j>> \in less <=> i < j
  BY NatLessThanWellFounded DEF OpToRel
<1>3. IsWellFoundedOn(less, Nat)
  BY <1>2
<1>4. \E m \in D : \A k \in D : ~(<<k, m>> \in less)
  BY <1>1, <1>3, WFMin
<1>5. PICK m \in D : \A k \in D : ~(<<k, m>> \in less)
  BY <1>4
<1>6. PICK x \in S : m = n - x
  BY DEF D
<1>7. ASSUME NEW y \in S PROVE y <= x
  <2>1. x \in 1..n /\ y \in 1..n
    OBVIOUS
  <2>2. n - y \in D
    BY DEF D
  <2>3. n - y \in Nat /\ n - x \in Nat
    BY <2>1
  <2>4. ~(n - y < n - x)
    BY <1>2, <1>5, <1>6, <2>2, <2>3
  <2> QED  BY <2>1, <2>4
<1> QED  BY <1>7

\* What is offered is approved, and so is what a download under way was told.
ReleasesInv ==
  /\ C!ReleasesTypeOK
  /\ manifest \in [Version -> DOMAIN builds \cup {None}]
  /\ bundle \in [Version -> [build: Nat, whole: BOOLEAN, size: Nat] \cup {None}]
  /\ C!Approved \subseteq approved
  /\ job # None => job.sha \in approved
  /\ C!InstalledWasApproved

LEMMA ReleaseConstants ==
  /\ Version \subseteq Nat /\ Size \subseteq Nat
  /\ None \notin Nat /\ None \notin [build: Nat, whole: BOOLEAN, size: Nat]
BY PartsAssumption DEF C!ReleasesAssumption

\* The first of a list that is not empty is on it.
LEMMA FirstIsListed ==
  ASSUME ReleasesInv, C!List("stable") # {}
  PROVE  C!First(C!List("stable")) \in C!List("stable")
<1> DEFINE list == C!List("stable")
<1>1. builds \in Seq([version: Version, channel: {"stable", "canary"}, size: Size])
  BY DEF ReleasesInv, C!ReleasesTypeOK
<1>2. Len(builds) \in Nat /\ DOMAIN builds = 1..Len(builds)
  BY <1>1
<1>3. \A v \in list : v \in Version /\ manifest[v] \in 1..Len(builds)
  BY <1>2, ReleaseConstants DEF ReleasesInv, C!List
<1> DEFINE S == {manifest[v] : v \in list}
<1> HIDE DEF list
<1>4. S \in SUBSET (1..Len(builds)) /\ S # {}
  BY <1>3 DEF list
<1>5. \E x \in S : \A y \in S : y <= x
  <2> HIDE DEF S
  <2> QED  BY <1>2, <1>4, GreatestExists
<1>6. \E v \in list : \A w \in list : manifest[w] <= manifest[v]
  BY <1>5
<1>7. list # {}
  BY DEF list
<1>8. C!First(list) = CHOOSE v \in list : \A w \in list : manifest[w] <= manifest[v]
  BY <1>7 DEF C!First
<1> QED  BY <1>6, <1>8 DEF list

LEMMA ReleasesStart == C!ReleasesInit => ReleasesInv
<1> SUFFICES ASSUME C!ReleasesInit PROVE ReleasesInv
  OBVIOUS
<1>1. builds \in Seq([version: Version, channel: {"stable", "canary"}, size: Size]) /\ DOMAIN builds = {}
  BY DEF C!ReleasesInit
<1>2. C!Approved = {}
  BY DEF C!ReleasesInit, C!Approved, C!List
<1>3. C!ReleasesTypeOK
  BY <1>1 DEF C!ReleasesInit, C!ReleasesTypeOK
<1> QED  BY <1>1, <1>2, <1>3 DEF C!ReleasesInit, ReleasesInv, C!InstalledWasApproved

\* The files of a build: what is there after it is approved if it was or is now.
LEMMA PutStep ==
  ASSUME ReleasesInv, NEW b \in DOMAIN builds, C!PutBundle(b) \/ C!PutManifest(b)
  PROVE  ReleasesInv'
<1> DEFINE v == builds[b].version
<1>1. /\ builds \in Seq([version: Version, channel: {"stable", "canary"}, size: Size])
      /\ approved \subseteq DOMAIN builds
      /\ current \in Version /\ notice \in Version \cup {None}
      /\ UNCHANGED <<builds, job, installed, current, notice>>
      /\ approved' = approved \cup C!Approved'
  BY DEF ReleasesInv, C!ReleasesTypeOK, C!PutBundle, C!PutManifest
<1>2. v \in Version /\ DOMAIN builds \subseteq Nat /\ builds[b].size \in Size
  <2>1. b \in 1..Len(builds)
    BY <1>1, LenProperties
  <2>2. builds[b] \in [version: Version, channel: {"stable", "canary"}, size: Size]
    BY <1>1, <2>1, ElementOfSeq
  <2> QED  BY <1>1, <2>2, LenProperties
<1>3. manifest' \in [Version -> DOMAIN builds \cup {None}]
  BY <1>1, <1>2 DEF ReleasesInv, C!PutBundle, C!PutManifest
<1>4. bundle' \in [Version -> [build: Nat, whole: BOOLEAN, size: Nat] \cup {None}]
  <2>1. CASE C!PutManifest(b)
    BY <2>1 DEF ReleasesInv, C!PutManifest
  <2>2. CASE C!PutBundle(b)
    <3>1. PICK n \in 0..builds[b].size : bundle' = [bundle EXCEPT ![v] =
             [build |-> b, whole |-> n = builds[b].size, size |-> n]]
      BY <2>2 DEF C!PutBundle
    <3>2. n \in Nat /\ b \in Nat
      BY <1>2, ReleaseConstants
    <3>3. [build |-> b, whole |-> n = builds[b].size, size |-> n] \in [build: Nat, whole: BOOLEAN, size: Nat]
      BY <3>2
    <3> HIDE DEF v
    <3> QED  BY <1>2, <3>1, <3>3 DEF ReleasesInv
  <2> QED  BY <2>1, <2>2
<1>5. C!Approved' \subseteq DOMAIN builds
  BY <1>1, <1>3 DEF C!Approved, C!List
<1>6. C!ReleasesTypeOK'
  BY <1>1, <1>3, <1>5 DEF C!ReleasesTypeOK
<1>7. (job # None => job.sha \in approved)' /\ C!InstalledWasApproved'
  BY <1>1 DEF ReleasesInv, C!InstalledWasApproved
<1> QED  BY <1>1, <1>3, <1>4, <1>6, <1>7 DEF ReleasesInv

LEMMA ReleasesStep == ReleasesInv /\ [C!ReleasesNext]_(C!releasesVars) => ReleasesInv'
<1> SUFFICES ASSUME ReleasesInv, [C!ReleasesNext]_(C!releasesVars) PROVE ReleasesInv'
  OBVIOUS
<1>1. /\ builds \in Seq([version: Version, channel: {"stable", "canary"}, size: Size])
      /\ manifest \in [Version -> DOMAIN builds \cup {None}]
      /\ bundle \in [Version -> [build: Nat, whole: BOOLEAN, size: Nat] \cup {None}]
      /\ approved \subseteq DOMAIN builds
      /\ current \in Version /\ notice \in Version \cup {None}
      /\ C!Approved \subseteq approved
      /\ \A bin \in installed : bin.whole /\ bin.build \in approved
      /\ job # None => job.sha \in approved
  BY DEF ReleasesInv, C!ReleasesTypeOK, C!InstalledWasApproved
<1>2. ASSUME NEW v \in Version, NEW channel \in {"stable", "canary"}, NEW n \in Size, C!Build(v, channel, n)
      PROVE  ReleasesInv'
  <2>1. /\ builds' = Append(builds, [version |-> v, channel |-> channel, size |-> n])
        /\ UNCHANGED <<bundle, manifest, job, installed, approved, current, notice>>
    BY <1>2 DEF C!Build
  <2>2. /\ builds' \in Seq([version: Version, channel: {"stable", "canary"}, size: Size])
        /\ DOMAIN builds \subseteq DOMAIN builds'
        /\ \A b \in DOMAIN builds : builds'[b] = builds[b]
    BY <1>1, <2>1
  <2>3. C!Approved' = C!Approved
    <3>1. \A w \in Version : w \in C!List("stable")' <=> w \in C!List("stable")
      BY <1>1, <2>1, <2>2 DEF C!List
    <3>2. C!List("stable")' = C!List("stable")
      BY <3>1 DEF C!List
    <3> QED  BY <2>1, <3>2 DEF C!Approved
  <2>4. C!ReleasesTypeOK'
    BY <1>1, <2>1, <2>2 DEF C!ReleasesTypeOK
  <2> QED  BY <1>1, <2>1, <2>2, <2>3, <2>4 DEF ReleasesInv, C!InstalledWasApproved
<1>3. ASSUME NEW b \in DOMAIN builds, C!PutBundle(b) \/ C!PutManifest(b) PROVE ReleasesInv'
  BY <1>3, PutStep
<1>4. ASSUME NEW v \in Version, C!Remove(v) PROVE ReleasesInv'
  <2>1. UNCHANGED <<builds, job, installed, approved, current, notice>>
    BY <1>4 DEF C!Remove
  <2>2. /\ manifest' \in [Version -> DOMAIN builds \cup {None}]
        /\ bundle' \in [Version -> [build: Nat, whole: BOOLEAN, size: Nat] \cup {None}]
        /\ \A w \in Version : /\ manifest'[w] \in {manifest[w], None}
                              /\ bundle'[w] \in {bundle[w], None}
    BY <1>1, <1>4 DEF C!Remove
  <2>3. C!Approved' \subseteq C!Approved
    <3> SUFFICES ASSUME NEW w \in Version, w \in C!List("stable")'
                 PROVE  w \in C!List("stable") /\ manifest'[w] = manifest[w]
      BY DEF C!Approved, C!List
    <3>1. /\ manifest'[w] # None /\ builds'[manifest'[w]].channel = "stable"
          /\ bundle'[w] # None /\ bundle'[w].size = builds'[manifest'[w]].size
      BY DEF C!List
    <3>2. manifest'[w] = manifest[w] /\ bundle'[w] = bundle[w]
      BY <2>2, <3>1
    <3> QED  BY <2>1, <3>1, <3>2 DEF C!List
  <2>4. C!ReleasesTypeOK'
    BY <1>1, <2>1, <2>2 DEF C!ReleasesTypeOK
  <2> QED  BY <1>1, <2>1, <2>2, <2>3, <2>4 DEF ReleasesInv, C!InstalledWasApproved
<1>5. ASSUME NEW v \in Version, C!Start(v) PROVE ReleasesInv'
  <2>1. UNCHANGED <<builds, bundle, manifest, job, installed, approved>> /\ current' = v
    BY <1>5 DEF C!Start
  <2>2. notice' \in Version \cup {None}
    <3>1. CASE C!List("stable") = {}
      BY <1>5, <3>1 DEF C!Start, C!First
    <3>2. CASE C!List("stable") # {}
      <4>1. C!First(C!List("stable")) \in Version
        BY <3>2, FirstIsListed DEF C!List
      <4> QED  BY <1>5, <4>1 DEF C!Start
    <3> QED  BY <3>1, <3>2
  <2>3. C!Approved' = C!Approved
    BY <2>1 DEF C!Approved, C!List
  <2>4. C!ReleasesTypeOK'
    BY <1>1, <2>1, <2>2 DEF C!ReleasesTypeOK
  <2> QED  BY <1>1, <2>1, <2>3, <2>4 DEF ReleasesInv, C!InstalledWasApproved
<1>6. CASE C!Ask
  <2>1. /\ UNCHANGED <<builds, bundle, manifest, installed, approved, current, notice>>
        /\ C!First(C!List("stable")) # None
        /\ job' = [version |-> C!First(C!List("stable")),
                   sha |-> manifest[C!First(C!List("stable"))]]
    BY <1>6 DEF C!Ask
  <2>2. C!List("stable") # {}
    BY <2>1 DEF C!First
  <2>3. job'.sha \in C!Approved
    BY <2>1, <2>2, FirstIsListed DEF C!Approved
  <2>4. C!Approved' = C!Approved
    BY <2>1 DEF C!Approved, C!List
  <2>5. C!ReleasesTypeOK'
    BY <1>1, <2>1 DEF C!ReleasesTypeOK
  <2> QED  BY <1>1, <2>1, <2>3, <2>4, <2>5 DEF ReleasesInv, C!InstalledWasApproved
<1>7. CASE C!Receive
  <2>1. /\ UNCHANGED <<builds, bundle, manifest, approved, current, notice>>
        /\ job # None /\ job' = None
        /\ \A bin \in installed' : bin \in installed \/ (bin.whole /\ bin.build = job.sha)
    BY <1>7 DEF C!Receive
  <2>2. C!Approved' = C!Approved
    BY <2>1 DEF C!Approved, C!List
  <2>3. C!ReleasesTypeOK'
    BY <1>1, <2>1 DEF C!ReleasesTypeOK
  <2> QED  BY <1>1, <2>1, <2>2, <2>3 DEF ReleasesInv, C!InstalledWasApproved
<1>8. CASE UNCHANGED C!releasesVars
  BY <1>8 DEF C!releasesVars, ReleasesInv, C!ReleasesTypeOK, C!InstalledWasApproved, C!Approved, C!List
<1> QED  BY <1>2, <1>3, <1>4, <1>5, <1>6, <1>7, <1>8 DEF C!ReleasesNext

-----------------------------------------------------------------------------
(* TemplateCatalog.                                                        *)

\* What held hold was stored as the version it stands for.
Originals(held) ==
  \A v \in T!Versions : held[v] # None => <<v, held[v].body>> \in stored

\* And so was what a template says of itself.
Original(template) == template # None => <<template.version, template.body>> \in stored

TemplatesInv ==
  /\ T!TemplateTypeOK /\ time \in 0..MaxSaves
  /\ Originals(templates) /\ Originals(spare)
  /\ Original(asked) /\ Original(served)

LEMMA TemplateConstants ==
  MaxVersion \in Nat /\ MaxSaves \in Nat /\ None \notin T!Row /\ None \notin T!Template
BY PartsAssumption DEF T!TemplateAssumption

LEMMA TemplatesStart == T!TemplateInit => TemplatesInv
BY TemplateConstants DEF T!TemplateInit, TemplatesInv, T!TemplateTypeOK, Originals, Original

\* The newest of the versions there are was stored, and so was what is found of it.
LEMMA FoundIsOriginal ==
  ASSUME NEW held \in [T!Versions -> T!Row \cup {None}], Originals(held),
         NEW want \in SUBSET T!Versions, T!Find(held, want) # None
  PROVE  T!Find(held, want) \in T!Template /\ Original(T!Find(held, want))
<1> DEFINE there == {v \in want : held[v] # None}
           v == T!Newest(there)
<1>1. there # {} /\ there \in SUBSET (1..MaxVersion)
  BY DEF T!Find, T!Versions
<1>2. v \in there
  <2>1. \E x \in there : \A y \in there : y <= x
    BY <1>1, GreatestExists, TemplateConstants
  <2> HIDE DEF there
  <2> QED  BY <2>1 DEF T!Newest
<1>3. T!Find(held, want) = [version |-> v, body |-> held[v].body]
  BY <1>1 DEF T!Find
<1> HIDE DEF v
<1>4. v \in T!Versions /\ held[v] # None /\ held[v] \in T!Row
  BY <1>2
<1>5. [version |-> v, body |-> held[v].body] \in T!Template
  BY <1>4 DEF T!Row, T!Template
<1>6. Original([version |-> v, body |-> held[v].body])
  BY <1>4 DEF Original, Originals
<1> QED  BY <1>3, <1>5, <1>6

\* A version that is saved: a row written over keeps its date.
LEMMA SaveStep ==
  ASSUME TemplatesInv, NEW v \in T!Versions, NEW body \in Body, T!Save(v, body)
  PROVE  /\ TemplatesInv'
         /\ \A w \in T!Versions : templates[w] # None =>
              templates'[w] # None /\ templates'[w].created = templates[w].created
<1> DEFINE Over(old) == [body |-> body, created |-> T!Created(old)]
           record == Over(IF templates[v] # None THEN templates[v] ELSE spare[v])
<1>1. /\ templates \in [T!Versions -> T!Row \cup {None}]
      /\ spare \in [T!Versions -> T!Row \cup {None}]
      /\ served \in T!Template \cup {None} /\ asked \in T!Template \cup {None}
      /\ served' = served /\ asked' = asked
      /\ stored' = stored \cup {<<v, body>>}
  BY DEF TemplatesInv, T!TemplateTypeOK, T!Save
<1>2. time' \in 1..MaxSaves /\ time' \in 0..MaxSaves
  BY TemplateConstants DEF TemplatesInv, T!Save
<1>3. ASSUME NEW old \in T!Row \cup {None}
      PROVE  /\ Over(old) \in T!Row /\ Over(old).body = body
             /\ old # None => Over(old).created = old.created
  <2>1. PICK date \in 1..MaxSaves :
          /\ date = T!Created(old)
          /\ old # None => date = old.created
    BY <1>2 DEF T!Created, T!Row
  <2>2. Over(old) = [body |-> body, created |-> date]
    BY <2>1
  <2>3. [body |-> body, created |-> date] \in T!Row
    BY DEF T!Row
  <2> HIDE DEF Over
  <2> QED  BY <2>1, <2>2, <2>3
<1>4. /\ record \in T!Row /\ record.body = body
      /\ templates[v] # None => record.created = templates[v].created
  <2> HIDE DEF Over
  <2> QED  BY <1>1, <1>3
<1>5. PICK r \in T!Row :
        /\ r.body = body /\ spare' = [spare EXCEPT ![v] = r]
        /\ \/ templates' = [templates EXCEPT ![v] = record]
           \/ templates' = templates
  <2>1. Over(spare[v]) \in T!Row /\ Over(spare[v]).body = body
    BY <1>1, <1>3
  <2> QED  BY <1>4, <2>1 DEF T!Save
<1> HIDE DEF record, Over
<1>6. /\ templates' \in [T!Versions -> T!Row \cup {None}]
      /\ spare' \in [T!Versions -> T!Row \cup {None}]
  BY <1>1, <1>4, <1>5
<1>7. Originals(templates)' /\ Originals(spare)'
  <2>1. ASSUME NEW w \in T!Versions, templates'[w] # None
        PROVE  <<w, templates'[w].body>> \in stored'
    BY <1>1, <1>4, <1>5, <2>1 DEF TemplatesInv, Originals
  <2>2. ASSUME NEW w \in T!Versions, spare'[w] # None
        PROVE  <<w, spare'[w].body>> \in stored'
    BY <1>1, <1>5, <2>2 DEF TemplatesInv, Originals
  <2> QED  BY <2>1, <2>2 DEF Originals
<1>8. Original(asked)' /\ Original(served)'
  BY <1>1 DEF TemplatesInv, Original
<1>9. \A w \in T!Versions : templates[w] # None =>
        templates'[w] # None /\ templates'[w].created = templates[w].created
  BY <1>1, <1>4, <1>5, TemplateConstants
<1> QED  BY <1>1, <1>2, <1>6, <1>7, <1>8, <1>9 DEF TemplatesInv, T!TemplateTypeOK

LEMMA TemplatesStep ==
  ASSUME TemplatesInv, [T!TemplateNext]_(T!templateVars)
  PROVE  /\ TemplatesInv'
         /\ \A w \in T!Versions : templates[w] # None =>
              templates'[w] # None /\ templates'[w].created = templates[w].created
<1>1. /\ templates \in [T!Versions -> T!Row \cup {None}]
      /\ spare \in [T!Versions -> T!Row \cup {None}]
      /\ served \in T!Template \cup {None} /\ asked \in T!Template \cup {None}
      /\ Originals(templates) /\ Originals(spare) /\ Original(asked) /\ Original(served)
  BY DEF TemplatesInv, T!TemplateTypeOK
<1>2. CASE \E v \in T!Versions, body \in Body : T!Save(v, body)
  BY <1>2, SaveStep
<1>3. ASSUME NEW want \in SUBSET T!Versions, T!Apply(want) PROVE TemplatesInv' /\ templates' = templates
  <2>1. /\ UNCHANGED <<templates, spare, time, served, stored>>
        /\ asked' # None /\ asked' \in {T!Find(templates, want), T!Find(spare, want)}
    BY <1>3 DEF T!Apply
  <2>2. asked' \in T!Template /\ Original(asked)'
    <3>1. PICK held \in {templates, spare} : asked' = T!Find(held, want)
      BY <2>1
    <3>2. T!Find(held, want) \in T!Template /\ Original(T!Find(held, want))
      BY <1>1, <2>1, <3>1, FoundIsOriginal
    <3>3. asked' \in T!Template
      BY <3>1, <3>2
    <3>4. <<asked'.version, asked'.body>> \in stored
      BY <2>1, <3>1, <3>2 DEF Original
    <3> QED  BY <2>1, <3>3, <3>4 DEF Original
  <2> QED  BY <1>1, <2>1, <2>2 DEF TemplatesInv, T!TemplateTypeOK, Originals, Original
<1>4. CASE T!Serve \/ T!LoseCommand
  BY <1>1, <1>4 DEF T!Serve, T!LoseCommand, TemplatesInv, T!TemplateTypeOK, Originals, Original
<1>5. CASE T!Restart
  BY <1>1, <1>5 DEF T!Restart, TemplatesInv, T!TemplateTypeOK, Originals, Original
<1>6. CASE UNCHANGED T!templateVars
  BY <1>1, <1>6 DEF T!templateVars, TemplatesInv, T!TemplateTypeOK, Originals, Original
<1>7. templates' = templates => \A w \in T!Versions : templates[w] # None =>
        templates'[w] # None /\ templates'[w].created = templates[w].created
  OBVIOUS
<1>8. CASE \E want \in {{v} : v \in T!Versions} \cup {T!Versions} : T!Apply(want)
  <2>1. PICK want \in SUBSET T!Versions : T!Apply(want)
    BY <1>8
  <2> QED  BY <1>3, <1>7, <2>1
<1>9. T!Serve \/ T!LoseCommand \/ T!Restart \/ UNCHANGED T!templateVars => templates' = templates
  BY DEF T!Serve, T!LoseCommand, T!Restart, T!templateVars
<1> QED  BY <1>2, <1>4, <1>5, <1>6, <1>7, <1>8, <1>9 DEF T!TemplateNext

-----------------------------------------------------------------------------
(* RateLimit.                                                              *)

\* The requests with the timestamps s in the window that ends at a time.
Inside(s, end) == {i \in DOMAIN s : end - Window < s[i] /\ s[i] <= end}

\* The bucket of a client has every request of the present window.
RateInv ==
  /\ clock \in 0..MaxTime
  /\ through \in [Client -> Seq(0..MaxTime)]
  /\ \A c \in Client : \A i \in DOMAIN through[c] : through[c][i] <= clock
  /\ DOMAIN bucket = Client
  /\ \A c \in Client : /\ bucket[c] \subseteq DOMAIN through[c]
                       /\ Inside(through[c], clock) \subseteq bucket[c]
  /\ turned \in [client: Client, at: 0..(MaxTime + 1)]
  /\ turned.at <= clock \/ turned.at = MaxTime + 1
  /\ \A c \in Client, end \in 0..clock : Cardinality(Inside(through[c], end)) <= Limit
  /\ turned.at <= clock => Cardinality(Inside(through[turned.client], turned.at)) = Limit

LEMMA RateConstants == Limit \in Nat \ {0} /\ Window \in Nat \ {0} /\ MaxTime \in Nat
BY PartsAssumption DEF Q!RateLimitAssumption

LEMMA SameSize == \A S : Q!Cardinality(S) = Cardinality(S)
BY DEF Q!Cardinality, Cardinality, Q!IsFiniteSet, IsFiniteSet

LEMMA RateExact == RateInv => Q!LimitIsExact
BY SameSize DEF RateInv, Q!LimitIsExact, Q!InWindow, Inside

LEMMA InsideIsFinite ==
  ASSUME NEW s \in Seq(0..MaxTime), NEW end
  PROVE  IsFiniteSet(Inside(s, end)) /\ Cardinality(Inside(s, end)) \in Nat
<1>1. Inside(s, end) \subseteq 1..Len(s) /\ Len(s) \in Nat
  BY DEF Inside
<1>2. IsFiniteSet(1..Len(s))
  BY <1>1, FS_Interval
<1> QED  BY <1>1, <1>2, FS_Subset, FS_CardinalityType

\* A request more is inside the windows that end when it comes or later.
LEMMA OneMoreInside ==
  ASSUME NEW s \in Seq(0..MaxTime), NEW t \in 0..MaxTime, NEW end \in 0..t
  PROVE  Inside(Append(s, t), end) =
           IF end = t THEN Inside(s, end) \cup {Len(s) + 1} ELSE Inside(s, end)
<1> DEFINE u == Append(s, t)
           n == Len(s)
<1>1. /\ n \in Nat /\ DOMAIN s = 1..n /\ DOMAIN u = 1..(n + 1) /\ u[n + 1] = t
      /\ \A i \in 1..n : u[i] = s[i]
      /\ Window \in Nat \ {0} /\ MaxTime \in Nat
  BY RateConstants
<1> HIDE DEF u, n
<1>3. \A i \in 1..n : i \in Inside(u, end) <=> i \in Inside(s, end)
  BY <1>1 DEF Inside
<1>4. n + 1 \in Inside(u, end) <=> end = t
  BY <1>1 DEF Inside
<1>5. Inside(u, end) \subseteq 1..n \cup {n + 1} /\ Inside(s, end) \subseteq 1..n
  BY <1>1 DEF Inside
<1> DEFINE after == Inside(u, end)
           before == Inside(s, end)
<1> HIDE DEF after, before
<1>6. \A i : i \in after <=> i \in before \/ (end = t /\ i = n + 1)
  <2>1. n + 1 \notin 1..n
    BY <1>1
  <2>2. ASSUME NEW i \in 1..n PROVE i \in after <=> i \in before \/ (end = t /\ i = n + 1)
    BY <1>3, <2>1 DEF after, before
  <2>3. n + 1 \in after <=> n + 1 \in before \/ end = t
    BY <1>4, <1>5, <2>1 DEF after, before
  <2>4. after \subseteq 1..n \cup {n + 1} /\ before \subseteq 1..n
    BY <1>5 DEF after, before
  <2> QED  BY <2>2, <2>3, <2>4
<1>7. end = t => after = before \cup {n + 1}
  BY <1>6
<1>8. end # t => after = before
  BY <1>6
<1> QED  BY <1>7, <1>8 DEF after, before, u, n

LEMMA RateStart == Q!RateInit => RateInv
<1> SUFFICES ASSUME Q!RateInit PROVE RateInv
  OBVIOUS
<1>1. /\ clock = 0 /\ bucket = [c \in Client |-> {}] /\ through = [c \in Client |-> <<>>]
      /\ turned \in [client: Client, at: {MaxTime + 1}]
  BY DEF Q!RateInit
<1>2. ASSUME NEW c \in Client, NEW end PROVE Cardinality(Inside(through[c], end)) <= Limit
  <2>1. Inside(through[c], end) = {}
    BY <1>1 DEF Inside
  <2> QED  BY <2>1, FS_EmptySet, RateConstants
<1>3. \A c \in Client : Inside(through[c], clock) = {}
  BY <1>1 DEF Inside
<1>4. through \in [Client -> Seq(0..MaxTime)] /\ \A c \in Client : DOMAIN through[c] = {}
  BY <1>1
<1>5. /\ turned \in [client: Client, at: 0..(MaxTime + 1)]
      /\ ~(turned.at <= clock) /\ turned.at = MaxTime + 1
  BY <1>1, RateConstants
<1> QED  BY <1>1, <1>2, <1>3, <1>4, <1>5, RateConstants DEF RateInv

\* What is kept of a bucket is the present window.
LEMMA KeptIsInside ==
  ASSUME RateInv, NEW c \in Client
  PROVE  {i \in bucket[c] : clock - through[c][i] < Window} = Inside(through[c], clock)
<1>1. \A i \in DOMAIN through[c] : through[c][i] \in 0..MaxTime /\ through[c][i] <= clock
  <2>1. through[c] \in Seq(0..MaxTime)
    BY DEF RateInv
  <2> QED  BY <2>1, ElementOfSeq, LenProperties DEF RateInv
<1>2. \A i \in DOMAIN through[c] :
        clock - through[c][i] < Window <=> clock - Window < through[c][i]
  BY <1>1, RateConstants DEF RateInv
<1> QED  BY <1>1, <1>2 DEF RateInv, Inside

LEMMA RequestStep ==
  ASSUME RateInv, NEW c \in Client, Q!Request(c)
  PROVE  RateInv'
<1> DEFINE s == through[c]
           present == Inside(s, clock)
           n == Len(s) + 1
           full == Cardinality(present) >= Limit
<1>0. /\ clock \in 0..MaxTime /\ s \in Seq(0..MaxTime) /\ clock' = clock
      /\ through \in [Client -> Seq(0..MaxTime)] /\ DOMAIN bucket = Client
      /\ turned \in [client: Client, at: 0..(MaxTime + 1)]
  BY DEF RateInv, Q!Request
<1>1. IsFiniteSet(present) /\ Cardinality(present) \in Nat /\ Cardinality(present) <= Limit
  <2>1. clock \in 0..clock
    BY <1>0, RateConstants
  <2> QED  BY <1>0, <2>1, InsideIsFinite DEF RateInv
<1>2. /\ bucket' = [bucket EXCEPT ![c] = IF full THEN present ELSE present \cup {n}]
      /\ full => turned' = [client |-> c, at |-> clock] /\ through' = through
      /\ ~full => through' = [through EXCEPT ![c] = Append(s, clock)] /\ turned' = turned
  BY KeptIsInside, SameSize DEF Q!Request, Q!Mark
<1> HIDE DEF present, full
<1>3. CASE full
  <2>1. Cardinality(present) = Limit
    BY <1>1, <1>3, RateConstants DEF full
  <2>2. /\ turned' \in [client: Client, at: 0..(MaxTime + 1)]
        /\ turned'.at <= clock
        /\ Cardinality(Inside(through'[turned'.client], turned'.at)) = Limit
    <3>1. turned' = [client |-> c, at |-> clock] /\ clock \in 0..(MaxTime + 1)
      BY <1>0, <1>2, <1>3, RateConstants
    <3>2. turned'.client = c /\ turned'.at = clock /\ clock <= clock
      BY <3>1
    <3> QED  BY <1>2, <1>3, <2>1, <3>1, <3>2 DEF present
  <2>3. present \subseteq DOMAIN s
    BY DEF present, Inside
  <2>4. bucket' = [bucket EXCEPT ![c] = present] /\ through' = through
    BY <1>2, <1>3
  <2>5. \A x \in Client : /\ bucket'[x] \subseteq DOMAIN through'[x]
                          /\ Inside(through'[x], clock) \subseteq bucket'[x]
    BY <1>0, <2>3, <2>4 DEF RateInv, present
  <2> QED  BY <1>0, <2>2, <2>4, <2>5 DEF RateInv
<1>4. CASE ~full
  <2>1. /\ through' = [through EXCEPT ![c] = Append(s, clock)] /\ turned' = turned
        /\ bucket' = [bucket EXCEPT ![c] = present \cup {n}]
    BY <1>2, <1>4
  <2>2. /\ n \in Nat /\ DOMAIN s = 1..Len(s) /\ Len(s) \in Nat
        /\ Append(s, clock) \in Seq(0..MaxTime) /\ DOMAIN Append(s, clock) = 1..n
        /\ Append(s, clock)[n] = clock /\ \A i \in 1..Len(s) : Append(s, clock)[i] = s[i]
    BY <1>0
  <2>3. through' \in [Client -> Seq(0..MaxTime)]
    BY <1>0, <2>1, <2>2
  <2>4. /\ through'[c] = Append(s, clock) /\ bucket'[c] = present \cup {n}
        /\ \A x \in Client \ {c} : through'[x] = through[x] /\ bucket'[x] = bucket[x]
    BY <1>0, <2>1
  <2>5. \A x \in Client : \A i \in DOMAIN through'[x] : through'[x][i] <= clock
    <3>1. \A i \in 1..n : Append(s, clock)[i] <= clock
      <4>1. \A i \in 1..n : i \in 1..Len(s) \/ i = n
        BY <2>2
      <4>2. \A i \in 1..Len(s) : s[i] <= clock
        BY <2>2 DEF RateInv
      <4>3. clock <= clock
        BY <1>0, RateConstants
      <4> QED  BY <2>2, <4>1, <4>2, <4>3
    <3> QED  BY <2>2, <2>4, <3>1 DEF RateInv
  <2>6. /\ Inside(through'[c], clock) = present \cup {n}
        /\ \A end \in 0..clock : end # clock => Inside(through'[c], end) = Inside(s, end)
    <3>1. clock \in 0..clock
      BY <1>0, RateConstants
    <3> QED  BY <1>0, <2>4, <3>1, OneMoreInside DEF present
  <2>7. n \notin present /\ present \subseteq 1..n
    BY <2>2 DEF present, Inside
  <2>8. \A x \in Client : /\ bucket'[x] \subseteq DOMAIN through'[x]
                          /\ Inside(through'[x], clock) \subseteq bucket'[x]
    <3>1. n \in 1..n
      BY <2>2
    <3>2. bucket'[c] \subseteq DOMAIN through'[c] /\ Inside(through'[c], clock) \subseteq bucket'[c]
      BY <2>2, <2>4, <2>6, <2>7, <3>1
    <3> QED  BY <2>4, <3>2 DEF RateInv
  <2>9. Cardinality(present \cup {n}) <= Limit /\ Cardinality(present) < Limit
    <3>1. Cardinality(present) < Limit
      BY <1>1, <1>4, RateConstants DEF full
    <3>2. Cardinality(present \cup {n}) = Cardinality(present) + 1
      BY <1>1, <2>7, FS_AddElement
    <3> QED  BY <1>1, <3>1, <3>2, RateConstants
  <2>10. ASSUME NEW x \in Client, NEW end \in 0..clock
         PROVE  Cardinality(Inside(through'[x], end)) <= Limit
    <3>1. CASE x # c
      BY <2>4, <3>1 DEF RateInv
    <3>2. CASE x = c /\ end = clock
      BY <2>6, <2>9, <3>2
    <3>3. CASE x = c /\ end # clock
      BY <2>6, <3>3 DEF RateInv
    <3> QED  BY <3>1, <3>2, <3>3
  <2>11. ASSUME turned.at <= clock
         PROVE  Cardinality(Inside(through'[turned.client], turned.at)) = Limit
    <3>1. /\ turned.client \in Client /\ turned.at \in 0..clock
          /\ Cardinality(Inside(through[turned.client], turned.at)) = Limit
      BY <1>0, <2>11, RateConstants DEF RateInv
    <3>2. CASE turned.client # c
      BY <2>4, <3>1, <3>2
    <3>3. CASE turned.client = c /\ turned.at # clock
      BY <2>6, <3>1, <3>3
    <3>4. ~(turned.client = c /\ turned.at = clock)
      <4>1. Cardinality(present) # Limit
        BY <1>1, <2>9, RateConstants
      <4> QED  BY <3>1, <4>1 DEF present
    <3> QED  BY <3>2, <3>3, <3>4
  <2>12. DOMAIN bucket' = Client
    BY <1>0, <2>1
  <2> QED  BY <1>0, <2>1, <2>3, <2>5, <2>8, <2>10, <2>11, <2>12 DEF RateInv
<1> QED  BY <1>3, <1>4

LEMMA RateStep == RateInv /\ [Q!RateNext]_(Q!rateVars) => RateInv'
<1> SUFFICES ASSUME RateInv, [Q!RateNext]_(Q!rateVars) PROVE RateInv'
  OBVIOUS
<1>1. ASSUME NEW c \in Client, Q!Request(c) PROVE RateInv'
  BY <1>1, RequestStep
<1>2. CASE Q!Tick
  <2>1. /\ clock \in 0..MaxTime /\ clock' = clock + 1 /\ clock' \in 0..MaxTime
        /\ UNCHANGED <<bucket, through, turned>>
    BY <1>2, RateConstants DEF RateInv, Q!Tick
  <2>2. /\ through \in [Client -> Seq(0..MaxTime)]
        /\ turned \in [client: Client, at: 0..(MaxTime + 1)]
    BY DEF RateInv
  <2>3. ASSUME NEW c \in Client
        PROVE  /\ Inside(through[c], clock + 1) \subseteq Inside(through[c], clock)
               /\ \A i \in DOMAIN through[c] : through[c][i] <= clock + 1
    <3>1. \A i \in DOMAIN through[c] : through[c][i] \in 0..MaxTime /\ through[c][i] <= clock
      <4>1. through[c] \in Seq(0..MaxTime)
        BY <2>2
      <4> QED  BY <4>1, ElementOfSeq, LenProperties DEF RateInv
    <3> QED  BY <2>1, <3>1, RateConstants DEF Inside
  <2>4. ASSUME NEW c \in Client, NEW end \in 0..(clock + 1)
        PROVE  Cardinality(Inside(through[c], end)) <= Limit
    <3>1. CASE end \in 0..clock
      BY <3>1 DEF RateInv
    <3>2. CASE end = clock + 1
      <4>1. through[c] \in Seq(0..MaxTime) /\ clock \in 0..clock
        BY <2>1, <2>2, RateConstants
      <4>2. /\ IsFiniteSet(Inside(through[c], clock))
            /\ Cardinality(Inside(through[c], clock)) \in Nat
            /\ Cardinality(Inside(through[c], clock + 1)) \in Nat
            /\ Cardinality(Inside(through[c], clock)) <= Limit
        BY <4>1, InsideIsFinite DEF RateInv
      <4>3. Cardinality(Inside(through[c], clock + 1)) <= Cardinality(Inside(through[c], clock))
        BY <2>3, <4>2, FS_Subset
      <4> QED  BY <3>2, <4>2, <4>3, RateConstants
    <3> QED  BY <2>1, <3>1, <3>2, RateConstants
  <2>5. ASSUME turned.at <= clock + 1
        PROVE  Cardinality(Inside(through[turned.client], turned.at)) = Limit
    <3>1. turned.at <= clock
      BY <2>1, <2>2, <2>5, RateConstants DEF RateInv
    <3> QED  BY <3>1 DEF RateInv
  <2> QED  BY <2>1, <2>2, <2>3, <2>4, <2>5 DEF RateInv
<1>3. CASE UNCHANGED Q!rateVars
  BY <1>3 DEF Q!rateVars, RateInv
<1> QED  BY <1>1, <1>2, <1>3 DEF Q!RateNext
-----------------------------------------------------------------------------
\* What Central offers and what its public listener lets through (central/releases.ts,
\* central/server.ts, server/honeypot.ts): an installer starts only builds that stood
\* whole in the stable channel, a node serves nothing but what was stored as the
\* version it reports, of the date it was first stored at, and no window has more
\* requests of a client than the limit.
THEOREM CatalogsAlwaysKeepTheirWord == PartsSpec => CatalogsKeepTheirWord
<1> DEFINE Dated == \A v \in T!Versions : templates[v] # None =>
                      templates'[v] # None /\ templates'[v].created = templates[v].created
<1>1. PartsInit => ReleasesInv /\ TemplatesInv /\ RateInv
  BY ReleasesStart, TemplatesStart, RateStart DEF PartsInit
<1>2. ReleasesInv /\ [PartsNext]_partsVars => ReleasesInv'
  BY OnePartMoves, ReleasesStep
<1>3. TemplatesInv /\ [PartsNext]_partsVars => TemplatesInv' /\ [Dated]_(T!templateVars)
  <2> SUFFICES ASSUME TemplatesInv, [PartsNext]_partsVars PROVE TemplatesInv' /\ Dated
    OBVIOUS
  <2>1. [T!TemplateNext]_(T!templateVars)
    BY OnePartMoves
  <2> QED  BY <2>1, TemplatesStep
<1>4. RateInv /\ [PartsNext]_partsVars => RateInv'
  BY OnePartMoves, RateStep
<1>5. ReleasesInv => C!ReleasesTypeOK /\ C!InstalledWasApproved
  BY DEF ReleasesInv
<1>6. /\ TemplatesInv => T!TemplateTypeOK
      /\ TemplatesInv => (served # None => <<served.version, served.body>> \in stored)
  BY DEF TemplatesInv, Original
<1>7. RateInv => Q!LimitIsExact
  BY RateExact
<1> QED  BY <1>1, <1>2, <1>3, <1>4, <1>5, <1>6, <1>7, PTL
         DEF PartsSpec, CatalogsKeepTheirWord, T!TemplatesKeepTheirOrigin
=============================================================================
