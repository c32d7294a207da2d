------------------------ MODULE SessionEngineProofs ------------------------
(***************************************************************************)
(* Proofs about SessionEngine, for any set of ids, clients, codes and      *)
(* paths, any budgets and times, with or without a storage.                *)
(*                                                                         *)
(* Everything a handler does to the map of sessions is built from steps    *)
(* on one session, so the argument goes session by session: a session is   *)
(* good when it has its type, stands on the ladder, serves one family,     *)
(* remembers the code of everything it closed and has flagged it once;     *)
(* each step keeps a good session good (the lemmas), and the map and the   *)
(* table hold good sessions only (the inductive invariant).                *)
(*                                                                         *)
(* The second part follows a session through its life: every step takes it *)
(* to a later state of itself (Later), so a request lets the sessions of   *)
(* the map go on (GoesOn), and what is fired, what waits, what the bus has *)
(* and what the rows say stay in step (Story).                             *)
(*                                                                         *)
(* The third part shows that the engine implements the abstract ladder: a  *)
(* request leaves every level where it was, or at the bottom for a session *)
(* it creates (Levels), except that a submission lifts the one session it  *)
(* is judged for by one; the two halves of a flush, a crash and a start    *)
(* are the other steps of the ladder.                                      *)
(*                                                                         *)
(* The last part plays the warren on the engine: a walk is a behaviour of  *)
(* it, and what a player knows never reaches past what its level let it    *)
(* see (WalkInv).  It alone assumes the warren's constants, and says so.   *)
(***************************************************************************)
EXTENDS Warren, FiniteSetTheorems, SequenceTheorems, TLAPS

\* The code of every closed level, and of the win, has been submitted.
Remembers(s) ==
  /\ \A n \in 1..TopLevel :
       n <= s.level => [kind |-> "level", of |-> n] \in s.submitted
  /\ s.win => [kind |-> "win", of |-> 0] \in s.submitted

FlaggedOnce(s) == Len(s.fired) = Len(s.closed) + Bit(s.win) + Bit(s.dwell)

Good == {s \in Session : OnLadder(s) /\ OfOneFamily(s) /\ Remembers(s) /\ FlaggedOnce(s)}

GoodMaps == [Sid -> Good \cup {Absent}]

Inv ==
  /\ phase \in {"down", "starting", "up", "flushing"}
  /\ clock \in 0..MaxTime
  /\ generation \in 0..MaxGen
  /\ crashes \in 0..MaxCrashes
  /\ sessions \in GoodMaps
  /\ stored \in GoodMaps
  /\ bus \in [Sid -> Seq(Flag)]

-----------------------------------------------------------------------------
(* Constants.                                                              *)

LEMMA ConstantTypes ==
  /\ TopLevel \in Nat /\ TopLevel >= 1
  /\ WinLevel \in Nat /\ WinLevel = TopLevel + 1
  /\ MaxNodes \in Nat /\ MaxBytes \in Nat /\ MaxTime \in Nat /\ MaxGen \in Nat
  /\ MaxCrashes \in Nat /\ Ttl \in Nat /\ DwellTime \in Nat
  /\ Absent \notin Good
BY TopLevelAssumption, SessionAssumption DEF WinLevel, Good

LEMMA ClientTypes ==
  ASSUME NEW c \in Clients
  PROVE  c.ip \in Ip /\ c.ua \in Ua
BY DEF Ip, Ua

-----------------------------------------------------------------------------
(* The steps of one session keep it good.                                  *)

\* A new session is at the bottom of the ladder, with its only client in it.
LEMMA NewSessionGood ==
  ASSUME NEW c \in Clients, clock \in 0..MaxTime, generation \in 0..MaxGen
  PROVE  NewSession(c) \in Good
<1> DEFINE s == NewSession(c)
<1>1. s \in Session
  BY ConstantTypes, ClientTypes DEF NewSession, Session
<1>2. OnLadder(s)
  BY ConstantTypes DEF NewSession, OnLadder, ClosedUpTo
<1>3. OfOneFamily(s)
  BY DEF NewSession, OfOneFamily
<1>4. Remembers(s)
  BY ConstantTypes DEF NewSession, Remembers
<1>5. FlaggedOnce(s)
  BY DEF NewSession, FlaggedOnce, Bit
<1> QED  BY <1>1, <1>2, <1>3, <1>4, <1>5 DEF Good

\* A client of the same family may enter; it can only make the address known.
LEMMA ResumedGood ==
  ASSUME NEW c \in Clients, NEW s \in Good, SameFamily(s, c), clock \in 0..MaxTime
  PROVE  Resumed(s, c) \in Good
<1> DEFINE t == Resumed(s, c)
<1>0. s \in Session /\ OnLadder(s) /\ OfOneFamily(s) /\ Remembers(s) /\ FlaggedOnce(s)
  BY DEF Good
<1>1. t \in Session
  <2>1. clock \in Nat /\ s.who \cup {c} \in SUBSET Clients
    BY <1>0, ConstantTypes DEF Session
  <2>2. (IF c.ip = NoIp THEN s.ip ELSE c.ip) \in Ip
    BY <1>0, ClientTypes DEF Session
  <2> QED  BY <1>0, <2>1, <2>2 DEF Resumed, Session
<1>2. OfOneFamily(t)
  BY <1>0 DEF Resumed, OfOneFamily, SameFamily, Session
<1>3. OnLadder(t) /\ Remembers(t) /\ FlaggedOnce(t)
  BY <1>0 DEF Resumed, OnLadder, Remembers, FlaggedOnce, Session
<1> QED  BY <1>1, <1>2, <1>3 DEF Good

\* The dwell flag fires once.
LEMMA CheckDwellGood ==
  ASSUME NEW s \in Good
  PROVE  CheckDwell(s) \in Good
<1> DEFINE t == Fire([s EXCEPT !.dwell = TRUE], DwellFlag)
<1>0. s \in Session /\ OnLadder(s) /\ OfOneFamily(s) /\ Remembers(s) /\ FlaggedOnce(s)
  BY DEF Good
<1>1. CASE s.dwell \/ clock - s.created < DwellTime
  BY <1>1 DEF CheckDwell
<1>2. CASE ~(s.dwell \/ clock - s.created < DwellTime)
  <2>1. DwellFlag \in Flag /\ DwellFlag.code \in FlagCode
    BY ConstantTypes DEF DwellFlag, Flag, FlagCode
  <2>2. t \in Session
    <3>1. Append(s.fired, DwellFlag.code) \in Seq(FlagCode)
      BY <1>0, <2>1 DEF Session
    <3>2. Append(s.events, DwellFlag) \in Seq(Flag)
      BY <1>0, <2>1 DEF Session
    <3> QED  BY <1>0, <3>1, <3>2 DEF Fire, Session
  <2>3. OnLadder(t) /\ OfOneFamily(t) /\ Remembers(t)
    BY <1>0 DEF Fire, OnLadder, OfOneFamily, Remembers, Session
  <2>4. FlaggedOnce(t)
    <3>1. /\ t.fired = Append(s.fired, DwellFlag.code)
          /\ t.closed = s.closed /\ t.win = s.win /\ t.dwell = TRUE /\ s.dwell = FALSE
      BY <1>0, <1>2 DEF Fire, Session
    <3>2. Len(t.fired) = Len(s.fired) + 1
      BY <1>0, <2>1, <3>1 DEF Session
    <3>3. Bit(t.dwell) = 1 /\ Bit(s.dwell) = 0 /\ Bit(t.win) = Bit(s.win)
      BY <3>1 DEF Bit
    <3>4. Len(s.closed) \in Nat /\ Len(s.fired) \in Nat /\ Bit(s.win) \in Nat
      BY <1>0 DEF Bit, Session
    <3> QED  BY <1>0, <3>1, <3>2, <3>3, <3>4 DEF FlaggedOnce
  <2>5. CheckDwell(s) = t
    BY <1>2 DEF CheckDwell
  <2> QED  BY <2>2, <2>3, <2>4, <2>5 DEF Good
<1> QED  BY <1>1, <1>2

LEMMA AddBytesGood ==
  ASSUME NEW s \in Good
  PROVE  AddBytes(s) \in Good
<1>0. s \in Session /\ OnLadder(s) /\ OfOneFamily(s) /\ Remembers(s) /\ FlaggedOnce(s)
  BY DEF Good
<1>1. AddBytes(s) \in Session
  <2>1. (IF s.bytes < MaxBytes THEN s.bytes + 1 ELSE s.bytes) \in 0..MaxBytes
    BY <1>0, ConstantTypes DEF Session
  <2> QED  BY <1>0, <2>1 DEF AddBytes, Session
<1>2. OnLadder(AddBytes(s)) /\ OfOneFamily(AddBytes(s))
      /\ Remembers(AddBytes(s)) /\ FlaggedOnce(AddBytes(s))
  BY <1>0 DEF AddBytes, OnLadder, OfOneFamily, Remembers, FlaggedOnce, Session
<1> QED  BY <1>1, <1>2 DEF Good

LEMMA RecordRequestGood ==
  ASSUME NEW s \in Good
  PROVE  RecordRequest(s) \in Good
BY AddBytesGood, CheckDwellGood DEF RecordRequest

\* Visiting a node stays within the node budget.
LEMMA ServeNodeGood ==
  ASSUME NEW s \in Good, NEW path
  PROVE  ServeNode(s, path) \in Good
<1> DEFINE t == [s EXCEPT !.nodes = @ + 1]
<1>0. s \in Session /\ OnLadder(s) /\ OfOneFamily(s) /\ Remembers(s) /\ FlaggedOnce(s)
  BY DEF Good
<1>1. CASE CanAccess(s, path) /\ InBudget(s)
  <2>1. t \in Session
    <3>1. s.nodes + 1 \in 0..MaxNodes
      BY <1>0, <1>1, ConstantTypes DEF InBudget, Session
    <3> QED  BY <1>0, <3>1 DEF Session
  <2>2. OnLadder(t) /\ OfOneFamily(t) /\ Remembers(t) /\ FlaggedOnce(t)
    BY <1>0 DEF OnLadder, OfOneFamily, Remembers, FlaggedOnce, Session
  <2>3. t \in Good
    BY <2>1, <2>2 DEF Good
  <2> QED  BY <1>1, <2>3, AddBytesGood, CheckDwellGood DEF ServeNode
<1>2. CASE ~(CanAccess(s, path) /\ InBudget(s))
  BY <1>2 DEF ServeNode
<1> QED  BY <1>1, <1>2

\* What is accepted is the code of the next level, or the win token at the
\* top: below the top by the verdict, at the top because the flag of the top
\* level has been submitted.
LEMMA AcceptedIsNext ==
  ASSUME NEW s \in Good, NEW code \in Codes, Accepts(s, code)
  PROVE  \/ /\ code = [kind |-> "win", of |-> 0]
            /\ s.level = TopLevel /\ ~s.win
         \/ /\ code = [kind |-> "level", of |-> s.level + 1]
            /\ code.kind # "win"
            /\ TargetLevel(s.level, code) = s.level + 1
            /\ s.level + 1 <= TopLevel
<1>0. s \in Session /\ OnLadder(s) /\ Remembers(s)
  BY DEF Good
<1>1. s.level \in 0..WinLevel /\ s.win \in BOOLEAN
  BY <1>0 DEF Session
<1>2. code \in Code
  BY SessionAssumption
<1>3. code \notin s.submitted /\ Verdict(s, code).accepted
  BY DEF Accepts
<1>4. CASE WinVerdict(TargetLevel(s.level, code), code, s.level)
  <2>1. code.kind = "win" /\ s.level >= TopLevel
    BY <1>4 DEF WinVerdict
  <2>2. code = [kind |-> "win", of |-> 0]
    BY <1>2, <2>1 DEF Code
  <2>3. ~s.win
    BY <1>0, <1>3, <2>2 DEF Remembers
  <2>4. s.level = TopLevel
    BY <1>0, <1>1, <2>1, <2>3, ConstantTypes DEF OnLadder
  <2> QED  BY <2>2, <2>3, <2>4
<1>5. CASE LevelVerdict(TargetLevel(s.level, code), code, s.level)
  <2> DEFINE n == TargetLevel(s.level, code)
  <2>1. code = [kind |-> "level", of |-> n] /\ code.kind = "level"
    BY <1>5 DEF LevelVerdict
  <2>2. n = IF s.level + 1 <= TopLevel THEN s.level + 1 ELSE TopLevel
    BY <2>1 DEF TargetLevel, GuessTargetLevel
  <2>3. s.level + 1 <= TopLevel
    BY <1>0, <1>1, <1>3, <2>1, <2>2, ConstantTypes DEF Remembers
  <2> QED  BY <2>1, <2>2, <2>3
<1>6. Verdict(s, code).accepted
        <=> \/ WinVerdict(TargetLevel(s.level, code), code, s.level)
            \/ LevelVerdict(TargetLevel(s.level, code), code, s.level)
  BY DEF Verdict, VerifyFlag
<1> QED  BY <1>3, <1>4, <1>5, <1>6

\* Closing the next level extends the ladder by its next rung.
LEMMA CloseLevelGood ==
  ASSUME NEW s \in Session, OnLadder(s), OfOneFamily(s), Remembers(s), FlaggedOnce(s),
         s.level + 1 <= TopLevel,
         [kind |-> "level", of |-> s.level + 1] \in s.submitted
  PROVE  CloseLevel(s, s.level + 1) \in Good
<1> DEFINE n == s.level + 1
           t == CloseLevel(s, n)
           flag == LevelFlag(n)
<1>1. /\ s.level \in Nat /\ n \in 1..TopLevel /\ n \in 0..WinLevel /\ n > s.level
      /\ s.closed \in Seq(1..TopLevel) /\ s.fired \in Seq(FlagCode)
      /\ s.events \in Seq(Flag) /\ s.win \in BOOLEAN /\ s.dwell \in BOOLEAN
  BY ConstantTypes DEF Session
<1>2. s.closed = ClosedUpTo(s.level) /\ s.win = FALSE
  BY <1>1, ConstantTypes DEF OnLadder
<1>3. ~ \E i \in DOMAIN s.closed : s.closed[i] = n
  BY <1>1, <1>2 DEF ClosedUpTo
<1>4. flag \in Flag /\ flag.code \in FlagCode
  BY <1>1 DEF LevelFlag, Flag, FlagCode
<1>5. t = [s EXCEPT !.level = n, !.closed = Append(s.closed, n),
                    !.fired = Append(s.fired, flag.code), !.events = Append(s.events, flag)]
  BY <1>1, <1>3 DEF CloseLevel, Fire, Session
<1>6. /\ Append(s.closed, n) \in Seq(1..TopLevel)
      /\ Append(s.fired, flag.code) \in Seq(FlagCode)
      /\ Append(s.events, flag) \in Seq(Flag)
  BY <1>1, <1>4
<1>7. t \in Session
  BY <1>1, <1>5, <1>6 DEF Session
<1>8. /\ t.level = n /\ t.closed = Append(s.closed, n) /\ t.win = FALSE
      /\ t.dwell = s.dwell /\ t.submitted = s.submitted /\ t.who = s.who
      /\ t.ua = s.ua /\ t.ip = s.ip /\ t.fired = Append(s.fired, flag.code)
  BY <1>2, <1>5 DEF Session
<1>9. OnLadder(t)
  <2>1. Append(s.closed, n) = ClosedUpTo(n)
    BY <1>1, <1>2 DEF ClosedUpTo
  <2>2. ~(n > TopLevel) /\ n # WinLevel
    BY <1>1, ConstantTypes
  <2>3. t.closed = ClosedUpTo(IF t.level > TopLevel THEN TopLevel ELSE t.level)
    BY <1>8, <2>1, <2>2
  <2>4. t.win <=> t.level = WinLevel
    BY <1>8, <2>2
  <2> QED  BY <2>3, <2>4 DEF OnLadder
<1>10. Remembers(t)
  BY <1>1, <1>8 DEF Remembers
<1>11. FlaggedOnce(t)
  <2>1. Len(t.fired) = Len(s.fired) + 1 /\ Len(t.closed) = Len(s.closed) + 1
    BY <1>1, <1>4, <1>8
  <2>2. Bit(t.win) = Bit(s.win) /\ Bit(t.dwell) = Bit(s.dwell)
        /\ Bit(s.win) \in Nat /\ Bit(s.dwell) \in Nat
    BY <1>2, <1>8 DEF Bit
  <2>3. Len(s.fired) \in Nat /\ Len(s.closed) \in Nat
    BY <1>1
  <2> QED  BY <2>1, <2>2, <2>3 DEF FlaggedOnce
<1>12. OfOneFamily(t)
  BY <1>8 DEF OfOneFamily
<1> QED  BY <1>7, <1>9, <1>10, <1>11, <1>12 DEF Good

\* The enclosure is the rung above the top one.
LEMMA ReachEnclosureGood ==
  ASSUME NEW s \in Session, OnLadder(s), OfOneFamily(s), Remembers(s), FlaggedOnce(s),
         s.level = TopLevel, ~s.win,
         [kind |-> "win", of |-> 0] \in s.submitted
  PROVE  ReachEnclosure(s) \in Good
<1> DEFINE t == ReachEnclosure(s)
<1>1. /\ s.fired \in Seq(FlagCode) /\ s.closed \in Seq(1..TopLevel)
      /\ s.events \in Seq(Flag) /\ s.dwell \in BOOLEAN /\ s.win = FALSE
      /\ WinLevel \in 0..WinLevel
  BY ConstantTypes DEF Session
<1>2. WinFlag \in Flag /\ WinFlag.code \in FlagCode
  BY <1>1 DEF WinFlag, Flag, FlagCode
<1>3. Append(s.fired, WinFlag.code) \in Seq(FlagCode) /\ Append(s.events, WinFlag) \in Seq(Flag)
  BY <1>1, <1>2
<1>4. t = [s EXCEPT !.win = TRUE, !.level = WinLevel,
                    !.fired = Append(s.fired, WinFlag.code),
                    !.events = Append(s.events, WinFlag)]
  BY DEF ReachEnclosure, Fire, Session
<1>5. t \in Session
  BY <1>1, <1>3, <1>4 DEF Session
<1>6. /\ t.level = WinLevel /\ t.closed = s.closed /\ t.win = TRUE
      /\ t.dwell = s.dwell /\ t.submitted = s.submitted /\ t.who = s.who
      /\ t.ua = s.ua /\ t.ip = s.ip /\ t.fired = Append(s.fired, WinFlag.code)
  BY <1>4 DEF Session
<1>7. OnLadder(t)
  BY <1>6, ConstantTypes DEF OnLadder
<1>8. Remembers(t)
  BY <1>6, ConstantTypes DEF Remembers
<1>9. FlaggedOnce(t)
  <2>1. Len(t.fired) = Len(s.fired) + 1 /\ Len(t.closed) = Len(s.closed)
    BY <1>1, <1>2, <1>6
  <2>2. Bit(t.win) = 1 /\ Bit(s.win) = 0 /\ Bit(t.dwell) = Bit(s.dwell) /\ Bit(s.dwell) \in Nat
    BY <1>1, <1>6 DEF Bit
  <2>3. Len(s.fired) \in Nat /\ Len(s.closed) \in Nat
    BY <1>1
  <2> QED  BY <2>1, <2>2, <2>3 DEF FlaggedOnce
<1>10. OfOneFamily(t)
  BY <1>6 DEF OfOneFamily
<1> QED  BY <1>5, <1>7, <1>8, <1>9, <1>10 DEF Good

\* Whatever is submitted, in whatever order.
LEMMA SubmitCodeGood ==
  ASSUME NEW s \in Good, NEW code \in Codes
  PROVE  SubmitCode(s, code) \in Good
<1> DEFINE heard == [s EXCEPT !.submitted = @ \cup {code}]
<1>0. s \in Session /\ OnLadder(s) /\ OfOneFamily(s) /\ Remembers(s) /\ FlaggedOnce(s)
  BY DEF Good
<1>1. heard \in Session
  <2>1. s.submitted \cup {code} \in SUBSET Codes
    BY <1>0 DEF Session
  <2> QED  BY <1>0, <2>1 DEF Session
<1>2. OnLadder(heard) /\ OfOneFamily(heard) /\ Remembers(heard) /\ FlaggedOnce(heard)
  BY <1>0 DEF OnLadder, OfOneFamily, Remembers, FlaggedOnce, Session
<1>3. heard.level = s.level /\ heard.win = s.win /\ code \in heard.submitted
  BY <1>0 DEF Session
<1>4. CASE ~Accepts(s, code)
  BY <1>1, <1>2, <1>4 DEF SubmitCode, Good
<1>5. CASE Accepts(s, code) /\ code.kind = "win"
  <2>1. code = [kind |-> "win", of |-> 0] /\ s.level = TopLevel /\ ~s.win
    BY <1>5, AcceptedIsNext
  <2>2. ReachEnclosure(heard) \in Good
    BY <1>1, <1>2, <1>3, <2>1, ReachEnclosureGood
  <2> QED  BY <1>5, <2>2 DEF SubmitCode
<1>6. CASE Accepts(s, code) /\ code.kind # "win"
  <2>1. /\ code = [kind |-> "level", of |-> s.level + 1]
        /\ TargetLevel(s.level, code) = s.level + 1 /\ s.level + 1 <= TopLevel
    BY <1>6, AcceptedIsNext
  <2>2. CloseLevel(heard, heard.level + 1) \in Good
    BY <1>1, <1>2, <1>3, <2>1, CloseLevelGood
  <2> QED  BY <1>3, <1>6, <2>1, <2>2 DEF SubmitCode
<1> QED  BY <1>4, <1>5, <1>6

\* What a row keeps, and what a mark adds, is good.
LEMMA RowGood ==
  ASSUME NEW s \in Good
  PROVE  Row(s) \in Good
<1>0. s \in Session /\ OnLadder(s) /\ OfOneFamily(s) /\ Remembers(s) /\ FlaggedOnce(s)
  BY DEF Good
<1>1. <<>> \in Seq(Flag)
  OBVIOUS
<1>2. Row(s) \in Session
  BY <1>0, <1>1 DEF Row, Session
<1>3. OnLadder(Row(s)) /\ OfOneFamily(Row(s)) /\ Remembers(Row(s)) /\ FlaggedOnce(Row(s))
  BY <1>0 DEF Row, OnLadder, OfOneFamily, Remembers, FlaggedOnce, Session
<1> QED  BY <1>2, <1>3 DEF Good

LEMMA MarkedGood ==
  ASSUME NEW s \in Good, NEW c \in Clients
  PROVE  [s EXCEPT !.meta = TRUE, !.markedBy = @ \cup {c}] \in Good
<1> DEFINE t == [s EXCEPT !.meta = TRUE, !.markedBy = @ \cup {c}]
<1>0. s \in Session /\ OnLadder(s) /\ OfOneFamily(s) /\ Remembers(s) /\ FlaggedOnce(s)
  BY DEF Good
<1>1. s.markedBy \cup {c} \in SUBSET Clients
  BY <1>0 DEF Session
<1>2. t \in Session
  BY <1>0, <1>1 DEF Session
<1>3. OnLadder(t) /\ OfOneFamily(t) /\ Remembers(t) /\ FlaggedOnce(t)
  BY <1>0 DEF OnLadder, OfOneFamily, Remembers, FlaggedOnce, Session
<1> QED  BY <1>2, <1>3 DEF Good

-----------------------------------------------------------------------------
(* The operations on the map of sessions keep it a map of good sessions.   *)

LEMMA PutGood ==
  ASSUME NEW ss \in GoodMaps, NEW id \in Sid, NEW s \in Good
  PROVE  [ss EXCEPT ![id] = s] \in GoodMaps
BY DEF GoodMaps

LEMMA AtGood ==
  ASSUME NEW ss \in GoodMaps, NEW id \in Sid, ss[id] # Absent
  PROVE  ss[id] \in Good
BY DEF GoodMaps

LEMMA HomeIsId ==
  ASSUME NEW ss, NEW id \in Sid, NEW c, NEW fresh \in Sid
  PROVE  Home(ss, id, c, fresh) \in Sid
BY DEF Home

LEMMA FreshIsId ==
  ASSUME NEW id \in Sid, NEW c, NEW fresh \in FreshIds(id, c)
  PROVE  fresh \in Sid
BY DEF FreshIds

LEMMA EnteredGood ==
  ASSUME NEW ss \in GoodMaps, NEW id \in Sid, NEW c \in Clients,
         clock \in 0..MaxTime, generation \in 0..MaxGen
  PROVE  Entered(ss, id, c) \in Good
<1>1. CASE ss[id] = Absent \/ IsForeign(ss, id, c)
  BY <1>1, NewSessionGood DEF Entered
<1>2. CASE ~(ss[id] = Absent \/ IsForeign(ss, id, c))
  <2>1. ss[id] \in Good /\ SameFamily(ss[id], c)
    BY <1>2, AtGood DEF IsForeign
  <2> QED  BY <1>2, <2>1, ResumedGood DEF Entered
<1> QED  BY <1>1, <1>2

LEMMA MarkMetaSignalGood ==
  ASSUME NEW ss \in GoodMaps, NEW id \in Sid, NEW c \in Clients
  PROVE  MarkMetaSignal(ss, id, c) \in GoodMaps
<1> DEFINE t == [ss[id] EXCEPT !.meta = TRUE, !.markedBy = @ \cup {c}]
<1>1. CASE ss[id] = Absent
  BY <1>1 DEF MarkMetaSignal
<1>2. CASE ss[id] # Absent
  <2>1. t \in Good
    BY <1>2, AtGood, MarkedGood
  <2>2. MarkMetaSignal(ss, id, c) = [ss EXCEPT ![id] = t]
    BY <1>2 DEF MarkMetaSignal, GoodMaps
  <2> QED  BY <2>1, <2>2, PutGood
<1> QED  BY <1>1, <1>2

LEMMA RowsGood ==
  ASSUME sessions \in GoodMaps
  PROVE  \A id \in Live : Row(sessions[id]) \in Good
BY AtGood, RowGood DEF Live

LEMMA SavedGood ==
  ASSUME sessions \in GoodMaps, stored \in GoodMaps, NEW S \in SUBSET Live
  PROVE  Saved(S) \in GoodMaps
BY RowsGood DEF Saved, GoodMaps

LEMMA AnnouncedType ==
  ASSUME sessions \in GoodMaps, bus \in [Sid -> Seq(Flag)], NEW S \in SUBSET Live
  PROVE  Announced(S) \in [Sid -> Seq(Flag)]
<1>1. \A id \in S : sessions[id].events \in Seq(Flag)
  BY AtGood DEF Live, Good, Session
<1>2. \A id \in S : id \in Sid /\ bus[id] \o sessions[id].events \in Seq(Flag)
  BY <1>1 DEF Live
<1> QED  BY <1>2 DEF Announced

LEMMA NoteBirthsType ==
  ASSUME bus \in [Sid -> Seq(Flag)], NoteBirths
  PROVE  bus' \in [Sid -> Seq(Flag)]
<1>1. <<>> \in Seq(Flag)
  OBVIOUS
<1> QED  BY <1>1 DEF NoteBirths

-----------------------------------------------------------------------------
(* The inductive invariant.                                                *)

LEMMA InitInv == Init => Inv
<1> SUFFICES ASSUME Init PROVE Inv
  OBVIOUS
<1>1. <<>> \in Seq(Flag)
  OBVIOUS
<1> QED  BY <1>1, ConstantTypes DEF Init, Inv, GoodMaps

\* A handler changes the map of sessions and the history of new ids only.
LEMMA RequestInv ==
  ASSUME Inv, NEW c \in Clients, NEW id \in Sid, Request(c, id)
  PROVE  Inv'
<1>0. /\ clock \in 0..MaxTime /\ generation \in 0..MaxGen
      /\ sessions \in GoodMaps /\ stored \in GoodMaps /\ bus \in [Sid -> Seq(Flag)]
  BY DEF Inv
<1> DEFINE s == Entered(sessions, id, c)
<1>s. s \in Good
  BY <1>0, EnteredGood
<1>1. SUFFICES ASSUME sessions' \in GoodMaps, NoteBirths,
                      UNCHANGED <<phase, clock, generation, stored, crashes>>
               PROVE  Inv'
  <2>1. CASE PostSession(c, id)
    <3>1. sessions' \in GoodMaps
      BY <1>0, <2>1, NewSessionGood, PutGood DEF PostSession
    <3> QED  BY <2>1, <3>1, <1>1 DEF PostSession
  <2>2. ASSUME NEW f \in FreshIds(id, c), OpenPage(c, id, f)
        PROVE  Inv'
    <3>1. sessions' \in GoodMaps
      BY <1>0, <1>s, <2>2, FreshIsId, HomeIsId, PutGood DEF OpenPage
    <3> QED  BY <2>2, <3>1, <1>1 DEF OpenPage
  <2>3. ASSUME NEW f \in FreshIds(id, c), NEW code \in Codes, SubmitFlag(c, id, code, f)
        PROVE  Inv'
    <3> DEFINE judged == [sessions EXCEPT ![Home(sessions, id, c, f)] = SubmitCode(s, code)]
    <3>1. judged \in GoodMaps
      BY <1>0, <1>s, FreshIsId, HomeIsId, PutGood, SubmitCodeGood
    <3>2. MarkMetaSignal(judged, id, c) \in GoodMaps
      BY <3>1, MarkMetaSignalGood
    <3>3. sessions' = IF MarksMeta(s, code) THEN MarkMetaSignal(judged, id, c) ELSE judged
      BY <2>3 DEF SubmitFlag
    <3>4. sessions' \in GoodMaps
      BY <3>1, <3>2, <3>3
    <3> QED  BY <2>3, <3>4, <1>1 DEF SubmitFlag
  <2>4. ASSUME NEW f \in FreshIds(id, c), NEW g \in FreshIds(id, c), NEW path \in Paths,
               GetNode(c, id, path, f, g)
        PROVE  Inv'
    <3> DEFINE visited == [sessions EXCEPT ![Home(sessions, id, c, f)] = ServeNode(s, path)]
               counted == [visited EXCEPT ![Home(visited, id, c, g)] =
                                            RecordRequest(Entered(visited, id, c))]
               probed == IF path.probe THEN MarkMetaSignal(counted, id, c) ELSE counted
    <3>1. visited \in GoodMaps
      <4>1. ServeNode(s, path) \in Good
        BY <1>s, ServeNodeGood
      <4> QED  BY <1>0, <4>1, FreshIsId, HomeIsId, PutGood
    <3>2. counted \in GoodMaps
      <4>1. RecordRequest(Entered(visited, id, c)) \in Good
        BY <1>0, <3>1, EnteredGood, RecordRequestGood
      <4>2. Home(visited, id, c, g) \in Sid
        BY FreshIsId, HomeIsId
      <4> HIDE DEF visited
      <4> QED  BY <3>1, <4>1, <4>2, PutGood
    <3>3. probed \in GoodMaps
      <4> HIDE DEF counted
      <4> QED  BY <3>2, MarkMetaSignalGood
    <3>4. sessions' = IF CanAccess(s, path) THEN probed ELSE visited
      BY <2>4 DEF GetNode
    <3>5. sessions' \in GoodMaps
      <4> HIDE DEF visited, probed
      <4> QED  BY <3>1, <3>3, <3>4
    <3> QED  BY <2>4, <3>5, <1>1 DEF GetNode
  <2> QED  BY <2>1, <2>2, <2>3, <2>4 DEF Request
<1>2. bus' \in [Sid -> Seq(Flag)]
  BY <1>0, <1>1, NoteBirthsType
<1> QED  BY <1>1, <1>2 DEF Inv

LEMMA NextInv == Inv /\ [Next]_vars => Inv'
<1> SUFFICES ASSUME Inv, [Next]_vars PROVE Inv'
  OBVIOUS
<1>0. /\ clock \in 0..MaxTime /\ generation \in 0..MaxGen /\ crashes \in 0..MaxCrashes
      /\ sessions \in GoodMaps /\ stored \in GoodMaps /\ bus \in [Sid -> Seq(Flag)]
  BY DEF Inv
<1>1. ASSUME NEW c \in Clients, NEW id \in Sid, Request(c, id) PROVE Inv'
  BY <1>1, RequestInv
<1>2. CASE RotateChallenges
  BY <1>2, ConstantTypes DEF RotateChallenges, Inv
<1>3. CASE FlushEmit
  <2>1. bus' \in [Sid -> Seq(Flag)]
    BY <1>0, <1>3, AnnouncedType DEF FlushEmit
  <2>2. sessions' \in GoodMaps
    BY <1>0, <1>3, RowsGood DEF FlushEmit, GoodMaps
  <2> QED  BY <1>3, <2>1, <2>2 DEF FlushEmit, Inv
<1>4. CASE FlushPersist
  <2>1. stored' \in GoodMaps
    BY <1>0, <1>4, SavedGood DEF FlushPersist
  <2>2. sessions' \in GoodMaps
    BY <1>0, <1>4 DEF FlushPersist, GoodMaps
  <2> QED  BY <1>4, <2>1, <2>2 DEF FlushPersist, Inv
<1>5. ASSUME NEW S \in SUBSET Live, Crash(S) PROVE Inv'
  <2>1. stored' \in GoodMaps
    BY <1>0, <1>5, SavedGood DEF Crash
  <2>2. bus' \in [Sid -> Seq(Flag)]
    BY <1>0, <1>5, AnnouncedType DEF Crash
  <2>3. sessions' \in GoodMaps
    BY <1>5 DEF Crash, GoodMaps
  <2>4. crashes' \in 0..MaxCrashes
    BY <1>0, <1>5, ConstantTypes DEF Crash
  <2> QED  BY <1>5, <2>1, <2>2, <2>3, <2>4 DEF Crash, Inv
<1>6. ASSUME NEW R \in SUBSET Rows, Start(R) PROVE Inv'
  <2>1. sessions' \in GoodMaps
    BY <1>0, <1>6 DEF Start, GoodMaps
  <2> QED  BY <1>6, <2>1 DEF Start, Inv
<1>7. CASE Tick
  BY <1>7, ConstantTypes DEF Tick, Inv
<1>8. CASE UNCHANGED vars
  BY <1>8 DEF vars, Inv
<1> QED  BY <1>1, <1>2, <1>3, <1>4, <1>5, <1>6, <1>7, <1>8 DEF Next

THEOREM Invariance == Spec => []Inv
BY InitInv, NextInv, PTL DEF Spec

-----------------------------------------------------------------------------
(* What a session becomes.                                                 *)

Has(flags, flag) == \E i \in DOMAIN flags : flags[i] = flag

\* The flags a session owes the bus.
Due(s) ==
  {LevelFlag(n) : n \in DOMAIN s.closed}
    \cup {f \in {WinFlag} : s.win} \cup {f \in {DwellFlag} : s.dwell}

\* From s to t, flags were only appended, to the events and to what was fired
\* alike, and nothing became due that does not wait.
Fires(s, t) ==
  /\ Len(t.events) >= Len(s.events)
  /\ Len(t.fired) = Len(s.fired) + (Len(t.events) - Len(s.events))
  /\ \A i \in 1..Len(s.events) : t.events[i] = s.events[i]
  /\ \A i \in 1..Len(s.fired) : t.fired[i] = s.fired[i]
  /\ \A i \in (Len(s.events) + 1)..Len(t.events) :
       t.fired[Len(s.fired) + (i - Len(s.events))] = t.events[i].code
  /\ \A flag \in Due(t) : flag \in Due(s) \/ Has(t.events, flag)

Grows(s, t) ==
  /\ t.gen = s.gen /\ t.ua = s.ua /\ t.created = s.created
  /\ t.level >= s.level /\ t.nodes >= s.nodes /\ s.submitted \subseteq t.submitted
  /\ s.win => t.win /\ t.nodes = s.nodes /\ t.closed = s.closed /\ t.level = s.level
  /\ s.meta => t.meta

\* t is a later state of the session s.
Later(s, t) == Grows(s, t) /\ Fires(s, t)

LEMMA SessionTypes ==
  ASSUME NEW s \in Session
  PROVE  /\ s.events \in Seq(Flag) /\ s.fired \in Seq(FlagCode) /\ s.closed \in Seq(1..TopLevel)
         /\ s.level \in Nat /\ s.nodes \in Nat /\ s.win \in BOOLEAN /\ s.dwell \in BOOLEAN
         /\ Len(s.events) \in Nat /\ DOMAIN s.events = 1..Len(s.events)
         /\ Len(s.fired) \in Nat /\ DOMAIN s.fired = 1..Len(s.fired)
BY ConstantTypes DEF Session

LEMMA QuietFires ==
  ASSUME NEW s \in Session, NEW t \in Session,
         t.events = s.events, t.fired = s.fired,
         t.closed = s.closed, t.win = s.win, t.dwell = s.dwell
  PROVE  Fires(s, t)
BY SessionTypes DEF Fires, Due

LEMMA LoudFires ==
  ASSUME NEW s \in Session, NEW t \in Session, NEW flag \in Flag,
         t.events = Append(s.events, flag), t.fired = Append(s.fired, flag.code),
         \A f \in Due(t) : f \in Due(s) \/ f = flag
  PROVE  Fires(s, t)
<1>1. /\ s.events \in Seq(Flag) /\ s.fired \in Seq(FlagCode)
      /\ Len(s.events) \in Nat /\ Len(s.fired) \in Nat /\ flag.code \in FlagCode
  BY SessionTypes DEF Flag
<1>2. /\ Len(t.events) = Len(s.events) + 1 /\ Len(t.fired) = Len(s.fired) + 1
      /\ t.events[Len(s.events) + 1] = flag /\ t.fired[Len(s.fired) + 1] = flag.code
      /\ \A i \in 1..Len(s.events) : t.events[i] = s.events[i]
      /\ \A i \in 1..Len(s.fired) : t.fired[i] = s.fired[i]
      /\ DOMAIN t.events = 1..(Len(s.events) + 1)
  BY <1>1
<1>3. Has(t.events, flag)
  <2>1. Len(s.events) + 1 \in DOMAIN t.events
    BY <1>1, <1>2
  <2> QED  BY <1>2, <2>1 DEF Has
<1>4. \A i \in (Len(s.events) + 1)..Len(t.events) : i = Len(s.events) + 1
  BY <1>1, <1>2
<1>5. \A i \in (Len(s.events) + 1)..Len(t.events) :
        t.fired[Len(s.fired) + (i - Len(s.events))] = t.events[i].code
  <2> SUFFICES ASSUME NEW i \in (Len(s.events) + 1)..Len(t.events)
               PROVE  t.fired[Len(s.fired) + (i - Len(s.events))] = t.events[i].code
    OBVIOUS
  <2>1. i = Len(s.events) + 1
    BY <1>4
  <2>2. \A e, f \in Nat : f + ((e + 1) - e) = f + 1
    OBVIOUS
  <2>3. Len(s.fired) + (i - Len(s.events)) = Len(s.fired) + 1
    BY <1>1, <2>1, <2>2
  <2> QED  BY <1>2, <2>1, <2>3
<1>6. Len(t.events) >= Len(s.events) /\ Len(t.fired) = Len(s.fired) + (Len(t.events) - Len(s.events))
  BY <1>1, <1>2
<1> QED  BY <1>2, <1>3, <1>5, <1>6 DEF Fires

LEMMA LaterIsReflexive ==
  ASSUME NEW s \in Session
  PROVE  Later(s, s)
BY SessionTypes, QuietFires DEF Later, Grows

LEMMA LaterIsTransitive ==
  ASSUME NEW s \in Session, NEW t \in Session, NEW u \in Session, Later(s, t), Later(t, u)
  PROVE  Later(s, u)
<1>1. Grows(s, u)
  <2>1. s.level \in Nat /\ t.level \in Nat /\ u.level \in Nat
        /\ s.nodes \in Nat /\ t.nodes \in Nat /\ u.nodes \in Nat
    BY SessionTypes
  <2> QED  BY <2>1 DEF Later, Grows
<1>2. Fires(s, u)
  <2> DEFINE se == Len(s.events)
             te == Len(t.events)
             ue == Len(u.events)
             sf == Len(s.fired)
             tf == Len(t.fired)
             uf == Len(u.fired)
  <2>1. se \in Nat /\ te \in Nat /\ ue \in Nat /\ sf \in Nat /\ tf \in Nat /\ uf \in Nat
    BY SessionTypes
  <2>2. /\ te >= se /\ tf = sf + (te - se) /\ ue >= te /\ uf = tf + (ue - te)
        /\ \A i \in 1..se : t.events[i] = s.events[i]
        /\ \A i \in 1..te : u.events[i] = t.events[i]
        /\ \A i \in 1..sf : t.fired[i] = s.fired[i]
        /\ \A i \in 1..tf : u.fired[i] = t.fired[i]
        /\ \A i \in (se + 1)..te : t.fired[sf + (i - se)] = t.events[i].code
        /\ \A i \in (te + 1)..ue : u.fired[tf + (i - te)] = u.events[i].code
    BY DEF Later, Fires
  <2>3. DOMAIN t.events = 1..te /\ DOMAIN u.events = 1..ue
    BY SessionTypes
  <2>4. \A flag \in Due(u) : flag \in Due(s) \/ Has(u.events, flag)
    <3> SUFFICES ASSUME NEW flag \in Due(u), flag \notin Due(s) PROVE Has(u.events, flag)
      OBVIOUS
    <3>1. CASE Has(t.events, flag)
      <4>1. PICK i \in 1..te : t.events[i] = flag
        BY <2>3, <3>1 DEF Has
      <4>2. i \in 1..ue /\ u.events[i] = flag
        BY <2>1, <2>2, <4>1
      <4> QED  BY <2>3, <4>2 DEF Has
    <3>2. CASE ~Has(t.events, flag)
      BY <3>2 DEF Later, Fires
    <3> QED  BY <3>1, <3>2
  <2> HIDE DEF se, te, ue, sf, tf, uf
  <2>5. ue >= se /\ uf = sf + (ue - se)
    BY <2>1, <2>2
  <2>6. /\ \A i \in 1..se : u.events[i] = s.events[i]
        /\ \A i \in 1..sf : u.fired[i] = s.fired[i]
    BY <2>1, <2>2
  <2>7. \A i \in (se + 1)..ue : u.fired[sf + (i - se)] = u.events[i].code
    <3> SUFFICES ASSUME NEW i \in (se + 1)..ue PROVE u.fired[sf + (i - se)] = u.events[i].code
      OBVIOUS
    <3>1. CASE i <= te
      <4>1. i \in (se + 1)..te /\ i \in 1..te /\ sf + (i - se) \in 1..tf
        BY <2>1, <2>2, <3>1
      <4> QED  BY <2>2, <4>1
    <3>2. CASE ~(i <= te)
      <4>1. i \in (te + 1)..ue /\ sf + (i - se) = tf + (i - te)
        BY <2>1, <2>2, <3>2
      <4> QED  BY <2>2, <4>1
    <3> QED  BY <3>1, <3>2
  <2> QED  BY <2>4, <2>5, <2>6, <2>7 DEF Fires, se, ue, sf, uf
<1> QED  BY <1>1, <1>2 DEF Later

LEMMA ResumedLater ==
  ASSUME NEW c \in Clients, NEW s \in Good, SameFamily(s, c), clock \in 0..MaxTime
  PROVE  Later(s, Resumed(s, c))
<1> DEFINE t == Resumed(s, c)
<1>1. s \in Session /\ t \in Session
  BY ResumedGood DEF Good
<1>2. /\ t.events = s.events /\ t.fired = s.fired /\ t.closed = s.closed /\ t.win = s.win
      /\ t.dwell = s.dwell /\ t.gen = s.gen /\ t.ua = s.ua /\ t.created = s.created
      /\ t.level = s.level /\ t.nodes = s.nodes /\ t.submitted = s.submitted /\ t.meta = s.meta
  BY <1>1 DEF Resumed, Session
<1> HIDE DEF t
<1> QED  BY <1>1, <1>2, QuietFires, SessionTypes DEF Later, Grows, t

LEMMA AddBytesLater ==
  ASSUME NEW s \in Good
  PROVE  Later(s, AddBytes(s))
<1> DEFINE t == AddBytes(s)
<1>1. s \in Session /\ t \in Session
  BY AddBytesGood DEF Good
<1>2. /\ t.events = s.events /\ t.fired = s.fired /\ t.closed = s.closed /\ t.win = s.win
      /\ t.dwell = s.dwell /\ t.gen = s.gen /\ t.ua = s.ua /\ t.created = s.created
      /\ t.level = s.level /\ t.nodes = s.nodes /\ t.submitted = s.submitted /\ t.meta = s.meta
  BY <1>1 DEF AddBytes, Session
<1> HIDE DEF t
<1> QED  BY <1>1, <1>2, QuietFires, SessionTypes DEF Later, Grows, t

LEMMA CheckDwellLater ==
  ASSUME NEW s \in Good
  PROVE  Later(s, CheckDwell(s))
<1>0. s \in Session
  BY DEF Good
<1>1. CASE s.dwell \/ clock - s.created < DwellTime
  BY <1>0, <1>1, LaterIsReflexive DEF CheckDwell
<1>2. CASE ~(s.dwell \/ clock - s.created < DwellTime)
  <2> DEFINE t == Fire([s EXCEPT !.dwell = TRUE], DwellFlag)
  <2>1. CheckDwell(s) = t /\ t \in Session
    BY <1>2, CheckDwellGood DEF CheckDwell, Good
  <2>2. DwellFlag \in Flag
    BY ConstantTypes DEF DwellFlag, Flag, FlagCode
  <2>3. /\ t.events = Append(s.events, DwellFlag) /\ t.fired = Append(s.fired, DwellFlag.code)
        /\ t.closed = s.closed /\ t.win = s.win
        /\ t.gen = s.gen /\ t.ua = s.ua /\ t.created = s.created /\ t.level = s.level
        /\ t.nodes = s.nodes /\ t.submitted = s.submitted /\ t.meta = s.meta
    BY <1>0 DEF Fire, Session
  <2> HIDE DEF t
  <2>4. \A f \in Due(t) : f \in Due(s) \/ f = DwellFlag
    BY <2>3 DEF Due
  <2>5. Fires(s, t)
    BY <1>0, <2>1, <2>2, <2>3, <2>4, LoudFires
  <2> QED  BY <1>0, <2>1, <2>3, <2>5, SessionTypes DEF Later, Grows
<1> QED  BY <1>1, <1>2

LEMMA RecordRequestLater ==
  ASSUME NEW s \in Good
  PROVE  Later(s, RecordRequest(s))
<1>1. AddBytes(s) \in Good /\ RecordRequest(s) \in Good
  BY AddBytesGood, RecordRequestGood
<1>2. Later(s, AddBytes(s)) /\ Later(AddBytes(s), RecordRequest(s))
  BY <1>1, AddBytesLater, CheckDwellLater DEF RecordRequest
<1> QED  BY <1>1, <1>2, LaterIsTransitive DEF Good

\* In the enclosure no node is visited any more.
LEMMA ServeNodeLater ==
  ASSUME NEW s \in Good, NEW path
  PROVE  Later(s, ServeNode(s, path))
<1>0. s \in Session /\ OnLadder(s) /\ OfOneFamily(s) /\ Remembers(s) /\ FlaggedOnce(s)
  BY DEF Good
<1>1. CASE CanAccess(s, path) /\ InBudget(s)
  <2> DEFINE t == [s EXCEPT !.nodes = @ + 1]
  <2>1. t \in Session
    <3>1. s.nodes + 1 \in 0..MaxNodes
      BY <1>0, <1>1, ConstantTypes DEF InBudget, Session
    <3> QED  BY <1>0, <3>1 DEF Session
  <2>2. OnLadder(t) /\ OfOneFamily(t) /\ Remembers(t) /\ FlaggedOnce(t)
    BY <1>0 DEF OnLadder, OfOneFamily, Remembers, FlaggedOnce, Session
  <2>3. t \in Good
    BY <2>1, <2>2 DEF Good
  <2>4. /\ t.events = s.events /\ t.fired = s.fired /\ t.closed = s.closed /\ t.win = s.win
        /\ t.dwell = s.dwell /\ t.gen = s.gen /\ t.ua = s.ua /\ t.created = s.created
        /\ t.level = s.level /\ t.nodes = s.nodes + 1 /\ t.submitted = s.submitted
        /\ t.meta = s.meta /\ ~s.win
    BY <1>0, <1>1 DEF Session, InBudget
  <2>5. ServeNode(s, path) = RecordRequest(t)
    BY <1>1 DEF ServeNode, RecordRequest
  <2> HIDE DEF t
  <2>6. Later(s, t)
    BY <1>0, <2>1, <2>4, QuietFires, SessionTypes DEF Later, Grows
  <2>7. Later(t, RecordRequest(t)) /\ RecordRequest(t) \in Session
    BY <2>3, RecordRequestLater, RecordRequestGood DEF Good
  <2> QED  BY <1>0, <2>1, <2>5, <2>6, <2>7, LaterIsTransitive
<1>2. CASE ~(CanAccess(s, path) /\ InBudget(s))
  BY <1>0, <1>2, LaterIsReflexive DEF ServeNode
<1> QED  BY <1>1, <1>2

\* What is accepted closes the next level or enters the enclosure, and in the
\* enclosure nothing is accepted.
LEMMA SubmitCodeLater ==
  ASSUME NEW s \in Good, NEW code \in Codes
  PROVE  Later(s, SubmitCode(s, code))
<1> DEFINE heard == [s EXCEPT !.submitted = @ \cup {code}]
           t == SubmitCode(s, code)
<1>0. s \in Session /\ OnLadder(s) /\ t \in Session
  BY SubmitCodeGood DEF Good
<1>h. /\ heard \in Session
      /\ heard.events = s.events /\ heard.fired = s.fired /\ heard.closed = s.closed
      /\ heard.win = s.win /\ heard.dwell = s.dwell /\ heard.gen = s.gen /\ heard.ua = s.ua
      /\ heard.created = s.created /\ heard.level = s.level /\ heard.nodes = s.nodes
      /\ s.submitted \subseteq heard.submitted /\ heard.meta = s.meta
  <2>1. s.submitted \cup {code} \in SUBSET Codes
    BY <1>0 DEF Session
  <2> QED  BY <1>0, <2>1 DEF Session
<1>1. CASE ~Accepts(s, code)
  <2>1. t = heard
    BY <1>1 DEF SubmitCode
  <2>2. /\ t.events = s.events /\ t.fired = s.fired /\ t.closed = s.closed /\ t.win = s.win
        /\ t.dwell = s.dwell /\ t.gen = s.gen /\ t.ua = s.ua /\ t.created = s.created
        /\ t.level = s.level /\ t.nodes = s.nodes /\ s.submitted \subseteq t.submitted
        /\ t.meta = s.meta
    BY <1>0, <2>1 DEF Session
  <2> HIDE DEF t
  <2> QED  BY <1>0, <2>2, QuietFires, SessionTypes DEF Later, Grows, t
<1>2. CASE Accepts(s, code) /\ code.kind = "win"
  <2>1. s.level = TopLevel /\ ~s.win /\ t = ReachEnclosure(heard)
    BY <1>2, AcceptedIsNext DEF SubmitCode
  <2>2. WinFlag \in Flag
    BY ConstantTypes DEF WinFlag, Flag, FlagCode
  <2>3. /\ t.events = Append(s.events, WinFlag) /\ t.fired = Append(s.fired, WinFlag.code)
        /\ t.closed = s.closed /\ t.dwell = s.dwell
        /\ t.gen = s.gen /\ t.ua = s.ua /\ t.created = s.created /\ t.level = WinLevel
        /\ t.nodes = s.nodes /\ s.submitted \subseteq t.submitted /\ t.meta = s.meta
    <3>1. t = [heard EXCEPT !.win = TRUE, !.level = WinLevel,
                            !.fired = Append(heard.fired, WinFlag.code),
                            !.events = Append(heard.events, WinFlag)]
      BY <1>h, <2>1 DEF ReachEnclosure, Fire, Session
    <3> HIDE DEF heard, t
    <3> QED  BY <1>h, <3>1 DEF Session
  <2> HIDE DEF t
  <2>4. \A f \in Due(t) : f \in Due(s) \/ f = WinFlag
    BY <2>3 DEF Due
  <2>5. Fires(s, t)
    BY <1>0, <2>2, <2>3, <2>4, LoudFires
  <2>6. Grows(s, t)
    <3>1. WinLevel >= s.level
      BY <2>1, ConstantTypes
    <3>2. s.nodes \in Nat
      BY <1>0, SessionTypes
    <3>3. t.nodes >= s.nodes
      BY <2>3, <3>2
    <3>4. ~s.win
      BY <2>1
    <3> QED  BY <2>3, <3>1, <3>3, <3>4 DEF Grows
  <2> QED  BY <2>5, <2>6 DEF Later, t
<1>3. CASE Accepts(s, code) /\ code.kind # "win"
  <2> DEFINE n == s.level + 1
             flag == LevelFlag(n)
  <2>1. n <= TopLevel /\ t = CloseLevel(heard, n)
    BY <1>3, AcceptedIsNext DEF SubmitCode
  <2>2. /\ s.level \in Nat /\ n > s.level /\ n \in 0..WinLevel
        /\ s.closed = ClosedUpTo(s.level) /\ s.win = FALSE
    BY <1>0, <2>1, SessionTypes, ConstantTypes DEF OnLadder
  <2>3. ~ \E i \in DOMAIN s.closed : s.closed[i] = n
    BY <2>2 DEF ClosedUpTo
  <2>4. flag \in Flag
    BY <2>2 DEF LevelFlag, Flag, FlagCode
  <2>5. /\ t.events = Append(s.events, flag) /\ t.fired = Append(s.fired, flag.code)
        /\ t.closed = Append(s.closed, n) /\ t.dwell = s.dwell /\ t.win = s.win
        /\ t.gen = s.gen /\ t.ua = s.ua /\ t.created = s.created /\ t.level = n
        /\ t.nodes = s.nodes /\ s.submitted \subseteq t.submitted /\ t.meta = s.meta
    <3>1. ~ \E i \in DOMAIN heard.closed : heard.closed[i] = n
      BY <1>h, <2>3
    <3>2. heard.level = s.level
      BY <1>h
    <3> HIDE DEF heard, t, n
    <3>3. t = [heard EXCEPT !.level = n, !.closed = Append(heard.closed, n),
                            !.fired = Append(heard.fired, flag.code),
                            !.events = Append(heard.events, flag)]
      BY <1>h, <2>1, <2>2, <3>1, <3>2 DEF CloseLevel, Fire, Session
    <3> HIDE DEF flag
    <3> QED  BY <1>h, <3>3 DEF Session
  <2>6. \A i \in DOMAIN t.closed : i \in DOMAIN s.closed \/ i = n
    <3>1. DOMAIN s.closed = 1..s.level /\ Len(s.closed) = s.level
      BY <1>0, <2>2, SessionTypes DEF ClosedUpTo
    <3>2. DOMAIN t.closed = 1..n
      BY <1>0, <2>2, <2>5, <3>1, SessionTypes, ConstantTypes
    <3> QED  BY <2>2, <3>1, <3>2
  <2> HIDE DEF t, n
  <2>7. \A f \in Due(t) : f \in Due(s) \/ f = flag
    BY <2>5, <2>6 DEF Due
  <2>8. Fires(s, t)
    BY <1>0, <2>4, <2>5, <2>7, LoudFires
  <2>9. Grows(s, t)
    BY <1>0, <2>2, <2>5, SessionTypes DEF Grows, n
  <2> QED  BY <2>8, <2>9 DEF Later, t
<1> QED  BY <1>1, <1>2, <1>3

LEMMA MarkedLater ==
  ASSUME NEW s \in Good, NEW c \in Clients
  PROVE  Later(s, [s EXCEPT !.meta = TRUE, !.markedBy = @ \cup {c}])
<1> DEFINE t == [s EXCEPT !.meta = TRUE, !.markedBy = @ \cup {c}]
<1>1. s \in Session /\ t \in Session
  BY MarkedGood DEF Good
<1>2. /\ t.events = s.events /\ t.fired = s.fired /\ t.closed = s.closed /\ t.win = s.win
      /\ t.dwell = s.dwell /\ t.gen = s.gen /\ t.ua = s.ua /\ t.created = s.created
      /\ t.level = s.level /\ t.nodes = s.nodes /\ t.submitted = s.submitted /\ t.meta = TRUE
  BY <1>1 DEF Session
<1> HIDE DEF t
<1>3. Later(s, t)
  BY <1>1, <1>2, QuietFires, SessionTypes DEF Later, Grows
<1> QED  BY <1>3 DEF t

-----------------------------------------------------------------------------
(* What the map of sessions becomes.                                       *)

\* A session that has done nothing yet.
Newborn ==
  {s \in Good : s.events = <<>> /\ s.fired = <<>> /\ s.closed = <<>> /\ ~s.win /\ ~s.dwell}

\* From the map before a request to ss, sessions went on and new ones came.
GoesOn(ss) ==
  \A id \in Sid :
    /\ sessions[id] # Absent => ss[id] # Absent /\ Later(sessions[id], ss[id])
    /\ sessions[id] = Absent /\ ss[id] # Absent => \E s \in Newborn : Later(s, ss[id])

\* What may be put where ss has r.
Follows(r, t) ==
  /\ r # Absent => Later(r, t)
  /\ r = Absent => \E s \in Newborn : Later(s, t)

LEMMA NewSessionNewborn ==
  ASSUME NEW c \in Clients, clock \in 0..MaxTime, generation \in 0..MaxGen
  PROVE  NewSession(c) \in Newborn
<1>1. NewSession(c) \in Good
  BY NewSessionGood
<1>2. /\ NewSession(c).events = <<>> /\ NewSession(c).fired = <<>> /\ NewSession(c).closed = <<>>
      /\ ~NewSession(c).win /\ ~NewSession(c).dwell
  BY DEF NewSession
<1> QED  BY <1>1, <1>2 DEF Newborn

LEMMA NothingGoesOn ==
  ASSUME sessions \in GoodMaps
  PROVE  GoesOn(sessions)
BY AtGood, LaterIsReflexive DEF GoesOn, Good

LEMMA PutGoesOn ==
  ASSUME sessions \in GoodMaps, NEW ss \in GoodMaps, GoesOn(ss),
         NEW id \in Sid, NEW t \in Good, Follows(ss[id], t)
  PROVE  GoesOn([ss EXCEPT ![id] = t])
<1> DEFINE tt == [ss EXCEPT ![id] = t]
<1>1. tt[id] = t /\ \A o \in Sid \ {id} : tt[o] = ss[o]
  BY DEF GoodMaps
<1>2. t # Absent /\ t \in Session
  BY ConstantTypes DEF Good
<1>3. CASE sessions[id] # Absent
  <2>1. ss[id] # Absent /\ Later(sessions[id], ss[id]) /\ Later(ss[id], t)
    BY <1>3 DEF GoesOn, Follows
  <2>2. sessions[id] \in Session /\ ss[id] \in Session
    BY <1>3, <2>1, AtGood DEF Good
  <2>3. Later(sessions[id], t)
    BY <1>2, <2>1, <2>2, LaterIsTransitive
  <2> HIDE DEF tt
  <2> QED  BY <1>1, <1>2, <1>3, <2>3 DEF GoesOn
<1>4. CASE sessions[id] = Absent
  <2>1. \E s \in Newborn : Later(s, t)
    <3>1. CASE ss[id] = Absent
      BY <3>1 DEF Follows
    <3>2. CASE ss[id] # Absent
      <4>1. PICK s \in Newborn : Later(s, ss[id])
        BY <1>4, <3>2 DEF GoesOn
      <4>2. s \in Session /\ ss[id] \in Session /\ Later(ss[id], t)
        BY <3>2, AtGood DEF Follows, Newborn, Good
      <4> QED  BY <1>2, <4>1, <4>2, LaterIsTransitive
    <3> QED  BY <3>1, <3>2
  <2> HIDE DEF tt
  <2> QED  BY <1>1, <1>4, <2>1 DEF GoesOn
<1> QED  BY <1>3, <1>4

\* What getOrCreate returns follows what was at its id, and whatever it becomes.
LEMMA EnteredFollows ==
  ASSUME NEW ss \in GoodMaps, NEW id \in Sid, NEW c \in Clients, NEW f \in Sid,
         clock \in 0..MaxTime, generation \in 0..MaxGen,
         IsForeign(ss, id, c) => ss[f] = Absent,
         NEW t \in Good, Later(Entered(ss, id, c), t)
  PROVE  Follows(ss[Home(ss, id, c, f)], t)
<1>1. CASE IsForeign(ss, id, c)
  BY <1>1, NewSessionNewborn DEF Home, Entered, Follows
<1>2. CASE ss[id] = Absent
  BY <1>2, NewSessionNewborn DEF Home, Entered, Follows, IsForeign
<1>3. CASE ss[id] # Absent /\ ~IsForeign(ss, id, c)
  <2>1. ss[id] \in Good /\ SameFamily(ss[id], c)
    BY <1>3, AtGood DEF IsForeign
  <2>2. Later(ss[id], Resumed(ss[id], c)) /\ Resumed(ss[id], c) \in Good
    BY <2>1, ResumedGood, ResumedLater
  <2>3. Later(ss[id], t)
    BY <1>3, <2>1, <2>2, LaterIsTransitive DEF Entered, Good
  <2> QED  BY <1>3, <2>3 DEF Home, Follows
<1> QED  BY <1>1, <1>2, <1>3

LEMMA MarkGoesOn ==
  ASSUME sessions \in GoodMaps, NEW ss \in GoodMaps, GoesOn(ss), NEW id \in Sid, NEW c \in Clients
  PROVE  GoesOn(MarkMetaSignal(ss, id, c))
<1> DEFINE t == [ss[id] EXCEPT !.meta = TRUE, !.markedBy = @ \cup {c}]
<1>1. CASE ss[id] = Absent
  BY <1>1 DEF MarkMetaSignal
<1>2. CASE ss[id] # Absent
  <2>1. t \in Good /\ Later(ss[id], t)
    BY <1>2, AtGood, MarkedGood, MarkedLater
  <2>2. MarkMetaSignal(ss, id, c) = [ss EXCEPT ![id] = t]
    BY <1>2 DEF MarkMetaSignal, GoodMaps
  <2>3. Follows(ss[id], t)
    BY <1>2, <2>1 DEF Follows
  <2> HIDE DEF t
  <2> QED  BY <2>1, <2>2, <2>3, PutGoesOn
<1> QED  BY <1>1, <1>2

\* The handlers: every session goes on, and what is new was born just now.
LEMMA RequestGoesOn ==
  ASSUME Inv, NEW c \in Clients, NEW id \in Sid, Request(c, id)
  PROVE  /\ GoesOn(sessions') /\ NoteBirths /\ phase = "up"
         /\ UNCHANGED <<phase, clock, generation, stored, crashes>>
<1>0. /\ clock \in 0..MaxTime /\ generation \in 0..MaxGen /\ sessions \in GoodMaps
      /\ GoesOn(sessions)
  BY NothingGoesOn DEF Inv
<1> DEFINE s == Entered(sessions, id, c)
<1>1. s \in Good
  BY <1>0, EnteredGood
<1>2. ASSUME NEW f \in FreshIds(id, c)
      PROVE  f \in Sid /\ (IsForeign(sessions, id, c) => sessions[f] = Absent)
  BY <1>2 DEF FreshIds
<1>3. ASSUME NEW f \in FreshIds(id, c), NEW t \in Good, Later(s, t)
      PROVE  /\ [sessions EXCEPT ![Home(sessions, id, c, f)] = t] \in GoodMaps
             /\ GoesOn([sessions EXCEPT ![Home(sessions, id, c, f)] = t])
  <2>1. Home(sessions, id, c, f) \in Sid
    BY <1>2, HomeIsId
  <2>2. Follows(sessions[Home(sessions, id, c, f)], t)
    BY <1>0, <1>2, <1>3, EnteredFollows
  <2> QED  BY <1>0, <2>1, <2>2, PutGood, PutGoesOn
<1>4. CASE PostSession(c, id)
  <2>1. NewSession(c) \in Newborn /\ NewSession(c) \in Good
    BY <1>0, NewSessionNewborn, NewSessionGood
  <2>2. Follows(sessions[id], NewSession(c))
    BY <1>4, <2>1, LaterIsReflexive DEF PostSession, Follows, Good
  <2> QED  BY <1>0, <1>4, <2>1, <2>2, PutGoesOn DEF PostSession
<1>5. ASSUME NEW f \in FreshIds(id, c), OpenPage(c, id, f) PROVE GoesOn(sessions')
  BY <1>1, <1>3, <1>5, LaterIsReflexive DEF OpenPage, Good
<1>6. ASSUME NEW f \in FreshIds(id, c), NEW code \in Codes, SubmitFlag(c, id, code, f)
      PROVE  GoesOn(sessions')
  <2> DEFINE judged == [sessions EXCEPT ![Home(sessions, id, c, f)] = SubmitCode(s, code)]
  <2>1. SubmitCode(s, code) \in Good /\ Later(s, SubmitCode(s, code))
    BY <1>1, SubmitCodeGood, SubmitCodeLater
  <2>2. judged \in GoodMaps /\ GoesOn(judged)
    BY <1>3, <2>1
  <2>3. sessions' = IF MarksMeta(s, code) THEN MarkMetaSignal(judged, id, c) ELSE judged
    BY <1>6 DEF SubmitFlag
  <2> HIDE DEF judged
  <2>4. GoesOn(MarkMetaSignal(judged, id, c))
    BY <1>0, <2>2, MarkGoesOn
  <2> QED  BY <2>2, <2>3, <2>4
<1>7. ASSUME NEW f \in FreshIds(id, c), NEW g \in FreshIds(id, c), NEW path \in Paths,
             IsForeign(sessions, id, c) => g # f, GetNode(c, id, path, f, g)
      PROVE  GoesOn(sessions')
  <2> DEFINE visited == [sessions EXCEPT ![Home(sessions, id, c, f)] = ServeNode(s, path)]
             again == RecordRequest(Entered(visited, id, c))
             counted == [visited EXCEPT ![Home(visited, id, c, g)] = again]
             probed == IF path.probe THEN MarkMetaSignal(counted, id, c) ELSE counted
  <2>1. ServeNode(s, path) \in Good /\ Later(s, ServeNode(s, path))
    BY <1>1, ServeNodeGood, ServeNodeLater
  <2>2. visited \in GoodMaps /\ GoesOn(visited)
    BY <1>3, <2>1
  <2>3. Entered(visited, id, c) \in Good /\ again \in Good /\ Later(Entered(visited, id, c), again)
    BY <1>0, <2>2, EnteredGood, RecordRequestGood, RecordRequestLater
  <2>4. IsForeign(visited, id, c) => visited[g] = Absent
    <3> SUFFICES ASSUME IsForeign(visited, id, c) PROVE visited[g] = Absent
      OBVIOUS
    <3>1. CASE IsForeign(sessions, id, c)
      <4>1. visited = [sessions EXCEPT ![f] = ServeNode(s, path)] /\ g # f /\ sessions[g] = Absent
        BY <1>2, <1>7, <3>1 DEF Home
      <4> QED  BY <1>0, <1>2, <4>1 DEF GoodMaps
    <3>2. CASE ~IsForeign(sessions, id, c)
      <4>1. g = id /\ f = id
        BY <3>2 DEF FreshIds
      <4>2. visited[id] = ServeNode(s, path)
        BY <1>0, <3>2 DEF Home, GoodMaps
      <4>3. SameFamily(ServeNode(s, path), c)
        <5>1. s.ua = c.ua /\ (s.ip = c.ip \/ NoIp \in {s.ip, c.ip})
          <6>1. CASE sessions[id] = Absent
            BY <6>1 DEF Entered, NewSession
          <6>2. CASE sessions[id] # Absent
            <7>1. sessions[id] \in Session /\ SameFamily(sessions[id], c)
              BY <1>0, <3>2, <6>2, AtGood DEF IsForeign, Good
            <7>2. s = Resumed(sessions[id], c)
              BY <3>2, <6>2 DEF Entered
            <7>3. s.ua = sessions[id].ua /\ s.ip = IF c.ip = NoIp THEN sessions[id].ip ELSE c.ip
              BY <7>1, <7>2 DEF Resumed, Session
            <7> QED  BY <7>1, <7>3 DEF SameFamily
          <6> QED  BY <6>1, <6>2
        <5>2. ServeNode(s, path).ua = s.ua /\ ServeNode(s, path).ip = s.ip
          BY <1>1 DEF ServeNode, CheckDwell, AddBytes, Fire, Good, Session
        <5> QED  BY <5>1, <5>2 DEF SameFamily
      <4> QED  BY <4>2, <4>3 DEF IsForeign
    <3> QED  BY <3>1, <3>2
  <2>5. counted \in GoodMaps /\ GoesOn(counted)
    <3>1. Home(visited, id, c, g) \in Sid
      BY <1>2, HomeIsId
    <3> HIDE DEF visited, again
    <3>2. Follows(visited[Home(visited, id, c, g)], again)
      BY <1>0, <1>2, <2>2, <2>3, <2>4, EnteredFollows
    <3> QED  BY <1>0, <2>2, <2>3, <3>1, <3>2, PutGood, PutGoesOn
  <2>6. GoesOn(probed)
    <3> HIDE DEF counted
    <3> QED  BY <1>0, <2>5, MarkGoesOn
  <2>7. sessions' = IF CanAccess(s, path) THEN probed ELSE visited
    BY <1>7 DEF GetNode
  <2> HIDE DEF visited, probed
  <2> QED  BY <2>2, <2>6, <2>7
<1>8. GoesOn(sessions')
  BY <1>4, <1>5, <1>6, <1>7 DEF Request
<1>9. NoteBirths /\ phase = "up" /\ UNCHANGED <<phase, clock, generation, stored, crashes>>
  BY DEF Request, PostSession, OpenPage, SubmitFlag, GetNode
<1> QED  BY <1>8, <1>9

-----------------------------------------------------------------------------
(* Sessions, rows and the bus.                                             *)

\* A start reads every row there is.
Small == Cardinality(Sid) <= RehydrateLimit

\* What the bus has of a session is the beginning of what it fired, and the
\* rest waits.
InStep(b, s) ==
  /\ Len(b) + Len(s.events) = Len(s.fired)
  /\ \A i \in 1..Len(b) : b[i].code = s.fired[i]
  /\ \A i \in 1..Len(s.events) : s.events[i].code = s.fired[Len(b) + i]

Told(b, s) == \A flag \in Due(s) : Has(b, flag) \/ Has(s.events, flag)

\* s is ahead of the row r of the same session.
Ahead(s, r) ==
  /\ Grows(r, s)
  /\ Len(s.fired) >= Len(r.fired)
  /\ \A i \in 1..Len(r.fired) : s.fired[i] = r.fired[i]

LEMMA AheadIsReflexive ==
  ASSUME NEW s \in Session
  PROVE  Ahead(s, s)
BY SessionTypes DEF Ahead, Grows

LEMMA AheadIsTransitive ==
  ASSUME NEW r \in Session, NEW s \in Session, NEW t \in Session, Ahead(s, r), Ahead(t, s)
  PROVE  Ahead(t, r)
<1>1. /\ s.level \in Nat /\ t.level \in Nat /\ r.level \in Nat
      /\ s.nodes \in Nat /\ t.nodes \in Nat /\ r.nodes \in Nat
      /\ Len(s.fired) \in Nat /\ Len(t.fired) \in Nat /\ Len(r.fired) \in Nat
  BY SessionTypes
<1>2. Grows(r, t)
  BY <1>1 DEF Ahead, Grows
<1>3. Len(t.fired) >= Len(r.fired) /\ \A i \in 1..Len(r.fired) : t.fired[i] = r.fired[i]
  BY <1>1 DEF Ahead
<1> QED  BY <1>2, <1>3 DEF Ahead

LEMMA LaterIsAhead ==
  ASSUME NEW s \in Session, NEW t \in Session, Later(s, t)
  PROVE  Ahead(t, s)
BY SessionTypes DEF Later, Fires, Ahead

\* Between the two halves of a flush nothing waits; an unexpired row lives; what
\* is due was told or waits, what a row has was told, and sessions are ahead of
\* their rows.
Story ==
  /\ phase = "down" => Live = {}
  /\ phase = "flushing" => \A id \in Live : sessions[id].events = <<>>
  /\ ~Durable => Rows = {} /\ \A id \in Live : InStep(bus[id], sessions[id])
  /\ Small => /\ phase # "down" => Unexpired \subseteq Live
              /\ \A id \in Live : Told(bus[id], sessions[id])
              /\ \A id \in Unexpired : \A flag \in Due(stored[id]) : Has(bus[id], flag)
              /\ \A id \in Unexpired \cap Live : Ahead(sessions[id], stored[id])

LEMMA InStepStays ==
  ASSUME NEW b \in Seq(Flag), NEW s \in Session, NEW t \in Session, InStep(b, s), Later(s, t)
  PROVE  InStep(b, t)
<1> DEFINE l == Len(b)
           se == Len(s.events)
           te == Len(t.events)
           sf == Len(s.fired)
           tf == Len(t.fired)
<1>1. l \in Nat /\ se \in Nat /\ te \in Nat /\ sf \in Nat /\ tf \in Nat
  BY SessionTypes
<1>2. /\ te >= se /\ tf = sf + (te - se)
      /\ \A i \in 1..se : t.events[i] = s.events[i]
      /\ \A i \in 1..sf : t.fired[i] = s.fired[i]
      /\ \A i \in (se + 1)..te : t.fired[sf + (i - se)] = t.events[i].code
  BY DEF Later, Fires
<1>3. /\ l + se = sf
      /\ \A i \in 1..l : b[i].code = s.fired[i]
      /\ \A i \in 1..se : s.events[i].code = s.fired[l + i]
  BY DEF InStep
<1> HIDE DEF l, se, te, sf, tf
<1>4. l + te = tf
  BY <1>1, <1>2, <1>3
<1>5. \A i \in 1..l : b[i].code = t.fired[i]
  BY <1>1, <1>2, <1>3
<1>6. \A i \in 1..te : t.events[i].code = t.fired[l + i]
  <2> SUFFICES ASSUME NEW i \in 1..te PROVE t.events[i].code = t.fired[l + i]
    OBVIOUS
  <2>1. CASE i <= se
    <3>1. i \in 1..se /\ l + i \in 1..sf
      BY <1>1, <1>3, <2>1
    <3> QED  BY <1>2, <1>3, <3>1
  <2>2. CASE ~(i <= se)
    <3>1. i \in (se + 1)..te /\ sf + (i - se) = l + i
      BY <1>1, <1>3, <2>2
    <3> QED  BY <1>2, <3>1
  <2> QED  BY <2>1, <2>2
<1> QED  BY <1>4, <1>5, <1>6 DEF InStep, l, te, tf

LEMMA ToldStays ==
  ASSUME NEW b, NEW s \in Session, NEW t \in Session, Told(b, s), Later(s, t)
  PROVE  Told(b, t)
<1> SUFFICES ASSUME NEW flag \in Due(t), ~Has(t.events, flag) PROVE Has(b, flag)
  BY DEF Told
<1>1. flag \in Due(s)
  BY DEF Later, Fires
<1>2. ~Has(s.events, flag)
  <2> SUFFICES ASSUME Has(s.events, flag) PROVE Has(t.events, flag)
    OBVIOUS
  <2>1. PICK i \in 1..Len(s.events) : s.events[i] = flag
    BY SessionTypes DEF Has
  <2>2. i \in DOMAIN t.events /\ t.events[i] = flag
    BY <2>1, SessionTypes DEF Later, Fires
  <2> QED  BY <2>2 DEF Has
<1> QED  BY <1>1, <1>2 DEF Told

\* A newborn session owes nothing to an empty bus.
LEMMA NewbornInStep ==
  ASSUME NEW s \in Newborn
  PROVE  InStep(<<>>, s) /\ Told(<<>>, s)
<1>1. /\ s.events = <<>> /\ s.fired = <<>> /\ s.closed = <<>> /\ ~s.win /\ ~s.dwell
  BY DEF Newborn
<1>2. Due(s) = {}
  <2>1. DOMAIN s.closed = {}
    BY <1>1
  <2> QED  BY <1>1, <2>1 DEF Due
<1>3. InStep(<<>>, s)
  BY <1>1 DEF InStep
<1> QED  BY <1>2, <1>3 DEF Told

\* What a flush hands over.
LEMMA AnnouncedTells ==
  ASSUME NEW b \in Seq(Flag), NEW s \in Session
  PROVE  /\ \A flag : Has(b \o s.events, flag) <=> Has(b, flag) \/ Has(s.events, flag)
         /\ InStep(b, s) => Codings(b \o s.events) = s.fired
         /\ Told(b, s) => \A flag \in Due(s) : Has(b \o s.events, flag)
<1> DEFINE e == s.events
           q == b \o e
           l == Len(b)
           m == Len(e)
<1>1. e \in Seq(Flag) /\ l \in Nat /\ m \in Nat /\ s.fired \in Seq(FlagCode)
  BY SessionTypes
<1>2. /\ q \in Seq(Flag) /\ Len(q) = l + m
      /\ \A i \in 1..(l + m) : q[i] = IF i <= l THEN b[i] ELSE e[i - l]
  BY <1>1, ConcatProperties
<1>3. DOMAIN q = 1..(l + m) /\ DOMAIN b = 1..l /\ DOMAIN e = 1..m
  BY <1>1, <1>2, LenProperties
<1> HIDE DEF q, l, m, e
<1>4. ASSUME NEW flag PROVE Has(q, flag) <=> Has(b, flag) \/ Has(e, flag)
  <2>1. ASSUME NEW i \in DOMAIN q, q[i] = flag PROVE Has(b, flag) \/ Has(e, flag)
    <3>1. CASE i <= l
      <4>1. i \in DOMAIN b /\ b[i] = flag
        BY <1>1, <1>2, <1>3, <2>1, <3>1
      <4> QED  BY <4>1 DEF Has
    <3>2. CASE ~(i <= l)
      <4>1. i - l \in DOMAIN e /\ e[i - l] = flag
        BY <1>1, <1>2, <1>3, <2>1, <3>2
      <4> QED  BY <4>1 DEF Has
    <3> QED  BY <3>1, <3>2
  <2>2. ASSUME NEW i \in DOMAIN b, b[i] = flag PROVE Has(q, flag)
    <3>1. i \in DOMAIN q /\ q[i] = flag
      BY <1>1, <1>2, <1>3, <2>2
    <3> QED  BY <3>1 DEF Has
  <2>3. ASSUME NEW i \in DOMAIN e, e[i] = flag PROVE Has(q, flag)
    <3>1. i + l \in DOMAIN q /\ ~(i + l <= l) /\ (i + l) - l = i
      BY <1>1, <1>3
    <3>2. q[i + l] = flag
      BY <1>2, <1>3, <2>3, <3>1
    <3> QED  BY <3>1, <3>2 DEF Has
  <2> QED  BY <2>1, <2>2, <2>3 DEF Has
<1>5. ASSUME InStep(b, s) PROVE Codings(q) = s.fired
  <2> DEFINE k == Codings(q)
  <2>1. /\ l + m = Len(s.fired)
        /\ \A i \in 1..l : b[i].code = s.fired[i]
        /\ \A i \in 1..m : e[i].code = s.fired[l + i]
    BY <1>5 DEF InStep, l, m, e
  <2>2. k = [i \in 1..(l + m) |-> q[i].code]
    BY <1>3 DEF Codings
  <2>3. ASSUME NEW i \in 1..(l + m) PROVE q[i].code = s.fired[i]
    <3>1. CASE i <= l
      BY <1>1, <1>2, <2>1, <2>3, <3>1
    <3>2. CASE ~(i <= l)
      <4>1. i - l \in 1..m /\ l + (i - l) = i
        BY <1>1, <3>2
      <4> QED  BY <1>2, <2>1, <3>2, <4>1
    <3> QED  BY <3>1, <3>2
  <2>4. s.fired \in [1..(l + m) -> FlagCode]
    BY <1>1, <2>1, LenProperties
  <2>5. s.fired = [i \in 1..(l + m) |-> s.fired[i]]
    BY <2>4
  <2> HIDE DEF k
  <2>6. k = s.fired
    BY <2>2, <2>3, <2>5
  <2> QED  BY <2>6 DEF k
<1> QED  BY <1>4, <1>5 DEF Told, q, e

LEMMA RequestStory ==
  ASSUME Inv, Story, NEW c \in Clients, NEW id \in Sid, Request(c, id), Inv'
  PROVE  Story'
<1>0. /\ GoesOn(sessions') /\ NoteBirths /\ phase = "up" /\ phase' = "up"
      /\ UNCHANGED <<clock, stored>>
  BY RequestGoesOn
<1>1. /\ sessions \in GoodMaps /\ sessions' \in GoodMaps /\ bus \in [Sid -> Seq(Flag)]
      /\ Unexpired' = Unexpired /\ Rows' = Rows
  BY <1>0 DEF Inv, Unexpired, Rows, Expired
<1>2. ASSUME NEW o \in Live
      PROVE  /\ o \in Sid /\ sessions[o] \in Session /\ sessions'[o] \in Session
             /\ Later(sessions[o], sessions'[o]) /\ bus'[o] = bus[o] /\ o \in Live'
  BY <1>0, <1>1, AtGood DEF Live, GoesOn, NoteBirths, Good
<1>3. ASSUME NEW o \in Live', o \notin Live
      PROVE  /\ o \in Sid /\ sessions'[o] \in Session /\ bus'[o] = <<>>
             /\ \E s \in Newborn : Later(s, sessions'[o])
  BY <1>0, <1>1, <1>3, AtGood DEF Live, GoesOn, NoteBirths, Good
<1>4. ASSUME NEW o \in Live', o \notin Live
      PROVE  InStep(bus'[o], sessions'[o]) /\ Told(bus'[o], sessions'[o])
  <2>1. PICK s \in Newborn : Later(s, sessions'[o])
    BY <1>3, <1>4
  <2>2. s \in Session /\ <<>> \in Seq(Flag)
    BY DEF Newborn, Good
  <2> QED  BY <1>3, <1>4, <2>1, <2>2, NewbornInStep, InStepStays, ToldStays
<1>5. ASSUME ~Durable, NEW o \in Live' PROVE InStep(bus'[o], sessions'[o])
  <2>1. CASE o \in Live
    BY <1>1, <1>2, <1>5, <2>1, InStepStays DEF Story
  <2> QED  BY <1>4, <2>1
<1>6. ASSUME Small
      PROVE  /\ (Unexpired \subseteq Live)'
             /\ \A o \in Live' : Told(bus'[o], sessions'[o])
             /\ \A o \in Unexpired' : \A flag \in Due(stored'[o]) : Has(bus'[o], flag)
             /\ \A o \in Unexpired' \cap Live' : Ahead(sessions'[o], stored'[o])
  <2>1. Unexpired \subseteq Live
    BY <1>0, <1>6 DEF Story
  <2>2. ASSUME NEW o \in Live' PROVE Told(bus'[o], sessions'[o])
    <3>1. CASE o \in Live
      <4>1. Told(bus[o], sessions[o])
        BY <1>6, <3>1 DEF Story
      <4> QED  BY <1>2, <3>1, <4>1, ToldStays
    <3> QED  BY <1>4, <3>1
  <2>3. ASSUME NEW o \in Unexpired' PROVE \A flag \in Due(stored'[o]) : Has(bus'[o], flag)
    BY <1>0, <1>1, <1>2, <1>6, <2>1, <2>3 DEF Story
  <2>4. ASSUME NEW o \in Unexpired' PROVE Ahead(sessions'[o], stored'[o])
    <3>1. o \in Live /\ Ahead(sessions[o], stored[o])
      BY <1>1, <1>6, <2>1, <2>4 DEF Story
    <3>2. stored[o] \in Session
      BY <1>1, <2>4, AtGood DEF Inv, Unexpired, Rows, Good
    <3> QED  BY <1>0, <1>2, <3>1, <3>2, LaterIsAhead, AheadIsTransitive
  <2> QED  BY <1>1, <1>2, <2>1, <2>2, <2>3, <2>4
<1>7. ~Durable => Rows' = {}
  BY <1>1 DEF Story
<1>8. Small' = Small
  BY DEF Small
<1> QED  BY <1>0, <1>5, <1>6, <1>7 DEF Story, Small

\* What a flush writes of a session.
LEMMA RowFields ==
  ASSUME NEW s \in Good
  PROVE  /\ Row(s) \in Session /\ Row(s).events = <<>> /\ Due(Row(s)) = Due(s)
         /\ Row(s).fired = s.fired /\ Row(s).seen = s.seen
         /\ Ahead(s, Row(s)) /\ Ahead(Row(s), s)
<1>1. s \in Session /\ Row(s) \in Session
  BY RowGood DEF Good
<1>2. /\ Row(s).events = <<>> /\ Row(s).fired = s.fired /\ Row(s).closed = s.closed
      /\ Row(s).win = s.win /\ Row(s).dwell = s.dwell /\ Row(s).gen = s.gen /\ Row(s).ua = s.ua
      /\ Row(s).created = s.created /\ Row(s).level = s.level /\ Row(s).nodes = s.nodes
      /\ Row(s).submitted = s.submitted /\ Row(s).meta = s.meta /\ Row(s).seen = s.seen
  BY <1>1 DEF Row, Session
<1> QED  BY <1>1, <1>2, SessionTypes DEF Due, Ahead, Grows

LEMMA FlushEmitStory ==
  ASSUME Inv, Story, FlushEmit
  PROVE  Story'
<1>1. /\ sessions \in GoodMaps /\ stored \in GoodMaps /\ bus \in [Sid -> Seq(Flag)]
      /\ phase' = "flushing" /\ Unexpired' = Unexpired /\ Rows' = Rows
  BY DEF Inv, FlushEmit, Unexpired, Rows, Expired
<1>2. Live' = Live
  <2>1. \A id \in Live : Row(sessions[id]) # Absent
    BY <1>1, RowsGood, ConstantTypes
  <2> QED  BY <2>1 DEF FlushEmit, Live
<1>3. ASSUME NEW id \in Live
      PROVE  /\ id \in Sid /\ sessions[id] \in Good /\ sessions[id] \in Session
             /\ sessions'[id] = Row(sessions[id]) /\ bus[id] \in Seq(Flag)
             /\ bus'[id] = bus[id] \o sessions[id].events
  BY <1>1, AtGood DEF Live, FlushEmit, Announced, Good
<1>r. ASSUME NEW id \in Live
      PROVE  /\ sessions'[id] \in Session /\ sessions'[id].events = <<>>
             /\ sessions'[id].fired = sessions[id].fired /\ Due(sessions'[id]) = Due(sessions[id])
             /\ Ahead(sessions'[id], sessions[id])
             /\ \A flag : Has(bus'[id], flag) <=> Has(bus[id], flag) \/ Has(sessions[id].events, flag)
             /\ InStep(bus[id], sessions[id]) => Codings(bus'[id]) = sessions[id].fired
             /\ Told(bus[id], sessions[id]) => \A flag \in Due(sessions[id]) : Has(bus'[id], flag)
  <2> DEFINE s == sessions[id]
             b == bus[id]
  <2>1. s \in Good /\ s \in Session /\ b \in Seq(Flag)
    BY <1>3
  <2>2. sessions'[id] = Row(s) /\ bus'[id] = b \o s.events
    BY <1>3
  <2> HIDE DEF s, b
  <2>3. /\ Row(s) \in Session /\ Row(s).events = <<>> /\ Due(Row(s)) = Due(s)
        /\ Row(s).fired = s.fired /\ Ahead(Row(s), s)
    BY <2>1, RowFields
  <2>4. /\ \A flag : Has(b \o s.events, flag) <=> Has(b, flag) \/ Has(s.events, flag)
        /\ InStep(b, s) => Codings(b \o s.events) = s.fired
        /\ Told(b, s) => \A flag \in Due(s) : Has(b \o s.events, flag)
    BY <2>1, AnnouncedTells
  <2> QED  BY <2>2, <2>3, <2>4 DEF s, b
<1>4. ASSUME NEW id \in Live, NEW flag, Has(bus[id], flag) PROVE Has(bus'[id], flag)
  BY <1>4, <1>r
<1>5. ASSUME ~Durable, NEW id \in Live PROVE InStep(bus'[id], sessions'[id])
  <2>1. InStep(bus[id], sessions[id])
    BY <1>5 DEF Story
  <2>2. Codings(bus'[id]) = sessions'[id].fired /\ sessions'[id].events = <<>>
    BY <1>3, <1>r, <2>1
  <2>3. bus'[id] \in Seq(Flag)
    BY <1>3, SessionTypes, ConcatProperties
  <2>4. DOMAIN bus'[id] = 1..Len(bus'[id]) /\ Len(bus'[id]) \in Nat
    BY <2>3, LenProperties
  <2> DEFINE f == sessions'[id].fired
             q == bus'[id]
  <2>5. f = [i \in 1..Len(q) |-> q[i].code]
    BY <2>2, <2>4 DEF Codings
  <2>6. f \in Seq(FlagCode)
    BY <1>3, RowFields, SessionTypes
  <2>7. Len(f) = Len(q)
    <3>1. DOMAIN f = 1..Len(f) /\ Len(f) \in Nat
      BY <2>6, LenProperties
    <3>2. DOMAIN f = 1..Len(q)
      BY <2>5
    <3> HIDE DEF f, q
    <3>3. Len(q) \in Nat
      BY <2>4 DEF q
    <3> QED  BY <3>1, <3>2, <3>3
  <2>8. Len(sessions'[id].events) = 0
    BY <2>2
  <2> QED  BY <2>4, <2>5, <2>7, <2>8 DEF InStep
<1>6. ASSUME Small
      PROVE  /\ Unexpired \subseteq Live
             /\ \A id \in Live : Told(bus'[id], sessions'[id])
             /\ \A id \in Unexpired : \A flag \in Due(stored[id]) : Has(bus'[id], flag)
             /\ \A id \in Unexpired \cap Live : Ahead(sessions'[id], stored[id])
  <2>1. Unexpired \subseteq Live
    BY <1>6 DEF Story, FlushEmit
  <2>2. ASSUME NEW id \in Live PROVE Told(bus'[id], sessions'[id])
    <3>1. Told(bus[id], sessions[id])
      BY <1>6 DEF Story
    <3> QED  BY <1>3, <1>r, <3>1 DEF Told
  <2>3. ASSUME NEW id \in Unexpired PROVE \A flag \in Due(stored[id]) : Has(bus'[id], flag)
    BY <1>4, <1>6, <2>1 DEF Story
  <2>4. ASSUME NEW id \in Unexpired \cap Live PROVE Ahead(sessions'[id], stored[id])
    <3>1. Ahead(sessions[id], stored[id])
      BY <1>6 DEF Story
    <3>2. stored[id] \in Session
      BY <1>1, AtGood DEF Unexpired, Rows, Good
    <3>3. Ahead(sessions'[id], sessions[id]) /\ sessions'[id] \in Session
      BY <1>r
    <3> QED  BY <1>3, <3>1, <3>2, <3>3, AheadIsTransitive
  <2> QED  BY <2>1, <2>2, <2>3, <2>4
<1>7. \A id \in Live : sessions'[id].events = <<>>
  BY <1>r
<1>8. stored' = stored
  BY DEF FlushEmit
<1> QED  BY <1>1, <1>2, <1>5, <1>6, <1>7, <1>8 DEF Story, Small

\* The table after the sessions S were saved, in a flush that emitted before:
\* what it has was told, and it is not ahead of anything.
LEMMA SavedStory ==
  ASSUME Inv, Story, phase = "flushing", NEW S \in SUBSET Live, stored' = Saved(S),
         UNCHANGED <<clock, bus>>
  PROVE  /\ ~Durable => Rows' = {}
         /\ Small => /\ Unexpired' \subseteq Live
                     /\ \A id \in Unexpired' : \A flag \in Due(stored'[id]) : Has(bus'[id], flag)
                     /\ \A id \in Unexpired' : Ahead(sessions[id], stored'[id])
         /\ \A id \in S : Durable => (Expired(sessions[id]) <=> Expired(stored[id])')
<1>1. sessions \in GoodMaps /\ stored \in GoodMaps
  BY DEF Inv
<1>2. ASSUME NEW id \in S, Durable
      PROVE  /\ id \in Live /\ sessions[id] \in Good /\ stored'[id] = Row(sessions[id])
             /\ Expired(sessions[id]) <=> Expired(stored[id])'
  <2>1. id \in Live /\ sessions[id] \in Good /\ stored'[id] = Row(sessions[id])
    BY <1>1, <1>2, AtGood DEF Live, Saved
  <2>2. stored'[id].seen = sessions[id].seen
    BY <2>1, RowFields
  <2> QED  BY <2>1, <2>2 DEF Expired
<1>3. ASSUME NEW id \in Sid, ~(Durable /\ id \in S)
      PROVE  stored'[id] = stored[id] /\ (id \in Unexpired' => id \in Unexpired)
  BY <1>3 DEF Saved, Unexpired, Rows, Expired
<1>4. ~Durable => Rows' = {}
  BY <1>3 DEF Story, Rows
<1>5. ASSUME Small, NEW id \in Unexpired'
      PROVE  /\ id \in Live /\ Ahead(sessions[id], stored'[id])
             /\ \A flag \in Due(stored'[id]) : Has(bus'[id], flag)
  <2>1. id \in Sid
    BY <1>5 DEF Unexpired, Rows
  <2>2. CASE Durable /\ id \in S
    <3>1. Told(bus[id], sessions[id]) /\ sessions[id].events = <<>>
      BY <1>2, <1>5, <2>2 DEF Story
    <3>2. \A flag : ~Has(sessions[id].events, flag)
      BY <3>1 DEF Has
    <3> QED  BY <1>2, <2>2, <3>1, <3>2, RowFields DEF Told
  <2>3. CASE ~(Durable /\ id \in S)
    <3>1. id \in Unexpired /\ stored'[id] = stored[id]
      BY <1>3, <1>5, <2>1, <2>3
    <3> QED  BY <1>5, <3>1 DEF Story
  <2> QED  BY <2>2, <2>3
<1> QED  BY <1>2, <1>4, <1>5

LEMMA FlushPersistStory ==
  ASSUME Inv, Story, FlushPersist
  PROVE  Story'
<1>1. /\ phase = "flushing" /\ stored' = Saved(Live) /\ UNCHANGED <<clock, bus>> /\ phase' = "up"
      /\ sessions \in GoodMaps
  BY DEF FlushPersist, Inv
<1>2. /\ ~Durable => Rows' = {}
      /\ Small => /\ Unexpired' \subseteq Live
                  /\ \A id \in Unexpired' : \A flag \in Due(stored'[id]) : Has(bus'[id], flag)
                  /\ \A id \in Unexpired' : Ahead(sessions[id], stored'[id])
      /\ \A id \in Live : Durable => (Expired(sessions[id]) <=> Expired(stored[id])')
  BY <1>1, SavedStory
<1>3. \A id \in Live' : id \in Live /\ sessions'[id] = sessions[id] /\ bus'[id] = bus[id]
  BY <1>1 DEF FlushPersist, Live
<1>4. ASSUME Small, NEW id \in Unexpired' PROVE id \in Live'
  <2>1. id \in Live /\ Durable /\ ~Expired(stored[id])'
    BY <1>2, <1>4 DEF Unexpired
  <2>2. ~Expired(sessions[id])
    BY <1>2, <2>1
  <2> QED  BY <2>1, <2>2 DEF FlushPersist, Live
<1>5. Small => Small'
  BY DEF Small
<1> QED  BY <1>1, <1>2, <1>3, <1>4 DEF Story, Small

LEMMA CrashStory ==
  ASSUME Inv, Story, NEW S \in SUBSET Live, Crash(S)
  PROVE  Story'
<1>1. /\ sessions \in GoodMaps /\ stored \in GoodMaps /\ bus \in [Sid -> Seq(Flag)]
      /\ Live' = {} /\ clock' = clock /\ phase' = "down" /\ phase # "down"
  BY DEF Inv, Crash, Live
<1>2. CASE phase = "flushing"
  <2>1. stored' = Saved(S) /\ UNCHANGED <<clock, bus>>
    BY <1>2 DEF Crash
  <2> QED  BY <1>1, <1>2, <2>1, SavedStory DEF Story, Small
<1>3. CASE phase # "flushing"
  <2>1. stored' = stored /\ Rows' = Rows /\ Unexpired' = Unexpired
    BY <1>1, <1>3 DEF Crash, Rows, Unexpired, Expired
  <2>2. bus' = Announced(S)
    BY <1>1, <1>3 DEF Crash, Inv
  <2>3. ASSUME NEW id \in Sid, NEW flag, Has(bus[id], flag) PROVE Has(bus'[id], flag)
    <3>1. CASE id \in S
      <4>1. sessions[id] \in Session /\ bus'[id] = bus[id] \o sessions[id].events
        BY <1>1, <2>2, <3>1, AtGood DEF Live, Announced, Good
      <4> QED  BY <1>1, <2>3, <4>1, AnnouncedTells
    <3>2. CASE id \notin S
      BY <2>2, <2>3, <3>2 DEF Announced
    <3> QED  BY <3>1, <3>2
  <2>4. Unexpired \subseteq Sid
    BY DEF Unexpired, Rows
  <2> QED  BY <1>1, <2>1, <2>3, <2>4 DEF Story, Small
<1> QED  BY <1>2, <1>3

\* A start with room for every row reads every row.
LEMMA NewestIsAll ==
  ASSUME Small, NEW R \in SUBSET Rows, NewestRows(R)
  PROVE  R = Rows
<1>1. IsFiniteSet(Sid) /\ Rows \in SUBSET Sid /\ RehydrateLimit \in Nat
  BY SessionAssumption DEF Rows
<1>2. IsFiniteSet(Rows) /\ Cardinality(Rows) <= Cardinality(Sid)
  BY <1>1, FS_Subset
<1>3. Cardinality(R) <= Cardinality(Rows) /\ (Cardinality(Rows) = Cardinality(R) => Rows = R)
  BY <1>2, FS_Subset
<1>4. IsFiniteSet(R)
  BY <1>2, FS_Subset
<1>5. Cardinality(Sid) \in Nat /\ Cardinality(Rows) \in Nat /\ Cardinality(R) \in Nat
  BY <1>1, <1>2, <1>4, FS_CardinalityType
<1>6. CASE Cardinality(R) = RehydrateLimit
  <2>1. Cardinality(Rows) = Cardinality(R)
    BY <1>1, <1>2, <1>3, <1>5, <1>6 DEF Small
  <2> QED  BY <1>3, <2>1
<1>7. CASE R = Rows
  BY <1>7
<1> QED  BY <1>6, <1>7 DEF NewestRows

LEMMA StartStory ==
  ASSUME Inv, Story, NEW R \in SUBSET Rows, Start(R)
  PROVE  Story'
<1>1. /\ stored \in GoodMaps /\ UNCHANGED <<stored, clock, bus>> /\ phase' = "starting"
      /\ Rows' = Rows /\ Unexpired' = Unexpired
  BY DEF Inv, Start, Rows, Unexpired, Expired
<1>2. ASSUME NEW id \in Live'
      PROVE  Durable /\ id \in R /\ id \in Unexpired /\ sessions'[id] = stored[id]
  BY <1>2 DEF Live, Start, Rows, Unexpired
<1>3. ASSUME Small
      PROVE  /\ Unexpired \subseteq Live'
             /\ \A id \in Live' : Told(bus[id], sessions'[id])
             /\ \A id \in Unexpired : \A flag \in Due(stored[id]) : Has(bus[id], flag)
             /\ \A id \in Live' : Ahead(sessions'[id], stored[id])
  <2>1. R = Rows
    BY <1>3, NewestIsAll DEF Start
  <2>2. \A id \in Unexpired : id \in Rows /\ id \in Sid /\ stored[id] # Absent /\ Durable
    BY DEF Unexpired, Rows, Story
  <2>3. Unexpired \subseteq Live'
    BY <2>1, <2>2 DEF Start, Live, Unexpired
  <2>4. \A id \in Unexpired : \A flag \in Due(stored[id]) : Has(bus[id], flag)
    BY <1>3 DEF Story
  <2>5. \A id \in Live' : stored[id] \in Session
    BY <1>1, <1>2, AtGood DEF Unexpired, Rows, Good
  <2> QED  BY <1>2, <2>3, <2>4, <2>5, AheadIsReflexive DEF Told
<1> QED  BY <1>1, <1>2, <1>3 DEF Story, Small

LEMMA TickStory ==
  ASSUME Inv, Story, Tick
  PROVE  Story'
<1>1. Live' = Live /\ Rows' = Rows /\ UNCHANGED <<phase, sessions, stored, bus>>
  BY DEF Tick, Live, Rows
<1>2. Unexpired' \subseteq Unexpired
  <2> SUFFICES ASSUME NEW id \in Unexpired' PROVE ~Expired(stored[id])
    BY <1>1 DEF Unexpired
  <2>1. stored[id] \in Session
    BY <1>1, AtGood DEF Inv, Unexpired, Rows, Good
  <2>2. stored[id].seen \in Nat /\ clock \in Nat /\ clock' = clock + 1 /\ Ttl \in Nat
    BY <2>1, ConstantTypes DEF Tick, Inv, Session
  <2>3. ~(clock' - stored[id].seen > Ttl)
    BY <1>1 DEF Unexpired, Expired
  <2> QED  BY <2>2, <2>3 DEF Expired
<1> QED  BY <1>1, <1>2 DEF Story, Small

LEMMA QuietStory ==
  ASSUME Story, UNCHANGED <<phase, clock, sessions, stored, bus>>
  PROVE  Story'
BY DEF Story, Small, Live, Unexpired, Rows, Expired

LEMMA NextStory == Inv /\ Inv' /\ Story /\ [Next]_vars => Story'
<1> SUFFICES ASSUME Inv, Inv', Story, [Next]_vars PROVE Story'
  OBVIOUS
<1>1. ASSUME NEW c \in Clients, NEW id \in Sid, Request(c, id) PROVE Story'
  BY <1>1, RequestStory
<1>2. CASE RotateChallenges
  BY <1>2, QuietStory DEF RotateChallenges
<1>3. CASE FlushEmit
  BY <1>3, FlushEmitStory
<1>4. CASE FlushPersist
  BY <1>4, FlushPersistStory
<1>5. ASSUME NEW S \in SUBSET Live, Crash(S) PROVE Story'
  BY <1>5, CrashStory
<1>6. ASSUME NEW R \in SUBSET Rows, Start(R) PROVE Story'
  BY <1>6, StartStory
<1>7. CASE Tick
  BY <1>7, TickStory
<1>8. CASE UNCHANGED vars
  BY <1>8, QuietStory DEF vars
<1> QED  BY <1>1, <1>2, <1>3, <1>4, <1>5, <1>6, <1>7, <1>8 DEF Next

LEMMA StoryHolds == Spec => []Story
<1>1. Init => Story
  BY DEF Init, Story, Live, Rows, Unexpired
<1>2. Inv /\ Inv' /\ Story /\ [Next]_vars => Story'
  BY NextStory
<1> QED  BY <1>1, <1>2, Invariance, PTL DEF Spec

-----------------------------------------------------------------------------
(* The properties the runs check.                                          *)

\* Every variable keeps its type and no session exceeds its budget, for every
\* budget (TypeOK; serveNode's check against config.budget).
THEOREM TypeCorrect == Spec => []TypeOK
<1>1. Inv => TypeOK
  BY DEF Inv, TypeOK, GoodMaps, Good, SessionOrAbsent
<1> QED  BY <1>1, Invariance, PTL

\* Levels are closed one by one and the enclosure is entered from the top,
\* for any ladder height, set of codes and order of submissions (submitCode,
\* verifyFlag), in memory and in the table.
THEOREM LadderIsContiguous == Spec => []LadderContiguous
<1>1. Inv => LadderContiguous
  BY AtGood DEF Inv, LadderContiguous, Good
<1> QED  BY <1>1, Invariance, PTL

\* Every closed level, the win and the dwell are flagged exactly once, also
\* across restarts (submittedCodes, checkDwell).
THEOREM FlagsAreFiredOnce == Spec => []FlagsMatchProgress
<1>1. Inv => FlagsMatchProgress
  BY AtGood DEF Inv, FlagsMatchProgress, Good, FlaggedOnce
<1> QED  BY <1>1, Invariance, PTL

\* No session is ever served to clients of two families (getOrCreate).
THEOREM OneFamilyPerSession == Spec => []SessionServesOneFamily
<1>1. Inv => SessionServesOneFamily
  BY AtGood DEF Inv, SessionServesOneFamily, Good
<1> QED  BY <1>1, Invariance, PTL

\* No flag is lost, repeated or reordered between a session and the bus, in
\* whatever order flushes, requests, evictions and crashes come (flushAll,
\* drainEvents), in an engine without storage, as FlagsReachBusInOrder has it.
THEOREM FlagsStayInOrder == Spec => []FlagsReachBusInOrder
<1>1. Inv /\ Story => FlagsReachBusInOrder
  <2> SUFFICES ASSUME Inv, Story, ~Durable, NEW id \in Live
               PROVE  Codings(bus[id] \o sessions[id].events) = sessions[id].fired
    BY DEF FlagsReachBusInOrder
  <2>1. sessions[id] \in Session /\ bus[id] \in Seq(Flag)
    BY AtGood DEF Inv, Live, Good
  <2> QED  BY <2>1, AnnouncedTells DEF Story
<1> QED  BY <1>1, Invariance, StoryHolds, PTL

\* What the table says of a session that a restart would bring back has been
\* announced and is a past of the session that lives under the id, as long as a
\* start reads every row (the order of flush in bootstrap.ts, persistSession,
\* rehydrateFromStorage).
THEOREM RowsStayBehind == Spec => []RowsFollowSessions
<1>1. Inv /\ Story => RowsFollowSessions
  <2> SUFFICES ASSUME Inv, Story, Small
               PROVE  /\ \A id \in Unexpired :
                           /\ \A n \in DOMAIN stored[id].closed : HasFlag(id, LevelFlag(n))
                           /\ stored[id].win => HasFlag(id, WinFlag)
                           /\ stored[id].dwell => HasFlag(id, DwellFlag)
                      /\ \A id \in Unexpired \cap Live : Extends(sessions[id], stored[id])
    BY DEF RowsFollowSessions, RowsAreAnnounced, RowBehindSession, Small
  <2>1. ASSUME NEW id \in Unexpired
        PROVE  /\ \A n \in DOMAIN stored[id].closed : HasFlag(id, LevelFlag(n))
               /\ stored[id].win => HasFlag(id, WinFlag)
               /\ stored[id].dwell => HasFlag(id, DwellFlag)
    <3>1. \A flag \in Due(stored[id]) : HasFlag(id, flag)
      BY DEF Story, Has, HasFlag
    <3> QED  BY <3>1 DEF Due
  <2>2. ASSUME NEW id \in Unexpired \cap Live PROVE Extends(sessions[id], stored[id])
    <3> DEFINE s == sessions[id]
               r == stored[id]
               k == Len(r.fired)
               p == SubSeq(s.fired, 1, k)
    <3>1. s \in Session /\ r \in Session
      BY AtGood DEF Inv, Live, Unexpired, Rows, Good
    <3>2. /\ r.fired \in Seq(FlagCode) /\ k \in Nat /\ s.fired \in Seq(FlagCode)
          /\ Len(s.fired) \in Nat
      BY <3>1, SessionTypes
    <3>3. Ahead(s, r)
      BY DEF Story
    <3>4. Len(s.fired) >= k /\ \A i \in 1..k : s.fired[i] = r.fired[i]
      BY <3>3 DEF Ahead
    <3>5. \A i \in 1..k : s.fired[i] \in FlagCode
      <4> SUFFICES ASSUME NEW i \in 1..k PROVE s.fired[i] \in FlagCode
        OBVIOUS
      <4>1. i \in 1..Len(s.fired)
        BY <3>2, <3>4
      <4> QED  BY <3>2, <4>1, ElementOfSeq
    <3> HIDE DEF s, r, k
    <3>6. /\ p \in Seq(FlagCode) /\ Len(p) = IF 1 <= k THEN k - 1 + 1 ELSE 0
          /\ \A i \in 1..(k - 1 + 1) : p[i] = s.fired[1 + i - 1]
      BY <3>2, <3>5, SubSeqProperties
    <3> HIDE DEF p
    <3>7. Len(p) = k /\ \A i \in 1..k : p[i] = r.fired[i]
      BY <3>2, <3>4, <3>6
    <3>8. p = r.fired
      BY <3>2, <3>6, <3>7, SeqEqual DEF k
    <3> QED  BY <3>3, <3>8 DEF Ahead, Grows, Extends, p, k, s, r
  <2> QED  BY <2>1, <2>2
<1> QED  BY <1>1, Invariance, StoryHolds, PTL

\* A session that is in the enclosure visits no node and closes no level, under
\* any requests, and no restart brings it back otherwise while it lives
\* (serveNode, submitCode).
THEOREM EnclosureIsFrozen == Spec => EnclosureFreezesWorld
<1> DEFINE Frozen ==
      \A id \in Live :
        sessions[id].win /\ sessions'[id] # Absent =>
          /\ sessions'[id].nodes = sessions[id].nodes
          /\ sessions'[id].closed = sessions[id].closed
          /\ sessions'[id].level = sessions[id].level
<1>1. ASSUME Inv, Story, [Next]_vars PROVE [Frozen]_vars
  <2>1. ASSUME NEW c \in Clients, NEW id \in Sid, Request(c, id) PROVE Frozen
    <3>1. GoesOn(sessions')
      BY <1>1, <2>1, RequestGoesOn
    <3> QED  BY <3>1 DEF GoesOn, Live, Later, Grows
  <2>2. CASE RotateChallenges \/ Tick
    BY <2>2 DEF RotateChallenges, Tick
  <2>3. CASE FlushEmit
    <3>1. \A id \in Live : sessions[id] \in Session /\ sessions'[id] = Row(sessions[id])
      BY <1>1, <2>3, AtGood DEF Inv, Live, FlushEmit, Good
    <3>2. \A id \in Live : /\ sessions'[id].nodes = sessions[id].nodes
                           /\ sessions'[id].closed = sessions[id].closed
                           /\ sessions'[id].level = sessions[id].level
      BY <3>1 DEF Row, Session
    <3> QED  BY <3>2
  <2>4. CASE FlushPersist
    BY <2>4 DEF FlushPersist, Live
  <2>5. ASSUME NEW S \in SUBSET Live, Crash(S) PROVE Frozen
    BY <2>5 DEF Crash, Live
  <2>6. ASSUME NEW R \in SUBSET Rows, Start(R) PROVE Frozen
    BY <1>1, <2>6 DEF Start, Story
  <2>7. CASE UNCHANGED vars
    BY <2>7
  <2> QED  BY <1>1, <2>1, <2>2, <2>3, <2>4, <2>5, <2>6, <2>7 DEF Next
<1> HIDE DEF Frozen
<1>2. Inv /\ Story /\ [Next]_vars => [Frozen]_vars
  BY <1>1
<1>3. Spec => [][Frozen]_vars
  BY <1>2, Invariance, StoryHolds, PTL DEF Spec
<1> QED  BY <1>3 DEF Frozen, EnclosureFreezesWorld

-----------------------------------------------------------------------------
(* The engine implements the ladder.                                       *)

\* Where a session starts from: one that is not there is at the bottom.
Bottom(s) == IF s = Absent THEN 0 ELSE s.level

\* From one map to the other no session ends and none climbs.
Levels(m, n) ==
  \A x \in Sid :
    /\ m[x] # Absent => n[x] # Absent
    /\ n[x] # Absent => n[x].level = Bottom(m[x])

\* A process that is not running has no sessions.
Down == phase = "down" => \A id \in Sid : sessions[id] = Absent

-----------------------------------------------------------------------------
(* The steps of one session that keep its level.                           *)

LEMMA NewSessionLevel ==
  ASSUME NEW c
  PROVE  NewSession(c).level = 0 /\ NewSession(c).ip = c.ip /\ NewSession(c).ua = c.ua
BY DEF NewSession

LEMMA ResumedLevel ==
  ASSUME NEW s \in Session, NEW c
  PROVE  /\ Resumed(s, c).level = s.level
         /\ SameFamily(s, c) => SameFamily(Resumed(s, c), c)
<1>1. /\ Resumed(s, c).level = s.level /\ Resumed(s, c).ua = s.ua
      /\ Resumed(s, c).ip = IF c.ip = NoIp THEN s.ip ELSE c.ip
  BY DEF Resumed, Session
<1> QED  BY <1>1 DEF SameFamily

LEMMA CheckDwellLevel ==
  ASSUME NEW s \in Session
  PROVE  CheckDwell(s).level = s.level /\ CheckDwell(s).ip = s.ip /\ CheckDwell(s).ua = s.ua
BY DEF CheckDwell, Fire, Session

LEMMA AddBytesLevel ==
  ASSUME NEW s \in Session
  PROVE  AddBytes(s).level = s.level /\ AddBytes(s).ip = s.ip /\ AddBytes(s).ua = s.ua
BY DEF AddBytes, Session

LEMMA RecordRequestLevel ==
  ASSUME NEW s \in Good
  PROVE  RecordRequest(s).level = s.level
<1>1. s \in Session /\ AddBytes(s) \in Session
  BY AddBytesGood DEF Good
<1> QED  BY <1>1, AddBytesLevel, CheckDwellLevel DEF RecordRequest

LEMMA ServeNodeLevel ==
  ASSUME NEW s \in Good, NEW path
  PROVE  /\ ServeNode(s, path).level = s.level
         /\ ServeNode(s, path).ip = s.ip /\ ServeNode(s, path).ua = s.ua
<1> DEFINE t == [s EXCEPT !.nodes = @ + 1]
<1>1. s \in Session
  BY DEF Good
<1>2. CASE CanAccess(s, path) /\ InBudget(s)
  <2>1. t \in Session
    <3>1. s.nodes + 1 \in 0..MaxNodes
      BY <1>1, <1>2, ConstantTypes DEF InBudget, Session
    <3> QED  BY <1>1, <3>1 DEF Session
  <2>2. t.level = s.level /\ t.ip = s.ip /\ t.ua = s.ua
    BY <1>1 DEF Session
  <2>3. AddBytes(t) \in Session
    <3> HIDE DEF t
    <3>1. (IF t.bytes < MaxBytes THEN t.bytes + 1 ELSE t.bytes) \in 0..MaxBytes
      BY <2>1, ConstantTypes DEF Session
    <3> QED  BY <2>1, <3>1 DEF AddBytes, Session
  <2>4. ServeNode(s, path) = CheckDwell(AddBytes(t))
    BY <1>2 DEF ServeNode
  <2> HIDE DEF t
  <2> QED  BY <2>1, <2>2, <2>3, <2>4, AddBytesLevel, CheckDwellLevel
<1>3. CASE ~(CanAccess(s, path) /\ InBudget(s))
  BY <1>3 DEF ServeNode
<1> QED  BY <1>2, <1>3

\* A submission lifts its session by one, or leaves it.
LEMMA SubmitCodeLevel ==
  ASSUME NEW s \in Good, NEW code \in Codes
  PROVE  SubmitCode(s, code).level \in {s.level, s.level + 1}
<1> DEFINE heard == [s EXCEPT !.submitted = @ \cup {code}]
<1>1. s \in Session /\ heard \in Session /\ heard.level = s.level /\ s.level \in Nat
  <2>1. s \in Session
    BY DEF Good
  <2>2. s.submitted \cup {code} \in SUBSET Codes
    BY <2>1 DEF Session
  <2>3. heard \in Session /\ heard.level = s.level
    BY <2>1, <2>2 DEF Session
  <2>4. s.level \in Nat
    BY <2>1, ConstantTypes DEF Session
  <2> QED  BY <2>1, <2>3, <2>4
<1>2. CASE ~Accepts(s, code)
  BY <1>1, <1>2 DEF SubmitCode
<1>3. CASE Accepts(s, code) /\ code.kind = "win"
  <2>1. s.level + 1 = WinLevel
    BY <1>3, AcceptedIsNext, ConstantTypes
  <2>2. SubmitCode(s, code) = ReachEnclosure(heard)
    BY <1>3 DEF SubmitCode
  <2>3. ReachEnclosure(heard).level = WinLevel
    BY <1>1 DEF ReachEnclosure, Fire, Session
  <2> QED  BY <2>1, <2>2, <2>3
<1>4. CASE Accepts(s, code) /\ code.kind # "win"
  <2>1. TargetLevel(s.level, code) = s.level + 1
    BY <1>4, AcceptedIsNext
  <2>2. SubmitCode(s, code) = CloseLevel(heard, s.level + 1)
    BY <1>4, <2>1 DEF SubmitCode
  <2>3. CloseLevel(heard, s.level + 1).level = s.level + 1
    BY <1>1 DEF CloseLevel, Fire, Session
  <2> QED  BY <2>2, <2>3
<1> QED  BY <1>2, <1>3, <1>4

-----------------------------------------------------------------------------
(* The operations on the map.                                              *)

LEMMA GoodLevel ==
  ASSUME NEW ss \in GoodMaps, NEW x \in Sid
  PROVE  /\ Bottom(ss[x]) \in 0..WinLevel
         /\ ss[x] # Absent => ss[x] \in Session /\ ss[x].level \in 0..WinLevel
BY ConstantTypes DEF GoodMaps, Good, Session, Bottom

LEMMA LevelsCompose ==
  ASSUME NEW m, NEW n, NEW o, Levels(m, n), Levels(n, o)
  PROVE  Levels(m, o)
BY DEF Levels, Bottom

LEMMA LevelsSame ==
  ASSUME NEW m
  PROVE  Levels(m, m)
BY DEF Levels, Bottom

LEMMA PutLevels ==
  ASSUME NEW ss \in GoodMaps, NEW h \in Sid, NEW s \in Good, s.level = Bottom(ss[h])
  PROVE  Levels(ss, [ss EXCEPT ![h] = s])
BY ConstantTypes DEF GoodMaps, Levels, Bottom

\* The session a client gets into stands where the session of its id stood, or
\* at the bottom when a new id is drawn for it.
LEMMA EnteredLevel ==
  ASSUME NEW ss \in GoodMaps, NEW id \in Sid, NEW c \in Clients, NEW f \in Sid,
         IsForeign(ss, id, c) => ss[f] = Absent
  PROVE  Entered(ss, id, c).level = Bottom(ss[Home(ss, id, c, f)])
<1>1. CASE IsForeign(ss, id, c)
  BY <1>1, NewSessionLevel DEF Entered, Home, Bottom
<1>2. CASE ss[id] = Absent
  BY <1>2, NewSessionLevel DEF Entered, Home, Bottom, IsForeign
<1>3. CASE ss[id] # Absent /\ ~IsForeign(ss, id, c)
  BY <1>3, GoodLevel, ResumedLevel DEF Entered, Home, Bottom
<1> QED  BY <1>1, <1>2, <1>3

\* After its visit a client is not a stranger in the session it was let into.
LEMMA EnteredIsOwn ==
  ASSUME NEW ss \in GoodMaps, NEW id \in Sid, NEW c \in Clients
  PROVE  SameFamily(Entered(ss, id, c), c)
<1>1. CASE ss[id] = Absent \/ IsForeign(ss, id, c)
  BY <1>1, NewSessionLevel DEF Entered, SameFamily
<1>2. CASE ~(ss[id] = Absent \/ IsForeign(ss, id, c))
  BY <1>2, GoodLevel, ResumedLevel DEF Entered, IsForeign
<1> QED  BY <1>1, <1>2

LEMMA MarkLevels ==
  ASSUME NEW ss \in GoodMaps, NEW id \in Sid, NEW c \in Clients
  PROVE  Levels(ss, MarkMetaSignal(ss, id, c))
<1>1. CASE ss[id] = Absent
  BY <1>1, LevelsSame DEF MarkMetaSignal
<1>2. CASE ss[id] # Absent
  <2> DEFINE t == [ss[id] EXCEPT !.meta = TRUE, !.markedBy = @ \cup {c}]
  <2>1. t \in Good /\ t.level = ss[id].level
    <3>1. ss[id] \in Good /\ ss[id] \in Session
      BY <1>2, AtGood, GoodLevel
    <3> QED  BY <3>1, MarkedGood DEF Session
  <2>2. MarkMetaSignal(ss, id, c) = [ss EXCEPT ![id] = t]
    BY <1>2 DEF MarkMetaSignal, GoodMaps
  <2>3. t.level = Bottom(ss[id])
    BY <1>2, <2>1 DEF Bottom
  <2> HIDE DEF t
  <2> QED  BY <2>1, <2>2, <2>3, PutLevels
<1> QED  BY <1>1, <1>2

-----------------------------------------------------------------------------
(* Requests.                                                               *)

LEMMA FreshIsAbsent ==
  ASSUME NEW id \in Sid, NEW c, NEW f \in FreshIds(id, c)
  PROVE  f \in Sid /\ (IsForeign(sessions, id, c) => sessions[f] = Absent)
BY DEF FreshIds

\* Serving pages and nodes, also to strangers, leaves every level.
LEMMA VisitLevels ==
  ASSUME Inv, NEW id \in Sid, NEW c \in Clients, NEW f \in FreshIds(id, c),
         NEW g \in FreshIds(id, c), NEW path \in Paths,
         IsForeign(sessions, id, c) => g # f, GetNode(c, id, path, f, g)
  PROVE  Levels(sessions, sessions')
<1> DEFINE s == Entered(sessions, id, c)
           visited == [sessions EXCEPT ![Home(sessions, id, c, f)] = ServeNode(s, path)]
           again == Entered(visited, id, c)
           counted == [visited EXCEPT ![Home(visited, id, c, g)] = RecordRequest(again)]
           probed == IF path.probe THEN MarkMetaSignal(counted, id, c) ELSE counted
<1>1. /\ sessions \in GoodMaps /\ clock \in 0..MaxTime /\ generation \in 0..MaxGen
      /\ f \in Sid /\ g \in Sid
      /\ IsForeign(sessions, id, c) => sessions[f] = Absent /\ sessions[g] = Absent
  BY FreshIsAbsent DEF Inv
<1>2. s \in Good /\ ServeNode(s, path) \in Good /\ ServeNode(s, path).level = s.level
  BY <1>1, EnteredGood, ServeNodeGood, ServeNodeLevel
<1>3. visited \in GoodMaps /\ Levels(sessions, visited)
  <2>1. Home(sessions, id, c, f) \in Sid
    BY <1>1, HomeIsId
  <2>2. s.level = Bottom(sessions[Home(sessions, id, c, f)])
    BY <1>1, EnteredLevel
  <2> HIDE DEF s
  <2> QED  BY <1>1, <1>2, <2>1, <2>2, PutGood, PutLevels
<1>4. IsForeign(visited, id, c) => visited[g] = Absent
  <2>1. CASE IsForeign(sessions, id, c)
    <3>1. Home(sessions, id, c, f) = f /\ g # f
      BY <2>1 DEF Home
    <3> QED  BY <1>1, <2>1, <3>1 DEF GoodMaps
  <2>2. CASE ~IsForeign(sessions, id, c)
    <3>1. visited[id] = ServeNode(s, path)
      BY <1>1, <2>2 DEF Home, GoodMaps
    <3>2. SameFamily(ServeNode(s, path), c)
      BY <1>1, <1>2, EnteredIsOwn, ServeNodeLevel DEF SameFamily
    <3> QED  BY <3>1, <3>2 DEF IsForeign
  <2> QED  BY <2>1, <2>2
<1>5. counted \in GoodMaps /\ Levels(visited, counted)
  <2> HIDE DEF visited
  <2>1. again \in Good /\ RecordRequest(again) \in Good /\ RecordRequest(again).level = again.level
    BY <1>1, <1>3, EnteredGood, RecordRequestGood, RecordRequestLevel
  <2>2. Home(visited, id, c, g) \in Sid
    BY <1>1, HomeIsId
  <2>3. again.level = Bottom(visited[Home(visited, id, c, g)])
    BY <1>1, <1>3, <1>4, EnteredLevel
  <2> HIDE DEF again
  <2> QED  BY <1>3, <2>1, <2>2, <2>3, PutGood, PutLevels
<1>6. Levels(counted, probed)
  <2> HIDE DEF counted
  <2> QED  BY <1>5, MarkLevels, LevelsSame
<1>7. sessions' = IF CanAccess(s, path) THEN probed ELSE visited
  BY DEF GetNode
<1> HIDE DEF s, visited, counted, probed
<1>8. Levels(sessions, probed)
  BY <1>3, <1>5, <1>6, LevelsCompose
<1> QED  BY <1>3, <1>7, <1>8

\* A submission lifts at most the session it is judged for, by one.
LEMMA SubmitLevels ==
  ASSUME Inv, NEW id \in Sid, NEW c \in Clients, NEW f \in FreshIds(id, c),
         NEW code \in Codes, SubmitFlag(c, id, code, f)
  PROVE  \E h \in Sid :
           /\ sessions'[h] # Absent
           /\ sessions'[h].level \in {Bottom(sessions[h]), Bottom(sessions[h]) + 1}
           /\ \A x \in Sid \ {h} :
                /\ sessions[x] # Absent => sessions'[x] # Absent
                /\ sessions'[x] # Absent => sessions'[x].level = Bottom(sessions[x])
<1> DEFINE s == Entered(sessions, id, c)
           h == Home(sessions, id, c, f)
           judged == [sessions EXCEPT ![h] = SubmitCode(s, code)]
<1>1. /\ sessions \in GoodMaps /\ clock \in 0..MaxTime /\ generation \in 0..MaxGen
      /\ f \in Sid /\ (IsForeign(sessions, id, c) => sessions[f] = Absent)
  BY FreshIsAbsent DEF Inv
<1>2. h \in Sid /\ s \in Good /\ s.level = Bottom(sessions[h])
  BY <1>1, HomeIsId, EnteredGood, EnteredLevel
<1>3. SubmitCode(s, code) \in Good /\ SubmitCode(s, code).level \in {s.level, s.level + 1}
  BY <1>2, SubmitCodeGood, SubmitCodeLevel
<1>4. sessions' = IF MarksMeta(s, code) THEN MarkMetaSignal(judged, id, c) ELSE judged
  BY DEF SubmitFlag
<1> HIDE DEF s, h
<1>5. judged \in GoodMaps /\ judged[h] = SubmitCode(s, code) /\ judged[h] # Absent
      /\ \A x \in Sid \ {h} : judged[x] = sessions[x]
  BY <1>1, <1>2, <1>3, PutGood, ConstantTypes DEF GoodMaps
<1> HIDE DEF judged
<1>6. Levels(judged, sessions')
  BY <1>4, <1>5, MarkLevels, LevelsSame
<1>7. /\ sessions'[h] # Absent /\ sessions'[h].level = SubmitCode(s, code).level
      /\ \A x \in Sid \ {h} :
           /\ sessions[x] # Absent => sessions'[x] # Absent
           /\ sessions'[x] # Absent => sessions'[x].level = Bottom(sessions[x])
  BY <1>2, <1>5, <1>6 DEF Levels, Bottom
<1> QED  BY <1>2, <1>3, <1>7

-----------------------------------------------------------------------------
(* The steps of the ladder.                                                *)

LevelMap == [id \in Sid |-> LevelOf(sessions[id])]
SavedMap == [id \in Sid |-> LevelOf(stored[id])]

\* The mark of no session is no level.
LEMMA AbsentIsNoLevel == Absent \notin 0..WinLevel
BY SessionAssumption

LEMMA LevelAt ==
  ASSUME NEW x \in Sid, sessions \in GoodMaps
  PROVE  /\ LevelMap[x] = LevelOf(sessions[x])
         /\ LevelMap[x] = Absent <=> sessions[x] = Absent
         /\ Progress!Base(LevelMap[x]) = Bottom(sessions[x])
<1>1. LevelMap[x] = LevelOf(sessions[x])
  BY DEF LevelMap
<1>2. sessions[x] # Absent => sessions[x].level # Absent
  BY GoodLevel, AbsentIsNoLevel
<1> QED  BY <1>1, <1>2 DEF LevelOf, Progress!Base, Bottom

\* A step in which nothing ends and one session at most climbs, by one.
LEMMA ClimbStep ==
  ASSUME sessions \in GoodMaps, sessions' \in GoodMaps, stored' = stored, NEW C \in SUBSET Sid,
         \A x, y \in C : x = y,
         \A x \in Sid : sessions[x] # Absent => sessions'[x] # Absent,
         \A x \in C : sessions'[x] # Absent /\ sessions'[x].level = Bottom(sessions[x]) + 1,
         \A x \in Sid \ C : sessions'[x] # Absent => sessions'[x].level = Bottom(sessions[x])
  PROVE  Progress!LadderNext
<1> DEFINE N == {x \in Sid : sessions[x] = Absent /\ sessions'[x] # Absent}
<1>1. \A x \in N : LevelMap[x] = Absent
  BY LevelAt
<1>2. \A x \in C : Progress!Base(LevelMap[x]) < WinLevel
  <2> TAKE x \in C
  <2>1. Bottom(sessions[x]) \in 0..WinLevel /\ sessions'[x].level \in 0..WinLevel
    BY GoodLevel
  <2> QED  BY <2>1, LevelAt, ConstantTypes
<1>3. LevelMap' = [x \in Sid |-> IF x \in C THEN Progress!Base(LevelMap[x]) + 1
                              ELSE IF x \in N THEN 0 ELSE LevelMap[x]]
  <2>1. ASSUME NEW x \in Sid
        PROVE  LevelOf(sessions'[x]) = IF x \in C THEN Progress!Base(LevelMap[x]) + 1
                                       ELSE IF x \in N THEN 0 ELSE LevelMap[x]
    BY LevelAt DEF LevelOf, Bottom
  <2> QED  BY <2>1 DEF LevelMap
<1>4. SavedMap' = SavedMap
  BY DEF SavedMap
<1>5. Progress!Climb(N, C)
  BY <1>1, <1>2, <1>3, <1>4 DEF Progress!Climb, LevelMap, SavedMap
<1>6. N \in SUBSET Sid
  OBVIOUS
<1> QED  BY <1>5, <1>6 DEF Progress!LadderNext

LEMMA RequestStep ==
  ASSUME Inv, Inv', NEW c \in Clients, NEW id \in Sid, Request(c, id)
  PROVE  Progress!LadderNext
<1>1. sessions \in GoodMaps /\ sessions' \in GoodMaps
  BY DEF Inv
<1>2. ASSUME Levels(sessions, sessions'), stored' = stored
      PROVE  Progress!LadderNext
  <2>1. {} \in SUBSET Sid
    OBVIOUS
  <2> QED  BY <1>1, <1>2, <2>1, ClimbStep DEF Levels
<1>3. CASE PostSession(c, id)
  <2>1. NewSession(c) \in Good /\ NewSession(c).level = Bottom(sessions[id])
    BY <1>3, NewSessionGood, NewSessionLevel DEF PostSession, Bottom, Inv
  <2> QED  BY <1>1, <1>2, <1>3, <2>1, PutLevels DEF PostSession
<1>4. ASSUME NEW f \in FreshIds(id, c), OpenPage(c, id, f)
      PROVE  Progress!LadderNext
  <2> DEFINE h == Home(sessions, id, c, f)
  <2>1. h \in Sid /\ Entered(sessions, id, c) \in Good
        /\ Entered(sessions, id, c).level = Bottom(sessions[h])
    BY <1>1, FreshIsAbsent, HomeIsId, EnteredGood, EnteredLevel DEF Inv
  <2>2. sessions' = [sessions EXCEPT ![h] = Entered(sessions, id, c)] /\ stored' = stored
    BY <1>4 DEF OpenPage
  <2> HIDE DEF h
  <2> QED  BY <1>1, <1>2, <2>1, <2>2, PutLevels
<1>5. ASSUME NEW f \in FreshIds(id, c), NEW code \in Codes, SubmitFlag(c, id, code, f)
      PROVE  Progress!LadderNext
  <2>1. PICK h \in Sid :
           /\ sessions'[h] # Absent
           /\ sessions'[h].level \in {Bottom(sessions[h]), Bottom(sessions[h]) + 1}
           /\ \A x \in Sid \ {h} :
                /\ sessions[x] # Absent => sessions'[x] # Absent
                /\ sessions'[x] # Absent => sessions'[x].level = Bottom(sessions[x])
    BY <1>5, SubmitLevels
  <2>2. stored' = stored
    BY <1>5 DEF SubmitFlag
  <2> DEFINE C == IF sessions'[h].level = Bottom(sessions[h]) THEN {} ELSE {h}
  <2>3. /\ C \in SUBSET Sid /\ \A x, y \in C : x = y
        /\ \A x \in Sid : sessions[x] # Absent => sessions'[x] # Absent
        /\ \A x \in C : sessions'[x] # Absent /\ sessions'[x].level = Bottom(sessions[x]) + 1
        /\ \A x \in Sid \ C : sessions'[x] # Absent => sessions'[x].level = Bottom(sessions[x])
    BY <2>1
  <2> HIDE DEF C
  <2> QED  BY <1>1, <2>2, <2>3, ClimbStep
<1>6. ASSUME NEW f \in FreshIds(id, c), NEW g \in FreshIds(id, c), NEW path \in Paths,
             IsForeign(sessions, id, c) => g # f, GetNode(c, id, path, f, g)
      PROVE  Progress!LadderNext
  <2>1. stored' = stored
    BY <1>6 DEF GetNode
  <2> QED  BY <1>2, <1>6, <2>1, VisitLevels
<1> QED  BY <1>3, <1>4, <1>5, <1>6 DEF Request

\* Saving the sessions S, if there is a storage, and ending the sessions E.
LEMMA SaveStep ==
  ASSUME Inv, NEW S \in SUBSET Live, NEW E \in SUBSET Sid,
         stored' = Saved(S) \/ (stored' = stored /\ S = {}),
         sessions' = [x \in Sid |-> IF x \in E THEN Absent ELSE sessions[x]]
  PROVE  Progress!LadderNext
<1> DEFINE T == IF Durable THEN S ELSE {}
<1>1. sessions \in GoodMaps
  BY DEF Inv
<1>2. ASSUME NEW x \in Sid
      PROVE  /\ LevelOf(stored'[x]) = IF x \in T /\ LevelMap[x] # Absent THEN LevelMap[x] ELSE SavedMap[x]
             /\ LevelOf(sessions'[x]) = IF x \in E THEN Absent ELSE LevelMap[x]
  <2>1. x \in S => sessions[x] # Absent /\ Row(sessions[x]).level = sessions[x].level
                   /\ Row(sessions[x]) # Absent
    <3>1. x \in S => sessions[x] # Absent /\ sessions[x] \in Session
      BY <1>1, GoodLevel DEF Live
    <3>2. x \in S => Row(sessions[x]) # Absent
      BY <1>1, RowsGood, ConstantTypes
    <3> QED  BY <3>1, <3>2 DEF Row, Session
  <2>2. LevelMap[x] = LevelOf(sessions[x]) /\ (x \in S => LevelMap[x] # Absent)
        /\ SavedMap[x] = LevelOf(stored[x])
    BY <1>1, <2>1, LevelAt DEF SavedMap
  <2> QED  BY <2>1, <2>2 DEF Saved, LevelOf
<1>3. Progress!SaveAndEnd(T, E)
  BY <1>2 DEF Progress!SaveAndEnd, LevelMap, SavedMap
<1>4. T \in SUBSET Sid
  BY DEF Live
<1> QED  BY <1>3, <1>4 DEF Progress!LadderNext

LEMMA FlushEmitStep ==
  ASSUME Inv, FlushEmit
  PROVE  UNCHANGED <<LevelMap, SavedMap>>
<1>1. ASSUME NEW x \in Sid
      PROVE  LevelOf(sessions'[x]) = LevelOf(sessions[x])
  <2>1. CASE sessions[x] = Absent
    BY <1>1, <2>1 DEF FlushEmit, Live
  <2>2. CASE sessions[x] # Absent
    <3>1. /\ sessions[x] \in Session /\ Row(sessions[x]) # Absent
          /\ sessions'[x] = Row(sessions[x])
      BY <2>2, GoodLevel, RowsGood, ConstantTypes DEF FlushEmit, Live, Inv
    <3> QED  BY <2>2, <3>1 DEF LevelOf, Row, Session
  <2> QED  BY <2>1, <2>2
<1> QED  BY <1>1 DEF LevelMap, SavedMap, FlushEmit

LEMMA StartStep ==
  ASSUME Inv, Down, NEW R \in SUBSET Rows, Start(R)
  PROVE  Progress!LadderNext
<1> DEFINE B == {x \in R : Durable /\ ~Expired(stored[x])}
<1>1. sessions \in GoodMaps /\ \A x \in Sid : sessions[x] = Absent
  BY DEF Inv, Down, Start
<1>2. \A x \in Sid : LevelMap[x] = Absent
  BY <1>1, LevelAt
<1>3. LevelMap' = [x \in Sid |-> IF x \in B THEN SavedMap[x] ELSE Absent]
  BY DEF Start, LevelMap, SavedMap, LevelOf
<1>4. Progress!Recover(B)
  BY <1>2, <1>3 DEF Progress!Recover, LevelMap, SavedMap, Start
<1>5. B \in SUBSET Sid
  BY DEF Rows
<1> QED  BY <1>4, <1>5 DEF Progress!LadderNext

LEMMA NextDown == Inv /\ Down /\ [Next]_vars => Down'
<1> SUFFICES ASSUME Inv, Down, [Next]_vars
             PROVE  Down'
  OBVIOUS
<1>1. ASSUME NEW c \in Clients, NEW id \in Sid, Request(c, id)
      PROVE  Down'
  BY <1>1 DEF Request, PostSession, OpenPage, SubmitFlag, GetNode, Down
<1>2. ASSUME NEW S \in SUBSET Live, Crash(S)
      PROVE  Down'
  BY <1>2 DEF Crash, Down
<1>3. ASSUME NEW R \in SUBSET Rows, Start(R)
      PROVE  Down'
  BY <1>3 DEF Start, Down
<1>4. CASE RotateChallenges \/ FlushEmit \/ FlushPersist \/ Tick \/ UNCHANGED vars
  BY <1>4 DEF RotateChallenges, FlushEmit, FlushPersist, Tick, vars, Down
<1> QED  BY <1>1, <1>2, <1>3, <1>4 DEF Next

LEMMA NextClimbs ==
  ASSUME Inv, Inv', Down, [Next]_vars
  PROVE  [Progress!LadderNext]_<<LevelMap, SavedMap>>
<1>1. ASSUME NEW c \in Clients, NEW id \in Sid, Request(c, id)
      PROVE  Progress!LadderNext
  BY <1>1, RequestStep
<1>2. CASE FlushEmit
  BY <1>2, FlushEmitStep
<1>3. CASE FlushPersist
  <2> DEFINE E == {x \in Live : Expired(sessions[x])}
  <2>1. E \in SUBSET Sid /\ Live \in SUBSET Live /\ stored' = Saved(Live)
    BY <1>3 DEF FlushPersist, Live
  <2>2. sessions' = [x \in Sid |-> IF x \in E THEN Absent ELSE sessions[x]]
    BY <1>3 DEF FlushPersist
  <2> HIDE DEF E
  <2> QED  BY <2>1, <2>2, SaveStep
<1>4. ASSUME NEW S \in SUBSET Live, Crash(S)
      PROVE  Progress!LadderNext
  <2>1. Sid \in SUBSET Sid /\ {} \in SUBSET Live
    OBVIOUS
  <2>2. sessions' = [x \in Sid |-> IF x \in Sid THEN Absent ELSE sessions[x]]
    BY <1>4 DEF Crash
  <2>3. stored' = Saved(S) \/ stored' = stored
    BY <1>4 DEF Crash
  <2> QED  BY <2>1, <2>2, <2>3, SaveStep
<1>5. ASSUME NEW R \in SUBSET Rows, Start(R)
      PROVE  Progress!LadderNext
  BY <1>5, StartStep
<1>6. CASE RotateChallenges \/ Tick \/ UNCHANGED vars
  BY <1>6 DEF RotateChallenges, Tick, vars, LevelMap, SavedMap
<1> QED  BY <1>1, <1>2, <1>3, <1>4, <1>5, <1>6 DEF Next

\* Whatever the clients do and whenever the process dies, sessions climb one
\* level at a time, one per request, end, and come back where they were saved.
THEOREM LadderImplemented == Spec => ImplementsLadder
<1>1. Init => Progress!LadderInit
  BY DEF Init, Progress!LadderInit, LevelOf
<1>2. Init => Down
  BY DEF Init, Down
<1>3. Inv /\ Inv' /\ Down /\ [Next]_vars =>
        [Progress!LadderNext]_<<[id \in Sid |-> LevelOf(sessions[id])],
                                [id \in Sid |-> LevelOf(stored[id])]>>
  BY NextClimbs DEF LevelMap, SavedMap
<1> QED
  BY <1>1, <1>2, <1>3, NextDown, Invariance, PTL
  DEF Spec, ImplementsLadder, Progress!LadderSpec, Progress!ladder

-----------------------------------------------------------------------------
(* The player of the warren.                                               *)

\* The clues the nodes of the world hold, at any depth.
Findable ==
  {LevelCode(n) : n \in {1, 2, 3, 5, 6, 7}} \cup {Half(1), Half(2)}
    \cup {SimpleCode(kind) : kind \in {"decoy", "other", "win"}}

\* The session of the player is its own, no time passes, and nothing is known
\* before the node runs, which it does until the walk is over.
WalkInv ==
  /\ known \subseteq Findable
  /\ phase = "down" => known = {}
  /\ clock = 0
  /\ sessions[Here] # Absent => SameFamily(sessions[Here], Player)
  /\ LevelsAreWithheld

LEMMA WarrenConstants ==
  ASSUME WarrenAssumption
  PROVE  /\ Player \in Clients /\ Here \in Sid /\ TopLevel = 9 /\ WinLevel = 10
         /\ [gate : 0..10, probe : {FALSE}] \subseteq Paths
<1>1. WinLevel = 10
  BY DEF WarrenAssumption, WinLevel
<1> QED  BY <1>1 DEF WarrenAssumption

\* No node holds the codes of levels 4, 8 and 9, and level 4 is joined.
LEMMA WritableCodes ==
  ASSUME known \subseteq Findable, NEW n \in {8, 9}
  PROVE  LevelCode(n) \notin Writable
BY DEF Findable, Writable, LevelCode, Half, SimpleCode

\* A node shows what can be found, and the code of level 6 in the deep only.
LEMMA ShownCodes ==
  ASSUME NEW mechanic \in Mechanic, NEW depth \in 0..4, NEW variant \in BOOLEAN
  PROVE  /\ Shown(mechanic, depth, variant) \subseteq Findable
         /\ LevelCode(6) \in Shown(mechanic, depth, variant) => depth = 4
<1>1. ASSUME NEW n \in {1, 2, 3, 5, 6, 7} PROVE LevelCode(n) \in Findable
  BY DEF Findable
<1>2. ASSUME NEW kind \in {"decoy", "other", "win"} PROVE SimpleCode(kind) \in Findable
  BY DEF Findable
<1>3. Half(1) \in Findable /\ Half(2) \in Findable
  BY DEF Findable
<1>4. Shown(mechanic, depth, variant) \subseteq Findable
  <2> HIDE DEF Findable
  <2> QED  BY <1>1, <1>2, <1>3 DEF Shown, Mechanic, TrapClues
<1>5. LevelCode(6) \in Shown(mechanic, depth, variant) => depth = 4
  <2>1. /\ \A n \in {1, 2, 3, 5, 7} : LevelCode(6) # LevelCode(n)
        /\ LevelCode(6) # Half(1) /\ LevelCode(6) # Half(2)
        /\ \A kind \in {"decoy", "other", "win"} : LevelCode(6) # SimpleCode(kind)
    BY DEF LevelCode, Half, SimpleCode
  <2> QED  BY <2>1 DEF Shown, Mechanic, TrapClues
<1> QED  BY <1>4, <1>5

LEMMA LevelIsBottom == Level = Bottom(sessions[Here])
BY DEF Level, Bottom

\* What a player does is a request of a client, under the id of its own session.
LEMMA OwnId ==
  ASSUME WalkInv
  PROVE  ~IsForeign(sessions, Here, Player) /\ FreshIds(Here, Player) = {Here}
BY DEF WalkInv, IsForeign, FreshIds

LEMMA WalkIsRequest ==
  ASSUME WarrenAssumption, WalkInv, NEW place \in Place, NEW mechanic \in Mechanic, NEW variant \in BOOLEAN,
         Walk(place, mechanic, variant)
  PROVE  PathTo(place) \in Paths /\ Request(Player, Here)
<1>1. place.gate \in 0..10
  BY WarrenConstants DEF Place
<1>2. PathTo(place) \in Paths
  BY <1>1, WarrenConstants DEF PathTo
<1>3. GetNode(Player, Here, PathTo(place), Here, Here)
  BY DEF Walk
<1> QED  BY <1>2, <1>3, OwnId DEF Request

LEMMA TryIsRequest ==
  ASSUME WalkInv, NEW code \in Codes, Try(code)
  PROVE  Request(Player, Here)
<1>1. SubmitFlag(Player, Here, code, Here)
  BY DEF Try
<1> QED  BY <1>1, OwnId DEF Request

LEMMA StepIsEngineStep ==
  ASSUME WarrenAssumption, WalkInv, [WalkSome \/ TrySome \/ NodeRuns]_wvars
  PROVE  [Next]_vars
<1>1. ASSUME NEW place \in Place, NEW mechanic \in Mechanic, NEW variant \in BOOLEAN,
             Walk(place, mechanic, variant)
      PROVE  Next
  BY <1>1, WalkIsRequest, WarrenConstants DEF Next
<1>2. ASSUME NEW code \in Codes, Try(code)
      PROVE  Next
  BY <1>2, TryIsRequest, WarrenConstants DEF Next
<1>3. CASE NodeRuns
  <2>1. {} \in SUBSET Rows
    OBVIOUS
  <2> QED  BY <1>3, <2>1 DEF NodeRuns, Next
<1>4. CASE UNCHANGED wvars
  BY <1>4 DEF wvars
<1> QED  BY <1>1, <1>2, <1>3, <1>4 DEF WalkSome, TrySome

-----------------------------------------------------------------------------
(* A walk keeps the levels withheld.                                       *)

\* Below level 8 no session is in the enclosure, so a path opens by its level.
LEMMA SightIsOpen ==
  ASSUME WarrenAssumption, Inv, WalkInv, NEW place \in Place, NEW mechanic \in Mechanic, NEW variant \in BOOLEAN
  PROVE  /\ Sight(place, mechanic, variant) \subseteq Findable
         /\ LevelCode(6) \in Sight(place, mechanic, variant) => Level >= 5
<1> DEFINE s == Entered(sessions, Here, Player)
<1>1. /\ sessions \in GoodMaps /\ clock \in 0..MaxTime /\ generation \in 0..MaxGen
      /\ Here \in Sid /\ Player \in Clients
  BY WarrenConstants DEF Inv
<1>2. s \in Good /\ s.level = Level
  <2>1. s.level = Bottom(sessions[Home(sessions, Here, Player, Here)])
    BY <1>1, EnteredLevel, OwnId
  <2>2. s.level = Level
    BY <2>1, LevelIsBottom DEF Home
  <2> QED  BY <1>1, <2>2, EnteredGood
<1>3. s.win = FALSE
  <2>1. OnLadder(s) /\ s.win \in BOOLEAN /\ s.level \in 0..10
    BY <1>2, WarrenConstants DEF Good, Session
  <2>2. s.level <= 7
    BY <1>2 DEF WalkInv, LevelsAreWithheld, NobodyPassesSeven
  <2> QED  BY <2>1, <2>2, WarrenConstants DEF OnLadder
<1>4. place.depth \in 0..4 /\ (place.depth = 4 => place.gate = 5)
  BY DEF Place
<1> HIDE DEF s
<1>5. CASE CanAccess(s, PathTo(place)) /\ InBudget(s)
  <2>1. Sight(place, mechanic, variant) = Shown(mechanic, place.depth, variant)
    BY <1>5 DEF Sight, s
  <2>2. s.level >= place.gate
    BY <1>3, <1>5 DEF CanAccess, PathTo
  <2> QED  BY <1>2, <1>4, <2>1, <2>2, ShownCodes
<1>6. CASE ~(CanAccess(s, PathTo(place)) /\ InBudget(s))
  <2>1. Sight(place, mechanic, variant) = {}
    BY <1>6 DEF Sight, s
  <2> QED  BY <2>1
<1> QED  BY <1>5, <1>6

LEMMA RecordRequestFamily ==
  ASSUME NEW s \in Good
  PROVE  RecordRequest(s).ip = s.ip /\ RecordRequest(s).ua = s.ua
<1>1. s \in Session /\ AddBytes(s) \in Session
  BY AddBytesGood DEF Good
<1> QED  BY <1>1, AddBytesLevel, CheckDwellLevel DEF RecordRequest

LEMMA SubmitCodeFamily ==
  ASSUME NEW s \in Good, NEW code \in Codes
  PROVE  SubmitCode(s, code).ip = s.ip /\ SubmitCode(s, code).ua = s.ua
<1> DEFINE heard == [s EXCEPT !.submitted = @ \cup {code}]
<1>1. heard \in Session /\ heard.ip = s.ip /\ heard.ua = s.ua
  <2>1. s \in Session /\ s.submitted \cup {code} \in SUBSET Codes
    BY DEF Good, Session
  <2> QED  BY <2>1 DEF Session
<1>2. SubmitCode(s, code) \in {heard, ReachEnclosure(heard), CloseLevel(heard, TargetLevel(s.level, code))}
  BY DEF SubmitCode
<1> HIDE DEF heard
<1>3. /\ ReachEnclosure(heard).ip = heard.ip /\ ReachEnclosure(heard).ua = heard.ua
      /\ \A n : CloseLevel(heard, n).ip = heard.ip /\ CloseLevel(heard, n).ua = heard.ua
  BY <1>1 DEF ReachEnclosure, CloseLevel, Fire, Session
<1> QED  BY <1>1, <1>2, <1>3

\* After a visit the session still belongs to the player.
LEMMA WalkFamily ==
  ASSUME WarrenAssumption, Inv, WalkInv, NEW place \in Place, NEW mechanic \in Mechanic, NEW variant \in BOOLEAN,
         Walk(place, mechanic, variant)
  PROVE  sessions'[Here] # Absent /\ SameFamily(sessions'[Here], Player)
<1> DEFINE path == PathTo(place)
           s == Entered(sessions, Here, Player)
           visited == [sessions EXCEPT ![Here] = ServeNode(s, path)]
           again == Entered(visited, Here, Player)
           counted == [visited EXCEPT ![Here] = RecordRequest(again)]
<1>1. /\ sessions \in GoodMaps /\ clock \in 0..MaxTime /\ generation \in 0..MaxGen
      /\ Here \in Sid /\ Player \in Clients
  BY WarrenConstants DEF Inv
<1>2. s \in Good /\ ServeNode(s, path) \in Good /\ SameFamily(ServeNode(s, path), Player)
  BY <1>1, EnteredGood, EnteredIsOwn, ServeNodeGood, ServeNodeLevel DEF SameFamily
<1>3. visited \in GoodMaps /\ visited[Here] = ServeNode(s, path)
  <2> HIDE DEF s
  <2> QED  BY <1>1, <1>2, PutGood DEF GoodMaps
<1>4. counted[Here] \in Good /\ SameFamily(counted[Here], Player)
  <2> HIDE DEF visited
  <2>1. again \in Good /\ SameFamily(again, Player)
    BY <1>1, <1>3, EnteredGood, EnteredIsOwn
  <2>2. RecordRequest(again) \in Good /\ SameFamily(RecordRequest(again), Player)
    BY <2>1, RecordRequestGood, RecordRequestFamily DEF SameFamily
  <2>3. counted[Here] = RecordRequest(again)
    <3> HIDE DEF again
    <3> QED  BY <1>1, <1>3 DEF GoodMaps
  <2> QED  BY <2>2, <2>3
<1>5. sessions'[Here] \in {visited[Here], counted[Here]}
  <2>1. sessions' \in {visited, counted}
    BY DEF Walk, GetNode, PathTo, Home
  <2> QED  BY <2>1
<1> HIDE DEF visited, counted
<1> QED  BY <1>2, <1>3, <1>4, <1>5, ConstantTypes

LEMMA WalkStep ==
  ASSUME WarrenAssumption, Inv, WalkInv, NEW place \in Place, NEW mechanic \in Mechanic, NEW variant \in BOOLEAN,
         Walk(place, mechanic, variant)
  PROVE  WalkInv'
<1>1. /\ GetNode(Player, Here, PathTo(place), Here, Here)
      /\ known' = known \cup Sight(place, mechanic, variant)
      /\ phase = "up" /\ phase' = "up" /\ clock' = clock
  BY DEF Walk, GetNode
<1>2. Levels(sessions, sessions')
  BY <1>1, OwnId, WalkIsRequest, WarrenConstants, VisitLevels
<1>3. sessions'[Here] # Absent /\ SameFamily(sessions'[Here], Player)
  BY WalkFamily
<1>4. Level' = Level
  BY <1>2, <1>3, LevelIsBottom, WarrenConstants DEF Levels, Level
<1>5. known' \subseteq Findable /\ (LevelCode(6) \in known' => Level >= 5)
  BY <1>1, SightIsOpen DEF WalkInv, LevelsAreWithheld, HorizonNeedsFive
<1>6. LevelsAreWithheld'
  BY <1>4, <1>5 DEF WalkInv, LevelsAreWithheld, HorizonNeedsFive, NobodyPassesSeven
<1> QED  BY <1>1, <1>3, <1>5, <1>6 DEF WalkInv

\* A code is tried: it lifts the session if it is the code of the next level,
\* which no player can write down at level 7.
LEMMA TryStep ==
  ASSUME WarrenAssumption, Inv, WalkInv, NEW code \in Codes, Try(code)
  PROVE  WalkInv'
<1> DEFINE s == Entered(sessions, Here, Player)
           t == SubmitCode(s, code)
           judged == [sessions EXCEPT ![Here] = t]
<1>1. /\ sessions \in GoodMaps /\ clock \in 0..MaxTime /\ generation \in 0..MaxGen
      /\ Here \in Sid /\ Player \in Clients
  BY WarrenConstants DEF Inv
<1>2. /\ s \in Good /\ s.level = Level /\ SameFamily(s, Player)
      /\ s.level \in 0..7
  <2>1. s.level = Bottom(sessions[Home(sessions, Here, Player, Here)])
    BY <1>1, EnteredLevel, OwnId
  <2>2. s.level = Level
    BY <2>1, LevelIsBottom DEF Home
  <2>3. s.level \in 0..10
    BY <1>1, EnteredGood, WarrenConstants DEF Good, Session
  <2> QED  BY <1>1, <2>2, <2>3, EnteredGood, EnteredIsOwn
           DEF WalkInv, LevelsAreWithheld, NobodyPassesSeven
<1>3. t \in Good /\ SameFamily(t, Player) /\ t.level \in {s.level, s.level + 1}
  <2> HIDE DEF s
  <2> QED  BY <1>2, SubmitCodeGood, SubmitCodeLevel, SubmitCodeFamily DEF SameFamily
<1>4. t.level <= 7
  <2> SUFFICES ASSUME s.level = 7 PROVE t.level = 7
    BY <1>2, <1>3
  <2>1. code # LevelCode(8) /\ code \in Writable
    BY WritableCodes DEF Try, WalkInv
  <2>2. ~Accepts(s, code)
    BY <1>2, <2>1, AcceptedIsNext, WarrenConstants DEF LevelCode
  <2>3. t = [s EXCEPT !.submitted = @ \cup {code}]
    BY <2>2 DEF SubmitCode
  <2>4. s \in Session
    BY <1>2 DEF Good
  <2> HIDE DEF s
  <2> QED  BY <2>3, <2>4 DEF Session
<1>5. /\ sessions' \in {judged, MarkMetaSignal(judged, Here, Player)}
      /\ phase = "up" /\ phase' = "up" /\ clock' = clock /\ known' = known
  BY DEF Try, SubmitFlag, Home
<1> HIDE DEF s, t
<1>6. judged \in GoodMaps /\ judged[Here] = t /\ t # Absent
  BY <1>1, <1>3, PutGood, ConstantTypes DEF GoodMaps
<1> HIDE DEF judged
<1>7. /\ sessions'[Here] # Absent /\ sessions'[Here].level = t.level
      /\ SameFamily(sessions'[Here], Player)
  <2>1. CASE sessions' = judged
    BY <1>3, <1>6, <2>1
  <2>2. CASE sessions' = MarkMetaSignal(judged, Here, Player)
    <3>1. Levels(judged, sessions')
      BY <1>1, <1>6, <2>2, MarkLevels
    <3>2. sessions'[Here] # Absent /\ sessions'[Here].level = t.level
      BY <1>1, <1>6, <3>1 DEF Levels, Bottom
    <3>3. sessions'[Here].ip = t.ip /\ sessions'[Here].ua = t.ua
      <4>1. t \in Session
        BY <1>3 DEF Good
      <4>2. sessions'[Here] = [t EXCEPT !.meta = TRUE, !.markedBy = @ \cup {Player}]
        BY <1>1, <1>6, <2>2 DEF MarkMetaSignal, GoodMaps
      <4> QED  BY <4>1, <4>2 DEF Session
    <3> QED  BY <1>3, <3>2, <3>3 DEF SameFamily
  <2> QED  BY <1>5, <2>1, <2>2
<1>8. Level' = t.level
  BY <1>7 DEF Level
<1>9. LevelsAreWithheld'
  BY <1>2, <1>3, <1>4, <1>5, <1>8 DEF WalkInv, LevelsAreWithheld, HorizonNeedsFive, NobodyPassesSeven
<1> QED  BY <1>5, <1>7, <1>9 DEF WalkInv

\* The flushes of the walk drain events and evict nobody: no time passes.
LEMMA NodeRunsStep ==
  ASSUME WarrenAssumption, Inv, WalkInv, NodeRuns
  PROVE  WalkInv'
<1>1. Here \in Sid /\ Ttl \in Nat /\ sessions \in GoodMaps
  BY WarrenConstants, ConstantTypes DEF Inv
<1>2. CASE Start({})
  <2>1. sessions'[Here] = Absent /\ known' = {} /\ phase' = "starting" /\ clock' = clock
    BY <1>1, <1>2 DEF Start, NodeRuns, WalkInv
  <2>2. Level' = 0
    BY <2>1 DEF Level
  <2> QED  BY <2>1, <2>2 DEF WalkInv, LevelsAreWithheld, HorizonNeedsFive, NobodyPassesSeven
<1>3. ASSUME phase' # "down", clock' = clock, known' = known,
             sessions'[Here] # Absent => sessions[Here] # Absent,
             sessions[Here] # Absent =>
               /\ sessions'[Here] # Absent /\ sessions'[Here].level = sessions[Here].level
               /\ sessions'[Here].ip = sessions[Here].ip /\ sessions'[Here].ua = sessions[Here].ua
      PROVE  WalkInv'
  <2>1. Level' = Level
    BY <1>3 DEF Level
  <2> QED  BY <1>3, <2>1 DEF WalkInv, LevelsAreWithheld, HorizonNeedsFive, NobodyPassesSeven, SameFamily
<1>4. CASE FlushEmit
  <2>1. phase' # "down" /\ clock' = clock /\ known' = known
    BY <1>4 DEF FlushEmit, NodeRuns
  <2>2. sessions'[Here] = IF Here \in Live THEN Row(sessions[Here]) ELSE Absent
    BY <1>1, <1>4 DEF FlushEmit
  <2>3. ASSUME sessions[Here] # Absent
        PROVE  /\ Row(sessions[Here]) # Absent /\ Row(sessions[Here]).level = sessions[Here].level
               /\ Row(sessions[Here]).ip = sessions[Here].ip /\ Row(sessions[Here]).ua = sessions[Here].ua
    <3>1. sessions[Here] \in Good /\ sessions[Here] \in Session
      BY <1>1, <2>3, AtGood, GoodLevel
    <3> QED  BY <3>1, RowGood, ConstantTypes DEF Row, Session
  <2> QED  BY <1>1, <1>3, <2>1, <2>2, <2>3 DEF Live
<1>5. CASE FlushPersist
  <2>1. phase' # "down" /\ clock' = clock /\ known' = known
    BY <1>5 DEF FlushPersist, NodeRuns
  <2>2. sessions'[Here] = sessions[Here]
    <3>1. CASE sessions[Here] # Absent
      <4>1. sessions[Here].seen \in Nat
        BY <1>1, <3>1, GoodLevel DEF Session
      <4>2. ~Expired(sessions[Here])
        BY <1>1, <4>1 DEF Expired, WalkInv
      <4> QED  BY <1>1, <1>5, <4>2 DEF FlushPersist
    <3>2. CASE sessions[Here] = Absent
      BY <1>1, <1>5, <3>2 DEF FlushPersist, Live
    <3> QED  BY <3>1, <3>2
  <2> QED  BY <1>3, <2>1, <2>2
<1> QED  BY <1>2, <1>4, <1>5 DEF NodeRuns

LEMMA WalkStarts ==
  ASSUME WarrenAssumption, WalkInit
  PROVE  Init /\ Inv /\ WalkInv
<1>1. Init /\ Inv /\ known = {} /\ clock = 0
  BY InitInv DEF WalkInit, Init
<1>2. sessions[Here] = Absent
  BY <1>1, WarrenConstants DEF Init
<1>3. Level = 0
  BY <1>2 DEF Level
<1> QED  BY <1>1, <1>2, <1>3 DEF WalkInv, LevelsAreWithheld, HorizonNeedsFive, NobodyPassesSeven

LEMMA WalkGoesOn ==
  ASSUME WarrenAssumption, Inv, WalkInv, [WalkSome \/ TrySome \/ NodeRuns]_wvars
  PROVE  [Next]_vars /\ Inv' /\ WalkInv'
<1>1. [Next]_vars /\ Inv'
  BY StepIsEngineStep, NextInv
<1>2. WalkSome => WalkInv'
  BY WalkStep DEF WalkSome
<1>3. TrySome => WalkInv'
  BY TryStep DEF TrySome
<1>4. NodeRuns => WalkInv'
  BY NodeRunsStep
<1>5. ASSUME UNCHANGED wvars PROVE WalkInv'
  BY <1>5 DEF wvars, vars, WalkInv, LevelsAreWithheld, HorizonNeedsFive, NobodyPassesSeven, Level,
              SameFamily
<1> QED  BY <1>1, <1>2, <1>3, <1>4, <1>5

\* A player in the warren is a client of the session engine: whatever holds of
\* every client holds of it.
THEOREM WalkIsASession ==
  ASSUME WarrenAssumption
  PROVE  WalkSpec => Spec
<1>1. Inv /\ WalkInv /\ [WalkSome \/ TrySome \/ NodeRuns]_wvars => [Next]_vars /\ Inv' /\ WalkInv'
  BY WalkGoesOn
<1> QED  BY <1>1, WalkStarts, PTL DEF WalkSpec, Spec

\* The code of level 6 is out of sight below level 5, and nobody passes level 7:
\* whichever mechanics and places a seed deals, and however often a player walks,
\* joins what it saw and tries it (challengeFor, canAccessPath, submitCode).
THEOREM LevelsStayWithheld ==
  ASSUME WarrenAssumption
  PROVE  WalkSpec => []LevelsAreWithheld
<1>1. Inv /\ WalkInv /\ [WalkSome \/ TrySome \/ NodeRuns]_wvars => Inv' /\ WalkInv'
  BY WalkGoesOn
<1>2. WalkInv => LevelsAreWithheld
  BY DEF WalkInv
<1> QED  BY <1>1, <1>2, WalkStarts, PTL DEF WalkSpec
=============================================================================
