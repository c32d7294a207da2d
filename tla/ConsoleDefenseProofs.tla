------------------------ MODULE ConsoleDefenseProofs ------------------------
(***************************************************************************)
(* Proofs about ConsoleDefense, for any addresses and paths, any limits,   *)
(* windows, bans and size of the table.                                    *)
(*                                                                         *)
(* Whoever is banned is in the table, where the timer sees it, and a ban   *)
(* that was not reported lasts longer than the timer needs to come round:  *)
(* that is why no ban ends unreported.  What the table forgets, it forgets *)
(* while it is full, and it stays full: that is why a ban cut short tells  *)
(* of a full table.  The failures of the window that is running are those  *)
(* the counter has; the ones before it are what the window before it let   *)
(* pass: that is why a burst is bounded by two windows.                    *)
(***************************************************************************)
EXTENDS ConsoleDefense, FiniteSetTheorems, SequenceTheorems, TLAPS

\* The table of addresses: bounded, each listed once.
TableGood == tracked \in Seq(Ip) /\ Len(tracked) <= MaxTracked /\ IsInjective(tracked)

CountersGood ==
  /\ login \in [Ip -> Counter(LoginLimit)]
  /\ probe \in [Ip -> Counter(ProbeLimit)]
  /\ scan \in [Ip -> [paths : SUBSET Path, age : 0..Stale]]
  /\ \A x \in Ip : IsFiniteSet(scan[x].paths) /\ Cardinality(scan[x].paths) < ScanLimit

BansGood ==
  /\ ban \in [Ip -> 0..BanCeiling] /\ promised \in [Ip -> 0..BanCeiling]
  /\ offences \in [Ip -> 0..MaxOffences]
  /\ reported \in [Ip -> BOOLEAN]

\* The timer sees every ban, and comes round before one ends that it did not see.
TimerInTime ==
  \A x \in Ip : Banned(x) => Tracked(x) /\ (~reported[x] => ban[x] > drainIn)

DefenseInv ==
  /\ TableGood /\ CountersGood /\ BansGood
  /\ inFlight \in [Ip -> 0..MaxInFlight]
  /\ drainIn \in 0..DrainPeriod
  /\ failures \in [Ip -> [0..Window -> Nat]]
  /\ TimerInTime
  /\ BanForgottenOnlyWhenFull

-----------------------------------------------------------------------------
(* Constants, and the arithmetic of a ban.                                 *)

LEMMA DefenseConstants ==
  /\ LoginLimit \in Nat \ {0} /\ ProbeLimit \in Nat \ {0} /\ ScanLimit \in Nat \ {0}
  /\ Window \in Nat \ {0} /\ BanBase \in Nat \ {0} /\ BanCeiling \in Nat
  /\ MaxTracked \in Nat \ {0} /\ DrainPeriod \in Nat \ {0}
  /\ MaxOffences \in Nat \ {0} /\ MaxInFlight \in Nat \ {0}
  /\ BanBase <= BanCeiling /\ DrainPeriod < BanBase
  /\ Stale = Window + 1
BY DefenseAssumption DEF Stale

LEMMA MinOfTwo ==
  ASSUME NEW a \in Int, NEW b \in Int
  PROVE  Min({a, b}) = IF a <= b THEN a ELSE b
<1>1. \E x \in {a, b} : \A y \in {a, b} : x <= y
  OBVIOUS
<1>2. Min({a, b}) \in {a, b} /\ \A y \in {a, b} : Min({a, b}) <= y
  BY <1>1 DEF Min
<1> QED  BY <1>2

LEMMA MaxOfTwo ==
  ASSUME NEW a \in Int, NEW b \in Int
  PROVE  Max({a, b}) = IF a >= b THEN a ELSE b
<1>1. \E x \in {a, b} : \A y \in {a, b} : x >= y
  OBVIOUS
<1>2. Max({a, b}) \in {a, b} /\ \A y \in {a, b} : Max({a, b}) >= y
  BY <1>1 DEF Max
<1> QED  BY <1>2

\* banDurationMs stops doubling after twelve offences.
LEMMA PowersOfTwo ==
  ASSUME NEW k \in 0..12
  PROVE  2^k \in Nat /\ 2^k >= 1
<1> DEFINE Good(i) == 2^i \in Nat /\ 2^i >= 1
<1>1. /\ Good(0) /\ Good(1) /\ Good(2) /\ Good(3) /\ Good(4) /\ Good(5) /\ Good(6)
      /\ Good(7) /\ Good(8) /\ Good(9) /\ Good(10) /\ Good(11) /\ Good(12)
  OBVIOUS
<1>2. k \in {0, 1, 2, 3, 4, 5, 6, 7, 8, 9, 10, 11, 12}
  OBVIOUS
<1>3. Good(k)
  <2> HIDE DEF Good
  <2> QED  BY <1>1, <1>2
<1> QED  BY <1>3

LEMMA BanBounds ==
  ASSUME NEW n \in 1..MaxOffences
  PROVE  BanDuration(n) \in BanBase..BanCeiling
<1> DEFINE k == Min({n - 1, 12})
           b == BanBase * 2^k
<1>1. k \in 0..12
  BY MinOfTwo, DefenseConstants
<1> HIDE DEF k
<1>2. 2^k \in Nat /\ 2^k >= 1
  BY <1>1, PowersOfTwo
<1>3. b \in Nat /\ b >= BanBase
  <2> DEFINE p == 2^k
  <2>1. p \in Nat /\ p >= 1
    BY <1>2
  <2> HIDE DEF p
  <2>2. BanBase * p \in Nat /\ BanBase * p >= BanBase
    BY <2>1, DefenseConstants
  <2> QED  BY <2>2 DEF p
<1> HIDE DEF b
<1>4. Min({b, BanCeiling}) \in BanBase..BanCeiling
  BY <1>3, MinOfTwo, DefenseConstants
<1> QED  BY <1>4 DEF BanDuration, b, k

-----------------------------------------------------------------------------
(* The table of addresses.                                                 *)

\* A full table loses the address tracked first, which is not the new one.
LEMMA EvictedOne ==
  ASSUME TableGood, NEW ip \in Ip
  PROVE  /\ ip \notin Evicted(ip)
         /\ Tracked(ip) => Evicted(ip) = {}
         /\ Evicted(ip) # {} => Len(tracked) = MaxTracked
<1>1. Len(tracked) \in Nat /\ MaxTracked \in Nat \ {0}
  BY DefenseConstants DEF TableGood
<1>2. ASSUME ~Tracked(ip), Len(tracked) >= MaxTracked
      PROVE  Head(tracked) # ip /\ Len(tracked) = MaxTracked
  <2>1. 1 \in DOMAIN tracked /\ Head(tracked) = tracked[1]
    BY <1>1, <1>2 DEF TableGood
  <2> QED  BY <1>1, <1>2, <2>1 DEF Tracked, TableGood
<1> QED  BY <1>2 DEF Evicted

\* The new address is in the table, and whoever is not evicted stays in it.
LEMMA InsertGood ==
  ASSUME TableGood, NEW ip \in Ip, tracked' = Insert(ip)
  PROVE  /\ TableGood'
         /\ Tracked(ip)'
         /\ \A x \in Ip \ Evicted(ip) : Tracked(x) => Tracked(x)'
         /\ Len(tracked) = MaxTracked => Len(tracked') = MaxTracked
<1>0. /\ tracked \in Seq(Ip) /\ Len(tracked) \in Nat /\ Len(tracked) <= MaxTracked
      /\ MaxTracked \in Nat \ {0} /\ DOMAIN tracked = 1..Len(tracked)
      /\ \A i, j \in 1..Len(tracked) : tracked[i] = tracked[j] => i = j
  BY DefenseConstants DEF TableGood, IsInjective
<1>m. MaxTracked \in Nat /\ Len(tracked) \in Nat /\ Len(tracked) <= MaxTracked
  BY <1>0
<1>1. CASE Tracked(ip)
  BY <1>1 DEF Insert, Tracked, TableGood
<1>2. ASSUME ~Tracked(ip), NEW room \in Seq(Ip), Len(room) + 1 <= MaxTracked,
             tracked' = Append(room, ip), ip \notin Range(room),
             \A i, j \in 1..Len(room) : room[i] = room[j] => i = j,
             \A x \in Ip \ Evicted(ip) : Tracked(x) => x \in Range(room),
             Len(tracked) = MaxTracked => Len(room) + 1 = MaxTracked
      PROVE  /\ TableGood'
             /\ Tracked(ip)'
             /\ \A x \in Ip \ Evicted(ip) : Tracked(x) => Tracked(x)'
             /\ Len(tracked) = MaxTracked => Len(tracked') = MaxTracked
  <2> DEFINE n == Len(room)
  <2>1. /\ n \in Nat /\ Len(tracked') = n + 1 /\ tracked' \in Seq(Ip)
        /\ tracked'[n + 1] = ip /\ \A i \in 1..n : tracked'[i] = room[i]
        /\ DOMAIN tracked' = 1..(n + 1)
    BY <1>2
  <2>2. \A i \in 1..n : room[i] # ip
    BY <1>2 DEF Range
  <2>3. \A x \in Range(room) : \E i \in 1..n : tracked'[i] = x
    BY <1>2, <2>1 DEF Range
  <2>4. \A i, j \in 1..n : room[i] = room[j] => i = j
    BY <1>2
  <2> HIDE DEF n
  <2>5. \A i, j \in 1..(n + 1) : tracked'[i] = tracked'[j] => i = j
    BY <2>1, <2>2, <2>4
  <2>6. Tracked(ip)' /\ \A x \in Range(room) : Tracked(x)'
    BY <2>1, <2>3 DEF Tracked
  <2>7. n + 1 <= MaxTracked
    BY <1>2 DEF n
  <2>8. IsInjective(tracked')
    BY <2>1, <2>5 DEF IsInjective
  <2>9. TableGood'
    BY <2>1, <2>7, <2>8 DEF TableGood
  <2> QED  BY <1>2, <2>1, <2>6, <2>9 DEF n
<1>3. CASE ~Tracked(ip) /\ Len(tracked) < MaxTracked
  <2>1. Evicted(ip) = {} /\ tracked' = Append(tracked, ip)
    BY <1>0, <1>3 DEF Evicted, Insert
  <2>2. ip \notin Range(tracked) /\ \A x \in Ip : Tracked(x) => x \in Range(tracked)
    BY <1>3 DEF Tracked, Range
  <2>3. /\ \A x \in Ip \ Evicted(ip) : Tracked(x) => x \in Range(tracked)
        /\ Len(tracked) # MaxTracked
    BY <1>m, <1>3, <2>2
  <2>4. Len(tracked) + 1 <= MaxTracked
    BY <1>m, <1>3
  <2> QED  BY <1>0, <1>2, <1>3, <2>1, <2>2, <2>3, <2>4
<1>4. CASE ~Tracked(ip) /\ ~(Len(tracked) < MaxTracked)
  <2> DEFINE room == Tail(tracked)
             n == Len(tracked)
  <2>0. Evicted(ip) = {Head(tracked)} /\ Evicted(ip) # {} /\ n = MaxTracked
    <3>1. Len(tracked) >= MaxTracked /\ n = MaxTracked
      BY <1>m, <1>4
    <3>2. Evicted(ip) = {Head(tracked)}
      BY <1>4, <3>1 DEF Evicted
    <3> QED  BY <3>1, <3>2
  <2>1. Evicted(ip) = {Head(tracked)} /\ tracked' = Append(room, ip) /\ n = MaxTracked
    BY <1>4, <2>0 DEF Insert
  <2>2. /\ room \in Seq(Ip) /\ Len(room) = n - 1
        /\ \A i \in 1..(n - 1) : room[i] = tracked[i + 1]
        /\ DOMAIN room = 1..(n - 1) /\ Head(tracked) = tracked[1]
    BY <1>0, <2>1
  <2> HIDE DEF room
  <2>3. ip \notin Range(room)
    BY <1>0, <1>4, <2>2 DEF Tracked, Range
  <2>4. \A i, j \in 1..Len(room) : room[i] = room[j] => i = j
    BY <1>0, <2>2
  <2>5. ASSUME NEW x \in Ip \ Evicted(ip), Tracked(x) PROVE x \in Range(room)
    <3>1. PICK i \in 1..n : tracked[i] = x
      BY <1>0, <2>5 DEF Tracked
    <3>2. i # 1
      BY <2>1, <2>2, <2>5, <3>1
    <3>3. i - 1 \in 1..(n - 1) /\ room[i - 1] = x
      BY <1>0, <2>2, <3>1, <3>2
    <3> QED  BY <2>2, <3>3 DEF Range
  <2>6. Len(room) + 1 <= MaxTracked /\ Len(room) + 1 = MaxTracked
    BY <1>m, <2>1, <2>2
  <2> QED  BY <1>2, <1>4, <2>1, <2>2, <2>3, <2>4, <2>5, <2>6
<1> QED  BY <1>1, <1>3, <1>4

-----------------------------------------------------------------------------
(* The counters of an address.                                             *)

LEMMA CountedGood ==
  ASSUME NEW limit \in Nat \ {0}, NEW c \in Counter(limit)
  PROVE  /\ Consumed(Counted(c), limit) \in Counter(limit)
         /\ Clean \in Counter(limit) /\ [count |-> 0, age |-> 0] \in Counter(limit)
<1>0. /\ 0 \in 0..(limit - 1) /\ 0 \in 0..Stale /\ Stale \in 0..Stale
      /\ c.count \in 0..(limit - 1) /\ c.age \in 0..Stale
  BY DefenseConstants DEF Counter
<1>1. Clean \in Counter(limit) /\ [count |-> 0, age |-> 0] \in Counter(limit)
  BY <1>0 DEF Clean, Counter
<1>2. Slide(c) \in Counter(limit)
  BY <1>1 DEF Slide
<1>3. PICK w \in Counter(limit) : w = Slide(c)
  BY <1>2
<1>4. w.count \in 0..(limit - 1) /\ w.age \in 0..Stale
  BY DEF Counter
<1>5. Counted(c) = [w EXCEPT !.count = @ + 1]
  BY <1>3 DEF Counted
<1>6. [w EXCEPT !.count = @ + 1] = [count |-> w.count + 1, age |-> w.age]
  BY DEF Counter
<1>7. PICK n \in 1..limit : n = w.count + 1
  BY <1>4
<1>8. Counted(c) = [count |-> n, age |-> w.age]
  BY <1>5, <1>6, <1>7
<1>9. Consumed([count |-> n, age |-> w.age], limit) \in Counter(limit)
  <2>1. CASE n >= limit
    BY <1>0, <1>4, <2>1 DEF Consumed, Counter
  <2>2. CASE ~(n >= limit)
    BY <1>4, <1>7, <2>2 DEF Consumed, Counter
  <2> QED  BY <2>1, <2>2
<1> QED  BY <1>1, <1>8, <1>9

PathsGood == {s \in [paths : SUBSET Path, age : 0..Stale] :
                IsFiniteSet(s.paths) /\ Cardinality(s.paths) < ScanLimit}

LEMMA ScannedGood ==
  ASSUME NEW s \in PathsGood, NEW path \in Path
  PROVE  LET t  == SlidePaths(s)
             ps == t.paths \cup {path}
         IN  [t EXCEPT !.paths = IF Cardinality(ps) >= ScanLimit THEN {} ELSE ps] \in PathsGood
<1> DEFINE t == SlidePaths(s)
           ps == t.paths \cup {path}
           qs == IF Cardinality(ps) >= ScanLimit THEN {} ELSE ps
<1>1. IsFiniteSet({}) /\ Cardinality({}) = 0 /\ 0 < ScanLimit /\ 0 \in 0..Stale
  BY FS_EmptySet, DefenseConstants
<1>2. t \in [paths : SUBSET Path, age : 0..Stale] /\ IsFiniteSet(t.paths)
  BY <1>1 DEF SlidePaths, PathsGood
<1>3. IsFiniteSet(ps) /\ Cardinality(ps) \in Nat /\ ps \in SUBSET Path
  BY <1>2, FS_AddElement, FS_CardinalityType
<1>4. qs \in SUBSET Path /\ IsFiniteSet(qs) /\ Cardinality(qs) < ScanLimit
  BY <1>1, <1>3, DefenseConstants
<1> HIDE DEF t, ps, qs
<1>5. [t EXCEPT !.paths = qs] = [paths |-> qs, age |-> t.age]
  BY <1>2
<1>6. [paths |-> qs, age |-> t.age] \in PathsGood
  BY <1>2, <1>4 DEF PathsGood
<1>7. [t EXCEPT !.paths = qs] \in PathsGood
  BY <1>5, <1>6
<1> QED  BY <1>7 DEF t, ps, qs

LEMMA NoPathsGood == NoPaths \in PathsGood
BY FS_EmptySet, DefenseConstants DEF NoPaths, PathsGood

LEMMA NoFailuresType == NoFailures \in [0..Window -> Nat]
BY DEF NoFailures

\* Whatever is forgotten, a table keeps its type.
LEMMA ForgetType ==
  ASSUME NEW S, NEW f \in [Ip -> S], NEW empty \in S, NEW ips, NEW ip \in Ip, NEW v \in S
  PROVE  [Forget(f, ips, empty) EXCEPT ![ip] = v] \in [Ip -> S]
         /\ [Forget(f, ips, empty) EXCEPT ![ip] = v]
              = [x \in Ip |-> IF x = ip THEN v ELSE IF x \in ips THEN empty ELSE f[x]]
BY DEF Forget

-----------------------------------------------------------------------------
(* The steps.                                                              *)

\* What a record does to the bans: only the one it starts, and what it evicts.
LEMMA RecordBans ==
  ASSUME BansGood, NEW ip \in Ip, ip \notin Evicted(ip), NEW l, NEW p, NEW s,
         NEW banned \in BOOLEAN, Record(ip, l, p, s, banned)
  PROVE  /\ BansGood'
         /\ banned => /\ ban'[ip] \in BanBase..BanCeiling
                      /\ promised'[ip] = ban'[ip] /\ ~reported'[ip]
         /\ ~banned => /\ ban'[ip] = ban[ip] /\ promised'[ip] = promised[ip]
                       /\ (reported'[ip] <=> reported[ip])
         /\ \A x \in Ip \ {ip} : /\ ban'[x] = IF x \in Evicted(ip) THEN 0 ELSE ban[x]
                                 /\ promised'[x] = promised[x] /\ (reported'[x] <=> reported[x])
<1> DEFINE n == Min({offences[ip] + 1, MaxOffences})
           d == Max({ban[ip], BanDuration(n)})
<1>1. n \in 1..MaxOffences
  BY MinOfTwo, DefenseConstants DEF BansGood
<1>2. d \in BanBase..BanCeiling
  <2> HIDE DEF n
  <2>1. PICK b \in BanBase..BanCeiling : b = BanDuration(n)
    BY <1>1, BanBounds
  <2>2. ban[ip] \in 0..BanCeiling
    BY DEF BansGood
  <2> QED  BY <2>1, <2>2, MaxOfTwo, DefenseConstants
<1>3. /\ ban' = [Forget(ban, Evicted(ip), 0) EXCEPT ![ip] = IF banned THEN d ELSE @]
      /\ offences' = [Forget(offences, Evicted(ip), 0) EXCEPT ![ip] = IF banned THEN n ELSE @]
      /\ reported' = [reported EXCEPT ![ip] = @ /\ ~banned]
      /\ promised' = [promised EXCEPT ![ip] = IF banned THEN d ELSE @]
  BY DEF Record
<1> HIDE DEF n, d
<1>4. d \in 0..BanCeiling /\ n \in 0..MaxOffences /\ 0 \in 0..BanCeiling /\ 0 \in 0..MaxOffences
  BY <1>1, <1>2, DefenseConstants
<1>5. /\ ban' \in [Ip -> 0..BanCeiling]
      /\ ban' = [x \in Ip |-> IF x = ip THEN (IF banned THEN d ELSE ban[ip])
                              ELSE IF x \in Evicted(ip) THEN 0 ELSE ban[x]]
  BY <1>3, <1>4 DEF BansGood, Forget
<1>6. offences' \in [Ip -> 0..MaxOffences]
  BY <1>3, <1>4 DEF BansGood, Forget
<1>7. /\ promised' \in [Ip -> 0..BanCeiling]
      /\ promised' = [x \in Ip |-> IF x = ip THEN (IF banned THEN d ELSE promised[ip])
                                   ELSE promised[x]]
  BY <1>3, <1>4 DEF BansGood
<1>8. /\ reported' \in [Ip -> BOOLEAN]
      /\ reported' = [x \in Ip |-> IF x = ip THEN reported[ip] /\ ~banned ELSE reported[x]]
  BY <1>3 DEF BansGood
<1>9. BansGood'
  BY <1>5, <1>6, <1>7, <1>8 DEF BansGood
<1>10. banned => ban'[ip] \in BanBase..BanCeiling /\ promised'[ip] = ban'[ip]
  BY <1>2, <1>5, <1>7
<1>11. ~banned => ban'[ip] = ban[ip] /\ promised'[ip] = promised[ip]
  BY <1>5, <1>7
<1>12. (banned => ~reported'[ip]) /\ (~banned => (reported'[ip] <=> reported[ip]))
  <2>1. reported'[ip] <=> (reported[ip] /\ ~banned) /\ reported[ip] \in BOOLEAN
    BY <1>8 DEF BansGood
  <2> QED  BY <2>1
<1>13. ASSUME NEW x \in Ip \ {ip}
       PROVE  /\ ban'[x] = IF x \in Evicted(ip) THEN 0 ELSE ban[x]
              /\ promised'[x] = promised[x] /\ (reported'[x] <=> reported[x])
  <2>1. ban'[x] = IF x \in Evicted(ip) THEN 0 ELSE ban[x]
    BY <1>5
  <2>2. promised'[x] = promised[x]
    BY <1>7
  <2>3. reported'[x] <=> reported[x]
    BY <1>8
  <2> QED  BY <2>1, <2>2, <2>3
<1> QED  BY <1>9, <1>10, <1>11, <1>12, <1>13, Zenon

\* Every record keeps the invariant: a login, a probe or a scan that counts.
LEMMA RecordInv ==
  ASSUME DefenseInv, NEW ip \in Ip, NEW l \in Counter(LoginLimit), NEW p \in Counter(ProbeLimit),
         NEW s \in PathsGood, NEW banned \in BOOLEAN, Record(ip, l, p, s, banned),
         inFlight' \in [Ip -> 0..MaxInFlight], drainIn' = drainIn,
         failures' \in [Ip -> [0..Window -> Nat]]
  PROVE  DefenseInv'
<1>0. TableGood /\ CountersGood /\ BansGood /\ TimerInTime /\ drainIn \in 0..DrainPeriod
      /\ BanForgottenOnlyWhenFull
  BY DEF DefenseInv
<1>1. tracked' = Insert(ip)
  BY DEF Record
<1>2. /\ ip \notin Evicted(ip) /\ TableGood' /\ Tracked(ip)'
      /\ \A x \in Ip \ Evicted(ip) : Tracked(x) => Tracked(x)'
      /\ Len(tracked) = MaxTracked => Len(tracked') = MaxTracked
      /\ Evicted(ip) # {} => Len(tracked) = MaxTracked
  BY <1>0, <1>1, EvictedOne, InsertGood
<1>3. CountersGood'
  <2>1. /\ login' = [Forget(login, Evicted(ip), Clean) EXCEPT ![ip] = l]
        /\ probe' = [Forget(probe, Evicted(ip), Clean) EXCEPT ![ip] = p]
        /\ scan' = [Forget(scan, Evicted(ip), NoPaths) EXCEPT ![ip] = s]
    BY DEF Record
  <2>2. Clean \in Counter(LoginLimit) /\ Clean \in Counter(ProbeLimit)
    BY CountedGood, DefenseConstants
  <2>3. scan \in [Ip -> PathsGood]
    BY <1>0 DEF CountersGood, PathsGood
  <2>4. login' \in [Ip -> Counter(LoginLimit)] /\ probe' \in [Ip -> Counter(ProbeLimit)]
    BY <1>0, <2>1, <2>2 DEF CountersGood, Forget
  <2>5. scan' \in [Ip -> PathsGood]
    BY <2>1, <2>3, NoPathsGood DEF Forget
  <2> QED  BY <2>4, <2>5 DEF CountersGood, PathsGood
<1>4. /\ BansGood'
      /\ banned => /\ ban'[ip] \in BanBase..BanCeiling
                   /\ promised'[ip] = ban'[ip] /\ ~reported'[ip]
      /\ ~banned => /\ ban'[ip] = ban[ip] /\ promised'[ip] = promised[ip]
                    /\ (reported'[ip] <=> reported[ip])
      /\ \A x \in Ip \ {ip} : /\ ban'[x] = IF x \in Evicted(ip) THEN 0 ELSE ban[x]
                              /\ promised'[x] = promised[x] /\ (reported'[x] <=> reported[x])
  BY <1>0, <1>2, RecordBans
<1>5. TimerInTime'
  <2> SUFFICES ASSUME NEW x \in Ip, Banned(x)'
               PROVE  Tracked(x)' /\ (~reported'[x] => ban'[x] > drainIn')
    BY DEF TimerInTime
  <2>1. CASE x = ip /\ banned
    BY <1>0, <1>2, <1>4, <2>1, DefenseConstants
  <2>2. CASE ~(x = ip /\ banned)
    <3>1. x \notin Evicted(ip) /\ ban'[x] = ban[x] /\ (reported'[x] <=> reported[x])
      <4>1. CASE x = ip
        BY <1>2, <1>4, <2>2, <4>1
      <4>2. CASE x # ip
        <5>1. ban'[x] # 0
          BY DEF Banned
        <5> QED  BY <1>4, <4>2, <5>1
      <4> QED  BY <4>1, <4>2
    <3>2. Banned(x)
      BY <3>1 DEF Banned
    <3> QED  BY <1>0, <1>2, <3>1, <3>2 DEF TimerInTime
  <2> QED  BY <2>1, <2>2
<1>6. BanForgottenOnlyWhenFull'
  <2> SUFFICES ASSUME NEW x \in Ip, promised'[x] # ban'[x]
               PROVE  Len(tracked') = MaxTracked
    BY DEF BanForgottenOnlyWhenFull
  <2>1. CASE x \in Evicted(ip)
    BY <1>2, <2>1
  <2>2. CASE x \notin Evicted(ip)
    BY <1>0, <1>2, <1>4, <2>2 DEF BanForgottenOnlyWhenFull
  <2> QED  BY <2>1, <2>2
<1> QED  BY <1>0, <1>2, <1>3, <1>4, <1>5, <1>6 DEF DefenseInv

LEMMA DefenseInit == Init => DefenseInv
<1> SUFFICES ASSUME Init PROVE DefenseInv
  OBVIOUS
<1>1. TableGood
  BY DefenseConstants DEF Init, TableGood, IsInjective
<1>2. CountersGood
  <2>1. NoPaths \in PathsGood /\ Clean \in Counter(LoginLimit) /\ Clean \in Counter(ProbeLimit)
    BY NoPathsGood, CountedGood, DefenseConstants DEF Clean, Counter
  <2> QED  BY <2>1 DEF Init, CountersGood, PathsGood
<1>3. BansGood
  BY DefenseConstants DEF Init, BansGood
<1>4. /\ inFlight \in [Ip -> 0..MaxInFlight] /\ drainIn \in 0..DrainPeriod
      /\ failures \in [Ip -> [0..Window -> Nat]]
  BY NoFailuresType, DefenseConstants DEF Init
<1>5. TimerInTime /\ BanForgottenOnlyWhenFull
  BY DEF Init, TimerInTime, Banned, BanForgottenOnlyWhenFull
<1> QED  BY <1>1, <1>2, <1>3, <1>4, <1>5 DEF DefenseInv

\* A restart finds what createCentralServer makes.
LEMMA RestartInv == Restart => DefenseInv'
<1> SUFFICES ASSUME Restart PROVE DefenseInv'
  OBVIOUS
<1>1. TableGood'
  BY DefenseConstants DEF Restart, TableGood, IsInjective
<1>2. CountersGood'
  <2>1. NoPaths \in PathsGood /\ Clean \in Counter(LoginLimit) /\ Clean \in Counter(ProbeLimit)
    BY NoPathsGood, CountedGood, DefenseConstants DEF Clean, Counter
  <2> QED  BY <2>1 DEF Restart, CountersGood, PathsGood
<1>3. BansGood'
  BY DefenseConstants DEF Restart, BansGood
<1>4. /\ inFlight' \in [Ip -> 0..MaxInFlight] /\ drainIn' \in 0..DrainPeriod
      /\ failures' \in [Ip -> [0..Window -> Nat]]
  BY NoFailuresType, DefenseConstants DEF Restart
<1>5. TimerInTime' /\ BanForgottenOnlyWhenFull'
  BY DEF Restart, TimerInTime, Banned, BanForgottenOnlyWhenFull
<1> QED  BY <1>1, <1>2, <1>3, <1>4, <1>5 DEF DefenseInv

\* The counters of an address are what a record may start from.
LEMMA CountersOf ==
  ASSUME DefenseInv, NEW ip \in Ip
  PROVE  /\ login[ip] \in Counter(LoginLimit) /\ probe[ip] \in Counter(ProbeLimit)
         /\ scan[ip] \in PathsGood
BY DEF DefenseInv, CountersGood, PathsGood

\* One login less in flight, one more.
LEMMA InFlightType ==
  ASSUME DefenseInv, NEW ip \in Ip
  PROVE  /\ inFlight[ip] > 0 => [inFlight EXCEPT ![ip] = @ - 1] \in [Ip -> 0..MaxInFlight]
         /\ inFlight[ip] < MaxInFlight =>
              [inFlight EXCEPT ![ip] = @ + 1] \in [Ip -> 0..MaxInFlight]
<1>1. inFlight \in [Ip -> 0..MaxInFlight] /\ MaxInFlight \in Nat
  BY DefenseConstants DEF DefenseInv
<1> QED  BY <1>1

LEMMA FailuresType ==
  ASSUME DefenseInv, NEW ips
  PROVE  Forget(failures, ips, NoFailures) \in [Ip -> [0..Window -> Nat]]
BY NoFailuresType DEF DefenseInv, Forget

LEMMA RequestInv ==
  ASSUME DefenseInv, NEW ip \in Ip, Request(ip)
  PROVE  DefenseInv'
<1>1. CASE LoginArrives(ip) \/ LoginMalformed(ip)
  <2>1. inFlight' \in [Ip -> 0..MaxInFlight]
    BY <1>1, InFlightType DEF LoginArrives, LoginMalformed
  <2>2. UNCHANGED <<tracked, login, probe, scan, ban, offences, drainIn, failures, reported, promised>>
    BY <1>1 DEF LoginArrives, LoginMalformed, table, history
  <2> QED  BY <2>1, <2>2 DEF DefenseInv, TableGood, CountersGood, BansGood, TimerInTime,
              BanForgottenOnlyWhenFull, Banned, Tracked
<1>2. CASE LoginFails(ip)
  <2> DEFINE c == Counted(login[ip])
             hit == c.count >= LoginLimit
             fs == Forget(failures, Evicted(ip), NoFailures)
             v == IF hit THEN NoFailures ELSE OneMore(failures[ip])
  <2>1. inFlight' \in [Ip -> 0..MaxInFlight] /\ drainIn' = drainIn
    BY <1>2, InFlightType DEF LoginFails
  <2>2. Record(ip, Consumed(c, LoginLimit), probe[ip], scan[ip], hit) /\ hit \in BOOLEAN
    BY <1>2 DEF LoginFails
  <2>3. Consumed(c, LoginLimit) \in Counter(LoginLimit)
    BY CountersOf, CountedGood, DefenseConstants
  <2>4. failures' \in [Ip -> [0..Window -> Nat]]
    <3>1. failures' = [fs EXCEPT ![ip] = v]
      BY <1>2 DEF LoginFails
    <3>2. fs \in [Ip -> [0..Window -> Nat]]
      BY FailuresType
    <3>3. OneMore(failures[ip]) \in [0..Window -> Nat]
      BY DefenseConstants DEF OneMore, DefenseInv
    <3> HIDE DEF fs, hit
    <3>4. v \in [0..Window -> Nat]
      BY <3>3, NoFailuresType
    <3> QED  BY <3>1, <3>2, <3>4
  <2> HIDE DEF c, hit
  <2> QED  BY <2>1, <2>2, <2>3, <2>4, CountersOf, RecordInv
<1>3. CASE LoginSucceeds(ip)
  <2>1. inFlight' \in [Ip -> 0..MaxInFlight]
    BY <1>3, InFlightType DEF LoginSucceeds
  <2>2. UNCHANGED <<tracked, probe, scan, ban, offences, drainIn, reported, promised>>
    BY <1>3 DEF LoginSucceeds
  <2>3. login' \in [Ip -> Counter(LoginLimit)]
    <3>1. login \in [Ip -> Counter(LoginLimit)]
      BY DEF DefenseInv, CountersGood
    <3>2. [count |-> 0, age |-> 0] \in Counter(LoginLimit)
      BY DefenseConstants DEF Counter
    <3> QED  BY <1>3, <3>1, <3>2 DEF LoginSucceeds
  <2>4. failures' \in [Ip -> [0..Window -> Nat]]
    BY <1>3, NoFailuresType DEF LoginSucceeds, DefenseInv
  <2> QED  BY <2>1, <2>2, <2>3, <2>4 DEF DefenseInv, TableGood, CountersGood, BansGood,
              TimerInTime, BanForgottenOnlyWhenFull, Banned, Tracked
<1>4. CASE Probe(ip)
  <2> DEFINE c == Counted(probe[ip])
             hit == c.count >= ProbeLimit
  <2>1. /\ Record(ip, login[ip], Consumed(c, ProbeLimit), scan[ip], hit) /\ hit \in BOOLEAN
        /\ failures' = Forget(failures, Evicted(ip), NoFailures)
        /\ inFlight' = inFlight /\ drainIn' = drainIn
    BY <1>4 DEF Probe
  <2>2. Consumed(c, ProbeLimit) \in Counter(ProbeLimit)
    BY CountersOf, CountedGood, DefenseConstants
  <2>3. inFlight' \in [Ip -> 0..MaxInFlight] /\ failures' \in [Ip -> [0..Window -> Nat]]
    BY <2>1, FailuresType DEF DefenseInv
  <2> HIDE DEF c, hit
  <2> QED  BY <2>1, <2>2, <2>3, CountersOf, RecordInv
<1>5. ASSUME NEW path \in Path, Scan(ip, path) PROVE DefenseInv'
  <2> DEFINE t == SlidePaths(scan[ip])
             ps == t.paths \cup {path}
             hit == Cardinality(ps) >= ScanLimit
             v == [t EXCEPT !.paths = IF hit THEN {} ELSE ps]
  <2>1. /\ Record(ip, login[ip], probe[ip], v, hit) /\ hit \in BOOLEAN
        /\ failures' = Forget(failures, Evicted(ip), NoFailures)
        /\ inFlight' = inFlight /\ drainIn' = drainIn
    BY <1>5 DEF Scan
  <2>2. v \in PathsGood
    BY CountersOf, ScannedGood
  <2>3. inFlight' \in [Ip -> 0..MaxInFlight] /\ failures' \in [Ip -> [0..Window -> Nat]]
    BY <2>1, FailuresType DEF DefenseInv
  <2> HIDE DEF v, hit
  <2> QED  BY <2>1, <2>2, <2>3, CountersOf, RecordInv
<1> QED  BY <1>1, <1>2, <1>3, <1>4, <1>5 DEF Request

\* A unit of time: every ban is one shorter, and so is the way to the next round.
LEMMA TickInv == DefenseInv /\ Tick => DefenseInv'
<1> SUFFICES ASSUME DefenseInv, Tick PROVE DefenseInv'
  OBVIOUS
<1>0. TableGood /\ CountersGood /\ BansGood /\ TimerInTime /\ BanForgottenOnlyWhenFull
      /\ drainIn \in 0..DrainPeriod /\ drainIn > 0 /\ drainIn' = drainIn - 1
      /\ UNCHANGED <<tracked, offences, inFlight, reported>>
  BY DEF DefenseInv, Tick
<1>1. ASSUME NEW n \in Int PROVE Less(n) = IF n - 1 >= 0 THEN n - 1 ELSE 0
  BY MaxOfTwo DEF Less
<1>2. ASSUME NEW n \in 0..Stale PROVE Min({n + 1, Stale}) \in 0..Stale
  BY <1>2, MinOfTwo, DefenseConstants
<1>3. CountersGood'
  <2>1. ASSUME NEW limit \in Nat, NEW c \in Counter(limit) PROVE Older(c) \in Counter(limit)
    <3>1. c.age \in 0..Stale
      BY DEF Counter
    <3>2. Min({c.age + 1, Stale}) \in 0..Stale
      BY <1>2, <3>1
    <3> QED  BY <3>2 DEF Older, Counter
  <2>2. ASSUME NEW s \in PathsGood PROVE Older(s) \in PathsGood
    <3>1. s.age \in 0..Stale /\ s.paths \in SUBSET Path /\ s \in [paths : SUBSET Path, age : 0..Stale]
      BY DEF PathsGood
    <3>2. PICK m \in 0..Stale : m = Min({s.age + 1, Stale})
      BY <1>2, <3>1
    <3>3. Older(s) = [paths |-> s.paths, age |-> m]
      BY <3>1, <3>2 DEF Older
    <3>4. [paths |-> s.paths, age |-> m] \in PathsGood
      BY <3>1 DEF PathsGood
    <3> QED  BY <3>3, <3>4
  <2>3. /\ login' = [x \in Ip |-> Older(login[x])] /\ probe' = [x \in Ip |-> Older(probe[x])]
        /\ scan' = [x \in Ip |-> Older(scan[x])]
    BY DEF Tick
  <2>4. login' \in [Ip -> Counter(LoginLimit)] /\ probe' \in [Ip -> Counter(ProbeLimit)]
    BY <1>0, <2>1, <2>3, DefenseConstants DEF CountersGood
  <2>5. scan' \in [Ip -> PathsGood]
    BY <2>2, <2>3, CountersOf
  <2> QED  BY <2>4, <2>5 DEF CountersGood, PathsGood
<1>4. /\ ban' = [x \in Ip |-> Less(ban[x])] /\ promised' = [x \in Ip |-> Less(promised[x])]
  BY DEF Tick
<1>5. ASSUME NEW x \in Ip
      PROVE  /\ ban[x] \in 0..BanCeiling /\ promised[x] \in 0..BanCeiling
             /\ ban'[x] \in 0..BanCeiling /\ promised'[x] \in 0..BanCeiling
             /\ ban'[x] = IF ban[x] - 1 >= 0 THEN ban[x] - 1 ELSE 0
             /\ promised[x] = ban[x] => promised'[x] = ban'[x]
  <2>1. ban[x] \in 0..BanCeiling /\ promised[x] \in 0..BanCeiling
    BY <1>0 DEF BansGood
  <2> QED  BY <1>1, <1>4, <2>1, DefenseConstants
<1>6. BansGood'
  BY <1>0, <1>4, <1>5 DEF BansGood
<1>7. TimerInTime'
  <2> SUFFICES ASSUME NEW x \in Ip, ban'[x] > 0
               PROVE  Tracked(x)' /\ (~reported'[x] => ban'[x] > drainIn')
    BY DEF TimerInTime, Banned
  <2>1. ban[x] > 0 /\ ban'[x] = ban[x] - 1
    BY <1>5
  <2>2. Tracked(x) /\ (~reported[x] => ban[x] > drainIn)
    BY <1>0, <2>1 DEF TimerInTime, Banned
  <2>3. Tracked(x)'
    BY <1>0, <2>2 DEF Tracked
  <2> QED  BY <1>0, <1>5, <2>1, <2>2, <2>3
<1>8. BanForgottenOnlyWhenFull'
  BY <1>0, <1>5 DEF BanForgottenOnlyWhenFull
<1>9. failures' \in [Ip -> [0..Window -> Nat]]
  <2>1. ASSUME NEW x \in Ip, NEW a \in 0..Window
        PROVE  (IF a = 0 THEN 0 ELSE failures[x][a - 1]) \in Nat
    BY DefenseConstants DEF DefenseInv
  <2>2. failures' = [x \in Ip |-> [a \in 0..Window |-> IF a = 0 THEN 0 ELSE failures[x][a - 1]]]
    BY DEF Tick
  <2> QED  BY <2>1, <2>2
<1>10. TableGood' /\ inFlight' \in [Ip -> 0..MaxInFlight]
  BY <1>0 DEF DefenseInv, TableGood
<1>11. drainIn' \in 0..DrainPeriod
  BY <1>0, DefenseConstants
<1> QED  BY <1>3, <1>6, <1>7, <1>8, <1>9, <1>10, <1>11 DEF DefenseInv

\* The timer comes round: every ban there is was seen.
LEMMA DrainInv == DefenseInv /\ Drain => DefenseInv'
<1> SUFFICES ASSUME DefenseInv, Drain PROVE DefenseInv'
  OBVIOUS
<1>1. /\ UNCHANGED <<tracked, login, probe, scan, ban, offences, inFlight, failures, promised>>
      /\ drainIn' = DrainPeriod
      /\ reported' = [x \in Ip |-> reported[x] \/ (Noticed(x) /\ Banned(x))]
  BY DEF Drain, table
<1>2. \A x \in Ip : reported'[x] <=> reported[x] \/ (Noticed(x) /\ Banned(x))
  BY <1>1
<1>3. reported' \in [Ip -> BOOLEAN] /\ BansGood'
  BY <1>1 DEF DefenseInv, BansGood
<1>4. TimerInTime'
  BY <1>1, <1>2 DEF DefenseInv, TimerInTime, Banned, Tracked, Noticed
<1>5. TableGood' /\ CountersGood' /\ BanForgottenOnlyWhenFull'
  BY <1>1 DEF DefenseInv, TableGood, CountersGood, BanForgottenOnlyWhenFull
<1>6. drainIn' \in 0..DrainPeriod
  BY <1>1, DefenseConstants
<1>7. inFlight' \in [Ip -> 0..MaxInFlight] /\ failures' \in [Ip -> [0..Window -> Nat]]
  BY <1>1 DEF DefenseInv
<1> QED  BY <1>3, <1>4, <1>5, <1>6, <1>7 DEF DefenseInv

LEMMA NextInv == DefenseInv /\ [Next]_vars => DefenseInv'
<1> SUFFICES ASSUME DefenseInv, [Next]_vars PROVE DefenseInv'
  OBVIOUS
<1>1. ASSUME NEW ip \in Ip, Request(ip) PROVE DefenseInv'
  BY <1>1, RequestInv
<1>2. CASE Tick
  BY <1>2, TickInv
<1>3. CASE Drain
  BY <1>3, DrainInv
<1>4. CASE Restart
  BY <1>4, RestartInv
<1>5. CASE UNCHANGED vars
  BY <1>5 DEF vars, table, history, DefenseInv, TableGood, CountersGood, BansGood, TimerInTime,
              BanForgottenOnlyWhenFull, Banned, Tracked
<1> QED  BY <1>1, <1>2, <1>3, <1>4, <1>5 DEF Next

\* The inductive invariant holds of every behaviour.
THEOREM Invariance == Spec => []DefenseInv
BY DefenseInit, NextInv, PTL DEF Spec

-----------------------------------------------------------------------------
(* Failures and their window.                                              *)

\* What the counter of an address says of its failures: those since its window
\* started are counted, those before were too few for a ban; of a window that has
\* elapsed none is new.
Counts(f, c) ==
  /\ \A a \in 1..Window : f[a - 1] <= f[a]
  /\ c.age = Stale => f[0] = 0 /\ f[Window] <= LoginLimit - 1
  /\ c.age <= Window => f[c.age] <= c.count /\ f[Window] - f[c.age] <= LoginLimit - 1

BurstInv == \A ip \in Ip : Counts(failures[ip], login[ip])

LEMMA NoFailuresCount ==
  ASSUME NEW c \in Counter(LoginLimit)
  PROVE  Counts(NoFailures, c)
<1>1. /\ c.age \in 0..(Window + 1) /\ c.count \in 0..(LoginLimit - 1)
      /\ LoginLimit \in Nat \ {0} /\ Window \in Nat \ {0} /\ Stale = Window + 1
  BY DefenseConstants DEF Counter, Stale
<1> QED  BY <1>1 DEF Counts, NoFailures

\* A failure that brings no ban about: in a window that starts over with it, or in
\* the one there is.
LEMMA FailureCounts ==
  ASSUME NEW f \in [0..Window -> Nat], NEW c \in Counter(LoginLimit), Counts(f, c),
         Counted(c).count < LoginLimit
  PROVE  Counts(OneMore(f), Counted(c))
<1> DEFINE g == OneMore(f)
<1>0. /\ c.age \in 0..(Window + 1) /\ c.count \in 0..(LoginLimit - 1)
      /\ LoginLimit \in Nat \ {0} /\ Window \in Nat \ {0} /\ Stale = Window + 1
  BY DefenseConstants DEF Counter, Stale
<1>1. \A a \in 0..Window : f[a] \in Nat /\ g[a] = f[a] + 1
  BY DEF OneMore
<1> HIDE DEF g
<1>2. \A a \in 1..Window : g[a - 1] <= g[a]
  BY <1>0, <1>1 DEF Counts
<1>3. CASE c.age <= Window
  <2>1. Counted(c) = [count |-> c.count + 1, age |-> c.age]
    <3>1. Slide(c) = c
      BY <1>0, <1>3 DEF Slide
    <3>2. [c EXCEPT !.count = @ + 1] = [count |-> c.count + 1, age |-> c.age]
      BY DEF Counter
    <3> QED  BY <3>1, <3>2 DEF Counted
  <2>2. Counted(c).age = c.age /\ Counted(c).count = c.count + 1
    BY <2>1
  <2>3. f[c.age] <= c.count /\ f[Window] - f[c.age] <= LoginLimit - 1
    BY <1>3 DEF Counts
  <2>4. g[c.age] = f[c.age] + 1 /\ g[Window] = f[Window] + 1
        /\ f[c.age] \in Nat /\ f[Window] \in Nat
    BY <1>0, <1>1, <1>3
  <2>5. g[c.age] <= c.count + 1 /\ g[Window] - g[c.age] <= LoginLimit - 1 /\ c.age # Stale
    BY <1>0, <1>3, <2>3, <2>4
  <2> QED  BY <1>2, <2>2, <2>5 DEF Counts, g
<1>4. CASE ~(c.age <= Window)
  <2>1. c.age = Stale /\ c.age > Window
    BY <1>0, <1>4
  <2>2. Counted(c) = [count |-> 1, age |-> 0]
    BY <2>1 DEF Counted, Slide
  <2>3. f[0] = 0 /\ f[Window] <= LoginLimit - 1
    BY <2>1 DEF Counts
  <2>4. g[0] = 1 /\ g[Window] = f[Window] + 1 /\ f[Window] \in Nat
    BY <1>0, <1>1, <2>3
  <2>5. g[0] <= 1 /\ g[Window] - g[0] <= LoginLimit - 1 /\ 0 # Stale
    BY <1>0, <2>3, <2>4
  <2>6. Counted(c).age = 0 /\ Counted(c).count = 1
    BY <2>2
  <2> QED  BY <1>2, <2>5, <2>6 DEF Counts, g
<1> QED  BY <1>3, <1>4

\* A tick makes window and failures older by one: a failure that leaves the last
\* Window ticks is one of those before the window, if it has any.
LEMMA OlderCounts ==
  ASSUME NEW f \in [0..Window -> Nat], NEW c \in Counter(LoginLimit), Counts(f, c)
  PROVE  Counts([a \in 0..Window |-> IF a = 0 THEN 0 ELSE f[a - 1]], Older(c))
<1> DEFINE g == [a \in 0..Window |-> IF a = 0 THEN 0 ELSE f[a - 1]]
<1>0. /\ c.age \in 0..(Window + 1) /\ c.count \in 0..(LoginLimit - 1)
      /\ LoginLimit \in Nat \ {0} /\ Window \in Nat \ {0} /\ Stale = Window + 1
  BY DefenseConstants DEF Counter, Stale
<1>1. /\ \A a \in 0..Window : f[a] \in Nat
      /\ g[0] = 0 /\ \A a \in 1..Window : g[a] = f[a - 1]
  BY <1>0
<1> HIDE DEF g
<1>2. \A a \in 1..Window : f[a - 1] <= f[a]
  BY DEF Counts
<1>3. ASSUME NEW a \in 1..Window PROVE g[a - 1] <= g[a]
  <2>1. CASE a = 1
    BY <1>0, <1>1, <2>1
  <2>2. CASE a # 1
    <3>1. a - 1 \in 1..Window /\ (a - 1) - 1 = a - 2
      BY <1>0, <2>2
    <3> QED  BY <1>1, <1>2, <3>1
  <2> QED  BY <2>1, <2>2
<1>4. g[Window] = f[Window - 1] /\ f[Window - 1] <= f[Window]
      /\ f[Window - 1] \in Nat /\ f[Window] \in Nat
  BY <1>0, <1>1, <1>2
<1>5. Older(c) = [count |-> c.count, age |-> IF c.age + 1 <= Stale THEN c.age + 1 ELSE Stale]
  <2>1. PICK m \in 0..Stale : /\ m = Min({c.age + 1, Stale})
                               /\ m = IF c.age + 1 <= Stale THEN c.age + 1 ELSE Stale
    BY <1>0, MinOfTwo
  <2>2. [c EXCEPT !.age = m] = [count |-> c.count, age |-> m]
    BY DEF Counter
  <2> QED  BY <2>1, <2>2 DEF Older
<1>6. CASE c.age < Window
  <2>1. Older(c).age = c.age + 1 /\ Older(c).count = c.count
    BY <1>0, <1>5, <1>6
  <2>2. f[c.age] <= c.count /\ f[Window] - f[c.age] <= LoginLimit - 1
    BY <1>0, <1>6 DEF Counts
  <2>3. g[c.age + 1] = f[c.age] /\ f[c.age] \in Nat
    <3>1. c.age + 1 \in 1..Window /\ (c.age + 1) - 1 = c.age /\ c.age \in 0..Window
      BY <1>0, <1>6
    <3> QED  BY <1>1, <3>1
  <2>4. g[c.age + 1] <= c.count /\ g[Window] - g[c.age + 1] <= LoginLimit - 1 /\ c.age + 1 # Stale
    BY <1>0, <1>4, <1>6, <2>2, <2>3
  <2> QED  BY <1>3, <2>1, <2>4 DEF Counts, g
<1>7. CASE ~(c.age < Window)
  <2>1. Older(c).age = Stale
    BY <1>0, <1>5, <1>7
  <2>2. f[Window] <= LoginLimit - 1
    <3>1. CASE c.age = Window
      BY <1>0, <1>4, <3>1 DEF Counts
    <3>2. CASE c.age = Stale
      BY <3>2 DEF Counts
    <3> QED  BY <1>0, <1>7, <3>1, <3>2
  <2>3. g[0] = 0 /\ g[Window] <= LoginLimit - 1 /\ ~(Stale <= Window)
    BY <1>0, <1>1, <1>4, <2>2
  <2> QED  BY <1>3, <2>1, <2>3 DEF Counts, g
<1> QED  BY <1>6, <1>7 DEF g

\* A record of something else: whoever is not evicted keeps counter and failures.
LEMMA OtherCounts ==
  ASSUME DefenseInv, BurstInv, NEW ip \in Ip, NEW p, NEW s, NEW banned \in BOOLEAN,
         Record(ip, login[ip], p, s, banned),
         failures' = Forget(failures, Evicted(ip), NoFailures)
  PROVE  BurstInv'
<1> SUFFICES ASSUME NEW x \in Ip PROVE Counts(failures'[x], login'[x])
  BY DEF BurstInv
<1>1. ip \notin Evicted(ip) /\ login[x] \in Counter(LoginLimit)
  BY EvictedOne, CountersOf DEF DefenseInv
<1>2. Clean \in Counter(LoginLimit)
  BY CountersOf, CountedGood, DefenseConstants
<1>3. /\ login'[x] = IF x \in Evicted(ip) THEN Clean ELSE login[x]
      /\ failures'[x] = IF x \in Evicted(ip) THEN NoFailures ELSE failures[x]
  BY <1>1 DEF Record, Forget
<1> QED  BY <1>2, <1>3, NoFailuresCount DEF BurstInv

LEMMA RequestBurst ==
  ASSUME DefenseInv, BurstInv, NEW ip \in Ip, Request(ip)
  PROVE  BurstInv'
<1>1. CASE LoginArrives(ip) \/ LoginMalformed(ip)
  BY <1>1 DEF LoginArrives, LoginMalformed, table, history, BurstInv
<1>2. CASE LoginFails(ip)
  <2> DEFINE c == Counted(login[ip])
             hit == c.count >= LoginLimit
  <2> SUFFICES ASSUME NEW x \in Ip PROVE Counts(failures'[x], login'[x])
    BY DEF BurstInv
  <2>1. ip \notin Evicted(ip) /\ login[ip] \in Counter(LoginLimit)
    BY EvictedOne, CountersOf DEF DefenseInv
  <2>2. Clean \in Counter(LoginLimit) /\ Consumed(c, LoginLimit) \in Counter(LoginLimit)
    BY <2>1, CountedGood, DefenseConstants
  <2>3. /\ login'[x] = IF x = ip THEN Consumed(c, LoginLimit)
                       ELSE IF x \in Evicted(ip) THEN Clean ELSE login[x]
        /\ failures'[x] = IF x = ip THEN IF hit THEN NoFailures ELSE OneMore(failures[ip])
                          ELSE IF x \in Evicted(ip) THEN NoFailures ELSE failures[x]
    BY <1>2 DEF LoginFails, Record, Forget
  <2>4. CASE x = ip /\ hit
    BY <2>2, <2>3, <2>4, NoFailuresCount
  <2>5. CASE x = ip /\ ~hit
    <3>1. c.count < LoginLimit /\ Consumed(c, LoginLimit) = c
      <4>1. c.count \in Int
        <5>1. Slide(login[ip]).count \in Int
          BY <2>1, DefenseConstants DEF Slide, Counter
        <5>2. c.count = Slide(login[ip]).count + 1
          BY <2>1 DEF Counted, Slide, Counter
        <5> QED  BY <5>1, <5>2
      <4> QED  BY <2>5, <4>1, DefenseConstants DEF Consumed
    <3>2. failures[ip] \in [0..Window -> Nat] /\ Counts(failures[ip], login[ip])
      BY DEF DefenseInv, BurstInv
    <3> QED  BY <2>1, <2>3, <2>5, <3>1, <3>2, FailureCounts
  <2>6. CASE x # ip
    BY <2>2, <2>3, <2>6, NoFailuresCount DEF BurstInv
  <2> QED  BY <2>4, <2>5, <2>6
<1>3. CASE LoginSucceeds(ip)
  <2> SUFFICES ASSUME NEW x \in Ip PROVE Counts(failures'[x], login'[x])
    BY DEF BurstInv
  <2>1. login' \in [Ip -> Counter(LoginLimit)]
    BY <1>3, RequestInv DEF DefenseInv, CountersGood, Request
  <2>2. CASE x = ip
    BY <1>3, <2>1, <2>2, NoFailuresCount DEF LoginSucceeds, DefenseInv
  <2>3. CASE x # ip
    BY <1>3, <2>3 DEF LoginSucceeds, BurstInv
  <2> QED  BY <2>2, <2>3
<1>4. CASE Probe(ip)
  <2> DEFINE c == Counted(probe[ip])
             hit == c.count >= ProbeLimit
  <2>1. /\ Record(ip, login[ip], Consumed(c, ProbeLimit), scan[ip], hit) /\ hit \in BOOLEAN
        /\ failures' = Forget(failures, Evicted(ip), NoFailures)
    BY <1>4 DEF Probe
  <2> HIDE DEF c, hit
  <2> QED  BY <2>1, OtherCounts
<1>5. ASSUME NEW path \in Path, Scan(ip, path) PROVE BurstInv'
  <2> DEFINE t == SlidePaths(scan[ip])
             ps == t.paths \cup {path}
             hit == Cardinality(ps) >= ScanLimit
             v == [t EXCEPT !.paths = IF hit THEN {} ELSE ps]
  <2>1. /\ Record(ip, login[ip], probe[ip], v, hit) /\ hit \in BOOLEAN
        /\ failures' = Forget(failures, Evicted(ip), NoFailures)
    BY <1>5 DEF Scan
  <2> HIDE DEF v, hit
  <2> QED  BY <2>1, OtherCounts
<1> QED  BY <1>1, <1>2, <1>3, <1>4, <1>5 DEF Request

LEMMA NextBurst == DefenseInv /\ BurstInv /\ [Next]_vars => BurstInv'
<1> SUFFICES ASSUME DefenseInv, BurstInv, [Next]_vars PROVE BurstInv'
  OBVIOUS
<1>1. ASSUME NEW ip \in Ip, Request(ip) PROVE BurstInv'
  BY <1>1, RequestBurst
<1>2. CASE Tick
  <2> SUFFICES ASSUME NEW x \in Ip PROVE Counts(failures'[x], login'[x])
    BY DEF BurstInv
  <2>1. /\ login'[x] = Older(login[x])
        /\ failures'[x] = [a \in 0..Window |-> IF a = 0 THEN 0 ELSE failures[x][a - 1]]
    BY <1>2 DEF Tick
  <2>2. /\ login[x] \in Counter(LoginLimit) /\ failures[x] \in [0..Window -> Nat]
        /\ Counts(failures[x], login[x])
    BY CountersOf DEF DefenseInv, BurstInv
  <2> QED  BY <2>1, <2>2, OlderCounts
<1>3. CASE Restart
  BY <1>3, CountedGood, NoFailuresCount, DefenseConstants DEF Restart, BurstInv, Clean, Counter, Stale
<1>4. CASE Drain \/ UNCHANGED vars
  BY <1>4 DEF Drain, vars, table, history, BurstInv
<1> QED  BY <1>1, <1>2, <1>3, <1>4 DEF Next

-----------------------------------------------------------------------------
(* The properties.                                                         *)

\* Every variable keeps its type: the table of addresses stays bounded and lists
\* each once, no counter stays at its limit, no ban outlasts the ceiling
\* (stateFor, slideWindow, banDurationMs).
THEOREM TypeCorrect == Spec => []TypeOK
<1>1. DefenseInv => TypeOK
  BY DEF DefenseInv, TableGood, CountersGood, BansGood, TypeOK
<1> QED  BY <1>1, Invariance, PTL

\* However logins, bans and other requests interleave, an address has at most twice
\* the limit less two failures in a stretch of the length of a window without a ban:
\* a window starts over instead of sliding (slideWindow, recordLoginFailure), so the
\* stretch meets the end of one window and all of the next.
THEOREM BurstsStayBounded == Spec => []BurstBeforeBan
<1>1. Init => BurstInv
  BY DefenseInit, CountersOf, NoFailuresCount DEF Init, BurstInv
<1>2. DefenseInv /\ BurstInv => BurstBeforeBan
  <2> SUFFICES ASSUME DefenseInv, BurstInv, NEW ip \in Ip
               PROVE  failures[ip][Window] <= 2 * (LoginLimit - 1)
    BY DEF DefenseInv, TableGood, CountersGood, BansGood, TypeOK, BurstBeforeBan
  <2> DEFINE f == failures[ip]
             a == login[ip].age
  <2>1. /\ a \in 0..(Window + 1) /\ login[ip].count \in 0..(LoginLimit - 1)
        /\ LoginLimit \in Nat \ {0} /\ Window \in Nat \ {0} /\ Stale = Window + 1
    BY CountersOf, DefenseConstants DEF Counter, Stale
  <2>2. \A i \in 0..Window : f[i] \in Nat
    BY DEF DefenseInv
  <2>3. Counts(f, login[ip])
    BY DEF BurstInv
  <2>4. f[Window] \in Nat
    BY <2>1, <2>2
  <2>5. CASE a = Stale
    BY <2>1, <2>3, <2>4, <2>5 DEF Counts
  <2>6. CASE a <= Window
    <3>1. f[a] \in Nat /\ f[a] <= login[ip].count /\ f[Window] - f[a] <= LoginLimit - 1
      BY <2>1, <2>2, <2>3, <2>6 DEF Counts
    <3> HIDE DEF f, a
    <3> QED  BY <2>1, <2>4, <3>1 DEF f
  <2> QED  BY <2>1, <2>5, <2>6
<1> QED  BY <1>1, <1>2, NextBurst, Invariance, DefenseInit, PTL DEF Spec

\* A ban is in force until it ends, unless the table is full: nothing but an
\* insertion into a full table forgets an address (stateFor), a success forgets
\* a count only, and a table that was full stays full.
THEOREM BansAreKept == Spec => []BanForgottenOnlyWhenFull
<1>1. DefenseInv => BanForgottenOnlyWhenFull
  BY DEF DefenseInv
<1> QED  BY <1>1, Invariance, PTL

\* A ban that runs out was written to attacker_activity while it lasted, because
\* the shortest ban is longer than the period of the timer (banDurationMs,
\* CONSOLE_DEFENSE_DRAIN_INTERVAL_MS), whatever is evicted in between.
THEOREM NoBanEndsUnreported == Spec => EndedBansWereReported
<1>1. DefenseInv /\ [Next]_vars =>
        [\A ip \in Ip : (Tick /\ Banned(ip) /\ ~Banned(ip)') => reported[ip]]_vars
  <2> SUFFICES ASSUME DefenseInv, NEW ip \in Ip, Tick, Banned(ip), ~Banned(ip)'
               PROVE  reported[ip]
    OBVIOUS
  <2>1. /\ ban[ip] \in 0..BanCeiling /\ drainIn \in 0..DrainPeriod /\ drainIn > 0
        /\ ban'[ip] = Less(ban[ip])
    BY DEF DefenseInv, BansGood, Tick
  <2>2. ban'[ip] \in Int /\ ban'[ip] >= ban[ip] - 1
    <3>1. Less(ban[ip]) \in Int /\ Less(ban[ip]) >= ban[ip] - 1
      BY <2>1, MaxOfTwo, DefenseConstants DEF Less
    <3> QED  BY <2>1, <3>1
  <2>3. ~(ban[ip] > drainIn)
    <3>1. ~(ban'[ip] > 0)
      BY DEF Banned
    <3>2. ban[ip] \in Int /\ drainIn \in Int
      BY <2>1
    <3> QED  BY <2>1, <2>2, <3>1, <3>2
  <2> QED  BY <2>3 DEF DefenseInv, TimerInTime
<1> QED  BY <1>1, Invariance, PTL DEF Spec, EndedBansWereReported

=============================================================================
