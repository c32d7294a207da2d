----------------------------- MODULE SignInProofs -----------------------------
(***************************************************************************)
(* Proofs about SignIn, for any browsers, sign-ins and users, any roles in *)
(* use and any lengths of life.                                            *)
(*                                                                         *)
(* Two arguments that do not meet.  A state is in one place: not begun, in *)
(* the store, at one callback, or used up (States); a session is issued by *)
(* the callback that holds the state.  The age of a role is carried along: *)
(* the provider's answer was right when it was given (Current), the age of *)
(* the answer bounds how long ago (Fresh), then the age of the cookie, then *)
(* that of the request (RoleWasHeld).                                      *)
(***************************************************************************)
EXTENDS SignIn, FiniteSetTheorems, TLAPS

Calls ==
  [at : {"idle", "tokens", "groups", "answered"}, flow : Flow \cup {None},
   code : Flow \cup {None}, role : Role \cup {None}, age : 0..AnswerTime]

Active(b) == call[b].at # "idle"

Types ==
  /\ TypeOK
  /\ sessions \in [Flow -> SUBSET (Browser \X User)]

\* What a callback holds: a state that nobody else can use any more, a code of
\* somebody, and after the tokens the code of that state.
Holds(b) ==
  /\ call[b].flow \in begun /\ call[b].flow \in Flow /\ call[b].code \in Flow
  /\ code[call[b].code] \in User
  /\ pkce[call[b].flow] = None /\ sessions[call[b].flow] = {}
  /\ call[b].at \in {"groups", "answered"} => call[b].code = call[b].flow

States ==
  /\ \A b \in Browser : Active(b) => Holds(b)
  /\ \A a, b \in Browser : Active(a) /\ Active(b) /\ call[a].flow = call[b].flow => a = b
  /\ \A f \in Flow : pkce[f] # None => f \in begun /\ sessions[f] = {}
  /\ \A f \in Flow : f \notin begun => sessions[f] = {}

Issued ==
  /\ \A f \in Flow : \A s \in sessions[f] : s[2] = code[f]
  /\ \A f \in Flow : \A s, t \in sessions[f] : s = t

\* The role a user has is held now; the one in an answer was when it was given.
Current == \A u \in User : RoleOf(groups[u]) # None => held[u][RoleOf(groups[u])] = 0

Fresh ==
  \A b \in Browser : call[b].at = "answered" /\ call[b].role # None =>
    held[code[call[b].code]][call[b].role] <= call[b].age

Inv == Types /\ States /\ Issued /\ Current /\ Fresh /\ RoleWasHeld

-----------------------------------------------------------------------------
(* Numbers and roles.                                                      *)

LEMMA Constants ==
  /\ Role \subseteq 1..4 /\ LegacyRoles \subseteq Role
  /\ SessionLife \in Nat \ {0} /\ StateLife \in Nat \ {0} /\ AnswerTime \in Nat /\ BodyTime \in Nat
  /\ None \notin Role /\ None \notin User /\ None \notin Flow
  /\ Forever \in Nat /\ Forever > SessionLife
BY SignInAssumption DEF Forever

LEMMA MinOfTwo ==
  ASSUME NEW a \in Int, NEW b \in Int
  PROVE  Min({a, b}) = IF a <= b THEN a ELSE b
<1> DEFINE m == IF a <= b THEN a ELSE b
<1>1. m \in {a, b} /\ \A y \in {a, b} : m <= y
  OBVIOUS
<1>2. \A x \in {a, b} : (\A y \in {a, b} : x <= y) => x = m
  OBVIOUS
<1> QED  BY <1>1, <1>2 DEF Min

LEMMA MaxOfTwo ==
  ASSUME NEW a \in Int, NEW b \in Int
  PROVE  Max({a, b}) = IF a >= b THEN a ELSE b
<1> DEFINE m == IF a >= b THEN a ELSE b
<1>1. m \in {a, b} /\ \A y \in {a, b} : m >= y
  OBVIOUS
<1>2. \A x \in {a, b} : (\A y \in {a, b} : x >= y) => x = m
  OBVIOUS
<1> QED  BY <1>1, <1>2 DEF Max

LEMMA RoleOfGroups ==
  ASSUME NEW G \in SUBSET Role
  PROVE  RoleOf(G) \in Role \cup {None}
<1>1. CASE G = {}
  BY <1>1 DEF RoleOf
<1>2. CASE G # {}
  <2>1. G \subseteq 1..4
    BY Constants
  <2>2. \E x \in G : \A y \in G : x >= y
    <3>1. CASE 4 \in G
      BY <2>1, <3>1
    <3>2. CASE 4 \notin G /\ 3 \in G
      BY <2>1, <3>2
    <3>3. CASE 4 \notin G /\ 3 \notin G /\ 2 \in G
      BY <2>1, <3>3
    <3>4. CASE 4 \notin G /\ 3 \notin G /\ 2 \notin G
      <4>1. \A y \in G : y = 1
        BY <2>1, <3>4
      <4> QED  BY <1>2, <4>1
    <3> QED  BY <3>1, <3>2, <3>3, <3>4
  <2>3. Max(G) \in G
    BY <2>2 DEF Max
  <2> QED  BY <1>2, <2>3 DEF RoleOf
<1> QED  BY <1>1, <1>2

-----------------------------------------------------------------------------
(* The actions keep the invariant.                                         *)

LEMMA InitInv == Init => Inv
<1> SUFFICES ASSUME Init PROVE Inv
  OBVIOUS
<1>1. groups \in [User -> SUBSET Role]
  BY DEF Init
<1>2. Idle \in Calls
  BY Constants DEF Idle, Calls
<1>3. held \in [User -> [Role -> 0..Forever]]
  BY Constants DEF Init
<1>4. Types
  BY <1>1, <1>2, <1>3, Constants DEF Init, Types, TypeOK, Calls
<1>5. States /\ Issued /\ Fresh
  BY DEF Init, States, Issued, Fresh, Active, Idle
<1>6. Current
  BY <1>1, RoleOfGroups DEF Init, Current
<1>7. RoleWasHeld
  BY DEF Init, RoleWasHeld, Decodes
<1> QED  BY <1>4, <1>5, <1>6, <1>7 DEF Inv

LEMMA StartInv ==
  ASSUME Inv, NEW f \in Flow, Start(f)
  PROVE  Inv'
<1>1. Types'
  BY Constants DEF Inv, Types, TypeOK, Start, provider
<1>2. States'
  BY DEF Inv, Types, TypeOK, Start, provider, States, Active, Holds
<1>3. (Issued /\ Current /\ Fresh /\ RoleWasHeld)'
  BY DEF Inv, Start, provider, Issued, Current, Fresh, RoleWasHeld, Decodes
<1> QED  BY <1>1, <1>2, <1>3 DEF Inv

\* A sign-in is authenticated once, so that no session changes its owner.
LEMMA AuthenticateInv ==
  ASSUME Inv, NEW f \in Flow, NEW u \in User, Authenticate(f, u)
  PROVE  Inv'
<1>1. Types'
  BY DEF Inv, Types, TypeOK, Authenticate
<1>2. \A g \in Flow : code[g] # None => code'[g] = code[g]
  BY DEF Inv, Types, TypeOK, Authenticate
<1>3. States' /\ Fresh'
  <2>1. \A b \in Browser : Active(b) => code'[call[b].code] = code[call[b].code]
    BY <1>2, Constants DEF Inv, States, Holds
  <2> QED  BY <2>1 DEF Inv, Types, TypeOK, Authenticate, States, Active, Holds, Fresh
<1>4. Issued'
  <2>1. \A g \in Flow : \A s \in sessions[g] : s[2] \in User
    BY DEF Inv, Types
  <2> QED  BY <1>2, <2>1, Constants DEF Inv, Authenticate, Issued
<1>5. (Current /\ RoleWasHeld)'
  BY DEF Inv, Authenticate, Current, RoleWasHeld, Decodes
<1> QED  BY <1>1, <1>3, <1>4, <1>5 DEF Inv

\* The callback takes the state out of the store before it waits.
LEMMA CallbackInv ==
  ASSUME Inv, NEW b \in Browser, NEW f \in Flow, NEW g \in Flow, Callback(b, f, g)
  PROVE  Inv'
<1> DEFINE c == [Idle EXCEPT !.at = "tokens", !.flow = f, !.code = g]
<1>0. /\ Types /\ call[b] = Idle /\ pkce[f] # None /\ code[g] \in User
      /\ f \in begun /\ sessions[f] = {}
  BY DEF Inv, Types, TypeOK, States, Callback, Enter
<1>a. c \in [at : {"tokens"}, flow : {f}, code : {g}, role : {None}, age : {0}]
  <2>1. Idle \in [at : {"idle"}, flow : {None}, code : {None}, role : {None}, age : {0}]
    BY DEF Idle
  <2> QED  BY <2>1
<1>1. call' = [call EXCEPT ![b] = c]
  BY DEF Callback, Enter
<1> HIDE DEF c
<1>2. c \in Calls
  BY <1>a, Constants DEF Calls
<1>3. /\ call'[b] = c
      /\ \A a \in Browser \ {b} : call'[a] = call[a]
  BY <1>0, <1>1 DEF Types, TypeOK
<1>4. Types'
  BY <1>0, <1>1, <1>2 DEF Types, TypeOK, Calls, Callback, provider
<1>5. pkce'[f] = None /\ \A h \in Flow \ {f} : pkce'[h] = pkce[h]
  BY <1>0 DEF Types, TypeOK, Callback
<1>6. \A a \in Browser : Active(a) => call[a].flow # f
  BY <1>0 DEF Inv, States, Holds
<1>7. UNCHANGED <<begun, code, sessions>>
  BY DEF Callback, provider
<1>8. States'
  <2>1. \A a \in Browser : Active(a)' => Holds(a)'
    BY <1>0, <1>a, <1>3, <1>5, <1>6, <1>7 DEF Inv, States, Active, Holds
  <2>2. \A x, y \in Browser : Active(x)' /\ Active(y)' /\ call'[x].flow = call'[y].flow => x = y
    BY <1>a, <1>3, <1>6 DEF Inv, States, Active
  <2>3. \A h \in Flow : /\ pkce'[h] # None => h \in begun' /\ sessions'[h] = {}
                        /\ h \notin begun' => sessions'[h] = {}
    BY <1>5, <1>7 DEF Inv, States
  <2> QED  BY <2>1, <2>2, <2>3 DEF States
<1>9. Fresh'
  BY <1>a, <1>3 DEF Inv, Fresh, Callback, provider
<1>10. (Issued /\ Current /\ RoleWasHeld)'
  BY DEF Inv, Callback, provider, Issued, Current, RoleWasHeld, Decodes
<1> QED  BY <1>4, <1>8, <1>9, <1>10 DEF Inv

\* An entry that is taken out or swept leaves everything else as it is.
LEMMA DroppedInv ==
  ASSUME Inv, NEW f \in Flow, pkce' = [pkce EXCEPT ![f] = None],
         UNCHANGED <<begun, provider, call, jar, request, sessions, held>>
  PROVE  Inv'
<1>1. Types'
  BY DEF Inv, Types, TypeOK, provider
<1>2. States'
  BY DEF Inv, Types, TypeOK, provider, States, Active, Holds
<1>3. (Issued /\ Current /\ Fresh /\ RoleWasHeld)'
  BY DEF Inv, provider, Issued, Current, Fresh, RoleWasHeld, Decodes
<1> QED  BY <1>1, <1>2, <1>3 DEF Inv

\* A callback that goes on with the state it holds.
LEMMA CallGoesOn ==
  ASSUME Inv, NEW b \in Browser, Active(b), NEW c, call' = [call EXCEPT ![b] = c],
         c \in [at : {"tokens", "groups", "answered"}, flow : {call[b].flow},
                code : {call[b].code}, role : Role \cup {None}, age : 0..AnswerTime],
         c.at # "tokens" => c.code = c.flow,
         c.at = "answered" /\ c.role # None => held[code[c.code]][c.role] <= c.age,
         UNCHANGED <<pkce, begun, provider, jar, request, sessions, held>>
  PROVE  Inv'
<1>0. Types /\ Holds(b) /\ c.flow = call[b].flow /\ c.code = call[b].code
  BY DEF Inv, States
<1>1. /\ call'[b] = c /\ c.at # "idle"
      /\ \A a \in Browser \ {b} : call'[a] = call[a]
  BY <1>0 DEF Types, TypeOK
<1>2. c \in Calls
  BY <1>0 DEF Holds, Calls
<1>3. Types'
  BY <1>0, <1>2 DEF Types, TypeOK, Calls, provider
<1>4. UNCHANGED <<pkce, begun, code, sessions, held>>
  BY DEF provider
<1>5. States'
  <2>1. \A a \in Browser : Active(a)' => Holds(a)'
    BY <1>0, <1>1, <1>4 DEF Inv, States, Active, Holds
  <2>2. \A x, y \in Browser : Active(x)' /\ Active(y)' /\ call'[x].flow = call'[y].flow => x = y
    BY <1>0, <1>1 DEF Inv, States, Active
  <2> QED  BY <1>4, <2>1, <2>2 DEF Inv, States
<1>6. Fresh'
  BY <1>1, <1>4 DEF Inv, Fresh
<1>7. (Issued /\ Current /\ RoleWasHeld)'
  BY DEF Inv, provider, Issued, Current, RoleWasHeld, Decodes
<1> QED  BY <1>3, <1>5, <1>6, <1>7 DEF Inv

LEMMA TokensInv ==
  ASSUME Inv, NEW b \in Browser, Tokens(b)
  PROVE  Inv'
<1> DEFINE c == [call[b] EXCEPT !.at = "groups"]
<1>1. Active(b) /\ call[b].code = call[b].flow
  BY DEF Tokens, Active
<1>2. c \in [at : {"tokens", "groups", "answered"}, flow : {call[b].flow},
             code : {call[b].code}, role : Role \cup {None}, age : 0..AnswerTime]
      /\ c.at = "groups" /\ c.code = c.flow
  BY <1>1 DEF Inv, Types, TypeOK
<1>3. call' = [call EXCEPT ![b] = c]
  BY DEF Tokens
<1> HIDE DEF c
<1> QED  BY <1>1, <1>2, <1>3, CallGoesOn DEF Tokens

LEMMA AnsweredCall ==
  ASSUME NEW c \in Calls, NEW r \in Role \cup {None}
  PROVE  [c EXCEPT !.at = "answered", !.role = r] \in
           [at : {"answered"}, flow : {c.flow}, code : {c.code}, role : {r}, age : {c.age}]
BY DEF Calls

\* The answer is what the provider says at this moment.
LEMMA UserInfoInv ==
  ASSUME Inv, NEW b \in Browser, UserInfo(b)
  PROVE  Inv'
<1> DEFINE u == code[call[b].code]
           r == RoleOf(groups[u])
           c == [call[b] EXCEPT !.at = "answered", !.role = r]
<1>1. Active(b) /\ Holds(b) /\ call[b].code = call[b].flow
  BY DEF UserInfo, Active, Holds, Inv, States
<1>2. u \in User /\ RoleOf(groups[u]) \in Role \cup {None}
  BY <1>1, RoleOfGroups DEF Inv, Types, TypeOK, Holds
<1>3. call[b] \in Calls
  BY DEF Inv, Types, TypeOK, Calls
<1>4. c \in [at : {"tokens", "groups", "answered"}, flow : {call[b].flow},
             code : {call[b].code}, role : Role \cup {None}, age : 0..AnswerTime]
      /\ c.code = c.flow /\ c.code = call[b].code /\ c.role = r /\ c.age \in Nat
  <2>1. r \in Role \cup {None}
    BY <1>2
  <2> HIDE DEF r
  <2>2. c \in [at : {"answered"}, flow : {call[b].flow}, code : {call[b].code}, role : {r},
               age : {call[b].age}]
    BY <1>3, <2>1, AnsweredCall
  <2> HIDE DEF c
  <2> QED  BY <1>1, <1>3, <2>1, <2>2, Constants DEF Calls
<1>5. c.role # None => held[u][c.role] <= c.age
  BY <1>2, <1>4 DEF Inv, Current
<1>6. call' = [call EXCEPT ![b] = c]
  BY <1>3 DEF UserInfo, Inv, Types, TypeOK
<1>7. c.role # None => held[code[c.code]][c.role] <= c.age
  BY <1>4, <1>5
<1> HIDE DEF c
<1> QED  BY <1>1, <1>4, <1>6, <1>7, CallGoesOn DEF UserInfo

\* A callback that ends gives its state to nobody.
LEMMA CallEnds ==
  ASSUME Types, States, NEW b \in Browser, call' = [call EXCEPT ![b] = Idle]
  PROVE  /\ call' \in [Browser -> Calls]
         /\ ~Active(b)'
         /\ \A a \in Browser \ {b} : call'[a] = call[a]
<1>1. Idle \in Calls /\ Idle.at = "idle"
  BY Constants DEF Idle, Calls
<1> QED  BY <1>1 DEF Types, TypeOK, Calls, Active

\* The session is its owner's, and the first of its state.
LEMMA IssueInv ==
  ASSUME Inv, NEW b \in Browser, Issue(b)
  PROVE  Inv'
<1> DEFINE f == call[b].flow
           u == code[call[b].code]
           r == call[b].role
<1>0. Types /\ States /\ Active(b) /\ Holds(b) /\ call[b].code = f /\ call[b].at = "answered"
  BY DEF Inv, States, Issue, Active, Holds
<1>1. f \in Flow /\ u \in User /\ u = code[f] /\ r \in Role /\ sessions[f] = {} /\ call[b].age \in 0..AnswerTime
  BY <1>0 DEF Holds, Types, TypeOK, Issue
<1>2. /\ jar' = [jar EXCEPT ![b] = [user |-> u, role |-> r, left |-> SessionLife]]
      /\ sessions' = [sessions EXCEPT ![f] = {<<b, u>>}]
      /\ UNCHANGED <<pkce, begun, code, groups, request, held>>
  BY <1>0, <1>1 DEF Issue, Cookie, provider, Types
<1>3. /\ call' \in [Browser -> Calls] /\ ~Active(b)'
      /\ \A a \in Browser \ {b} : call'[a] = call[a]
  BY <1>0, CallEnds DEF Issue
<1>4. Types'
  <2> DEFINE c == [user |-> u, role |-> r, left |-> SessionLife]
             cookies == [user : User \cup {None}, role : Role, left : 0..SessionLife] \cup {None}
  <2>1. c \in cookies
    BY <1>1, Constants
  <2> HIDE DEF c, cookies
  <2>2. jar \in [Browser -> cookies] => jar' \in [Browser -> cookies]
    BY <1>2, <2>1 DEF c
  <2>3. jar' \in [Browser -> cookies]
    BY <1>0, <2>2 DEF Types, TypeOK, cookies
  <2>4. sessions' \in [Flow -> SUBSET (Browser \X User)]
    BY <1>0, <1>1, <1>2 DEF Types
  <2> QED  BY <1>0, <1>2, <1>3, <2>3, <2>4 DEF Types, TypeOK, Calls, cookies
<1>5. States'
  <2>1. \A a \in Browser \ {b} : Active(a) => call[a].flow # f
    BY <1>0 DEF States
  <2>2. \A g \in Flow \ {f} : sessions'[g] = sessions[g]
    BY <1>0, <1>2 DEF Types
  <2>3. \A a \in Browser : Active(a)' => Holds(a)'
    BY <1>2, <1>3, <2>1, <2>2 DEF Inv, States, Active, Holds
  <2>4. \A x, y \in Browser : Active(x)' /\ Active(y)' /\ call'[x].flow = call'[y].flow => x = y
    BY <1>3 DEF Inv, States, Active
  <2>5. pkce[f] = None /\ f \in begun
    BY <1>0 DEF Holds
  <2> QED  BY <1>0, <1>2, <2>2, <2>3, <2>4, <2>5 DEF States
<1>6. Issued'
  <2>1. sessions'[f] = {<<b, u>>} /\ \A g \in Flow \ {f} : sessions'[g] = sessions[g]
    BY <1>0, <1>1, <1>2 DEF Types
  <2>2. <<b, u>>[2] = u
    OBVIOUS
  <2> QED  BY <1>1, <1>2, <2>1, <2>2 DEF Inv, Issued
<1>7. Fresh'
  BY <1>2, <1>3 DEF Inv, Fresh, Active
<1>8. Current'
  BY <1>2 DEF Inv, Current
<1>9. RoleWasHeld'
  <2>1. held[u][r] <= AnswerTime
    <3>1. held[u][r] <= call[b].age
      BY <1>0, <1>1, Constants DEF Inv, Fresh
    <3>2. held[u][r] \in 0..Forever
      BY <1>0, <1>1 DEF Types, TypeOK
    <3> QED  BY <1>1, <3>1, <3>2, Constants
  <2>2. /\ jar'[b] = [user |-> u, role |-> r, left |-> SessionLife]
        /\ \A a \in Browser \ {b} : jar'[a] = jar[a]
    BY <1>0, <1>2 DEF Types, TypeOK
  <2>3. jar'[b].user = u /\ jar'[b].role = r /\ jar'[b].left = SessionLife
    BY <2>2
  <2>4. held[u][r] <= SessionLife - SessionLife + AnswerTime
    BY <2>1, Constants
  <2> QED  BY <1>2, <2>2, <2>3, <2>4 DEF Inv, RoleWasHeld, Decodes
<1> QED  BY <1>4, <1>5, <1>6, <1>7, <1>8, <1>9 DEF Inv

LEMMA RefuseInv ==
  ASSUME Inv, NEW b \in Browser, Refuse(b)
  PROVE  Inv'
<1>1. /\ call' \in [Browser -> Calls] /\ ~Active(b)'
      /\ \A a \in Browser \ {b} : call'[a] = call[a]
  BY CallEnds DEF Refuse, Inv
<1>2. Types'
  BY <1>1 DEF Inv, Types, TypeOK, Calls, Refuse, provider
<1>3. States'
  BY <1>1 DEF Inv, Refuse, provider, States, Active, Holds
<1>4. Fresh'
  BY <1>1 DEF Inv, Refuse, provider, Fresh, Active
<1>5. (Issued /\ Current /\ RoleWasHeld)'
  BY DEF Inv, Refuse, provider, Issued, Current, RoleWasHeld, Decodes
<1> QED  BY <1>2, <1>3, <1>4, <1>5 DEF Inv

\* A token login has no user, and a logout leaves no cookie.
LEMMA JarInv ==
  ASSUME Inv, NEW b \in Browser,
         NEW c \in [user : {None}, role : Role, left : 0..SessionLife] \cup {None},
         jar' = [jar EXCEPT ![b] = c],
         UNCHANGED <<pkce, begun, provider, call, request, sessions, held>>
  PROVE  Inv'
<1>1. Types'
  BY DEF Inv, Types, TypeOK, provider
<1>2. (States /\ Issued /\ Current /\ Fresh)'
  BY DEF Inv, provider, States, Active, Holds, Issued, Current, Fresh
<1>3. RoleWasHeld'
  <2>1. jar'[b] = c /\ \A a \in Browser \ {b} : jar'[a] = jar[a]
    BY DEF Inv, Types, TypeOK
  <2>2. c # None => c.user = None
    OBVIOUS
  <2> QED  BY <2>1, <2>2 DEF Inv, RoleWasHeld, Decodes
<1> QED  BY <1>1, <1>2, <1>3 DEF Inv

LEMMA TokenLoginInv ==
  ASSUME Inv, NEW b \in Browser, NEW r \in LegacyRoles, TokenLogin(b, r)
  PROVE  Inv'
<1> DEFINE c == [user |-> None, role |-> r, left |-> SessionLife]
<1>1. c \in [user : {None}, role : Role, left : 0..SessionLife]
  BY Constants
<1>2. jar' = [jar EXCEPT ![b] = c]
  BY DEF TokenLogin, Cookie
<1> HIDE DEF c
<1> QED  BY <1>1, <1>2, JarInv DEF TokenLogin

LEMMA LogoutInv ==
  ASSUME Inv, NEW b \in Browser, Logout(b)
  PROVE  Inv'
BY JarInv DEF Logout

\* A request is let in with a cookie that has time left.
LEMMA AdmitInv ==
  ASSUME Inv, NEW b \in Browser, NEW p \in Changes, Admit(b, p)
  PROVE  Inv'
<1> DEFINE q == [user |-> jar[b].user, role |-> jar[b].role, permission |-> p, age |-> 0]
           requests == [user : User \cup {None}, role : Role, permission : Changes,
                        age : 0..BodyTime] \cup {None}
<1>0. Types /\ Decodes(jar[b])
  BY DEF Inv, Admit, Permitted
<1>1. /\ jar[b].user \in User \cup {None} /\ jar[b].role \in Role /\ jar[b].left \in 0..SessionLife
      /\ jar[b].left > 0
  BY <1>0 DEF Types, TypeOK, Decodes
<1>2. q \in requests
  BY <1>1, Constants
<1>3. request' = [request EXCEPT ![b] = q]
  BY DEF Admit
<1>4. q.user = jar[b].user /\ q.role = jar[b].role /\ q.age = 0
  OBVIOUS
<1> HIDE DEF q
<1>5. Types'
  <2>1. request \in [Browser -> requests]
    BY <1>0 DEF Types, TypeOK
  <2> HIDE DEF requests
  <2>2. request' \in [Browser -> requests]
    BY <1>2, <1>3, <2>1
  <2> QED  BY <1>0, <2>2 DEF Types, TypeOK, Admit, provider, requests
<1>6. (States /\ Issued /\ Current /\ Fresh)'
  BY DEF Inv, Admit, provider, States, Active, Holds, Issued, Current, Fresh
<1>7. RoleWasHeld'
  <2>1. request'[b] = q /\ \A a \in Browser \ {b} : request'[a] = request[a]
    BY <1>0, <1>3 DEF Types, TypeOK
  <2>2. q.user # None => held[q.user][q.role] < SessionLife + AnswerTime + q.age
    <3> SUFFICES ASSUME q.user # None PROVE held[q.user][q.role] < SessionLife + AnswerTime + q.age
      OBVIOUS
    <3>1. held[q.user][q.role] <= SessionLife - jar[b].left + AnswerTime
      BY <1>0, <1>4 DEF Inv, RoleWasHeld
    <3>2. held[q.user][q.role] \in 0..Forever
      BY <1>0, <1>1, <1>4 DEF Types, TypeOK
    <3> QED  BY <1>1, <1>4, <3>1, <3>2, Constants
  <2>3. UNCHANGED <<jar, held>>
    BY DEF Admit
  <2> QED  BY <2>1, <2>2, <2>3 DEF Inv, RoleWasHeld, Decodes
<1> QED  BY <1>5, <1>6, <1>7 DEF Inv

LEMMA PerformInv ==
  ASSUME Inv, NEW b \in Browser, Perform(b)
  PROVE  Inv'
<1>1. Types'
  BY DEF Inv, Types, TypeOK, Perform, provider
<1>2. (States /\ Issued /\ Current /\ Fresh)'
  BY DEF Inv, Perform, provider, States, Active, Holds, Issued, Current, Fresh
<1>3. RoleWasHeld'
  <2>1. request'[b] = None /\ \A a \in Browser \ {b} : request'[a] = request[a]
    BY DEF Inv, Types, TypeOK, Perform
  <2> QED  BY <2>1 DEF Inv, RoleWasHeld, Decodes, Perform
<1> QED  BY <1>1, <1>2, <1>3 DEF Inv

\* A role that a user has, or had until now, is held now; others are as old as
\* they were.
LEMMA RegroupInv ==
  ASSUME Inv, NEW u \in User, NEW G \in SUBSET Role, Regroup(u, G)
  PROVE  Inv'
<1> DEFINE h == [r \in Role |-> IF r \in {RoleOf(groups[u]), RoleOf(G)} THEN 0 ELSE held[u][r]]
<1>0. Types
  BY DEF Inv
<1>1. held' = [held EXCEPT ![u] = h] /\ groups' = [groups EXCEPT ![u] = G]
  BY DEF Regroup
<1>2. h \in [Role -> 0..Forever]
  BY <1>0, Constants DEF Types, TypeOK
<1>3. \A r \in Role : h[r] <= held[u][r] /\ (r = RoleOf(G) => h[r] = 0)
  BY <1>0, Constants DEF Types, TypeOK
<1> HIDE DEF h
<1>4. /\ held'[u] = h /\ \A v \in User \ {u} : held'[v] = held[v]
      /\ groups'[u] = G /\ \A v \in User \ {u} : groups'[v] = groups[v]
  BY <1>0, <1>1 DEF Types, TypeOK
<1>5. held' \in [User -> [Role -> 0..Forever]] /\ held \in [User -> [Role -> 0..Forever]]
  BY <1>0, <1>1, <1>2 DEF Types, TypeOK
<1>6. \A v \in User, r \in Role : held'[v][r] <= held[v][r]
  <2> SUFFICES ASSUME NEW v \in User, NEW r \in Role PROVE held'[v][r] <= held[v][r]
    OBVIOUS
  <2>1. CASE v = u
    BY <1>3, <1>4, <2>1
  <2>2. CASE v # u
    <3>1. held'[v] = held[v] /\ held[v][r] \in Int
      BY <1>4, <1>5, <2>2
    <3> QED  BY <3>1
  <2> QED  BY <2>1, <2>2
<1>7. Types'
  BY <1>0, <1>1, <1>5 DEF Types, TypeOK, Regroup
<1>8. (States /\ Issued)'
  BY DEF Inv, Regroup, States, Active, Holds, Issued
<1>9. Current'
  <2> SUFFICES ASSUME NEW v \in User, RoleOf(groups'[v]) # None
               PROVE  held'[v][RoleOf(groups'[v])] = 0
    BY DEF Current, RoleOf
  <2>1. CASE v = u
    <3>1. RoleOf(G) \in Role
      BY <1>4, <2>1, RoleOfGroups
    <3> QED  BY <1>3, <1>4, <2>1, <3>1
  <2>2. CASE v # u
    BY <1>4, <2>2 DEF Inv, Current
  <2> QED  BY <2>1, <2>2
<1>10. Fresh'
  <2> SUFFICES ASSUME NEW b \in Browser, call[b].at = "answered", call[b].role # None
               PROVE  held'[code[call[b].code]][call[b].role] <= call[b].age
    BY DEF Fresh, Regroup
  <2>1. code[call[b].code] \in User /\ call[b].role \in Role /\ call[b].age \in Int
    BY <1>0 DEF Inv, States, Active, Holds, Types, TypeOK
  <2>2. held[code[call[b].code]][call[b].role] <= call[b].age
    BY DEF Inv, Fresh
  <2>3. held'[code[call[b].code]][call[b].role] <= held[code[call[b].code]][call[b].role]
    BY <1>6, <2>1
  <2>4. /\ held[code[call[b].code]][call[b].role] \in Int
        /\ held'[code[call[b].code]][call[b].role] \in Int
    BY <1>5, <2>1
  <2> QED  BY <2>1, <2>2, <2>3, <2>4
<1>11. RoleWasHeld'
  <2>0. UNCHANGED <<jar, request>>
    BY DEF Regroup
  <2>1. ASSUME NEW b \in Browser, Decodes(jar[b]), jar[b].user # None
        PROVE  held'[jar[b].user][jar[b].role] <= SessionLife - jar[b].left + AnswerTime
    <3>1. jar[b].user \in User /\ jar[b].role \in Role /\ jar[b].left \in Int
      BY <1>0, <2>1 DEF Types, TypeOK, Decodes
    <3>2. held[jar[b].user][jar[b].role] <= SessionLife - jar[b].left + AnswerTime
      BY <2>1 DEF Inv, RoleWasHeld
    <3>3. held[jar[b].user][jar[b].role] \in Int /\ held'[jar[b].user][jar[b].role] \in Int
      BY <1>5, <3>1
    <3> QED  BY <1>6, <3>1, <3>2, <3>3, Constants
  <2>2. ASSUME NEW b \in Browser, request[b] # None, request[b].user # None
        PROVE  held'[request[b].user][request[b].role] < SessionLife + AnswerTime + request[b].age
    <3>1. request[b].user \in User /\ request[b].role \in Role /\ request[b].age \in Int
      BY <1>0, <2>2 DEF Types, TypeOK
    <3>2. held[request[b].user][request[b].role] < SessionLife + AnswerTime + request[b].age
      BY <2>2 DEF Inv, RoleWasHeld
    <3>3. /\ held[request[b].user][request[b].role] \in Int
          /\ held'[request[b].user][request[b].role] \in Int
      BY <1>5, <3>1
    <3>4. held'[request[b].user][request[b].role] <= held[request[b].user][request[b].role]
      BY <1>6, <3>1
    <3> QED  BY <3>1, <3>2, <3>3, <3>4, Constants
  <2> QED  BY <2>0, <2>1, <2>2 DEF RoleWasHeld, Decodes
<1> QED  BY <1>7, <1>8, <1>9, <1>10, <1>11 DEF Inv

\* A tick makes every age one larger and every remaining time one smaller.
LEMMA TickInv ==
  ASSUME Inv, Tick
  PROVE  Inv'
<1>0. /\ Types /\ held \in [User -> [Role -> 0..Forever]] /\ groups \in [User -> SUBSET Role]
      /\ UNCHANGED <<begun, code, groups, sessions>>
  BY DEF Inv, Types, TypeOK, Tick, provider
<1>1. ASSUME NEW u \in User, NEW r \in Role
      PROVE  /\ held'[u][r] = IF r = RoleOf(groups[u]) THEN 0
                               ELSE IF held[u][r] + 1 <= Forever THEN held[u][r] + 1 ELSE Forever
             /\ held'[u][r] \in 0..Forever /\ held'[u][r] <= held[u][r] + 1
  <2>1. held[u][r] \in 0..Forever
    BY <1>0
  <2>2. held'[u][r] = IF r = RoleOf(groups[u]) THEN 0 ELSE Min({held[u][r] + 1, Forever})
    BY DEF Tick
  <2>3. Min({held[u][r] + 1, Forever}) = IF held[u][r] + 1 <= Forever THEN held[u][r] + 1 ELSE Forever
    BY <2>1, MinOfTwo, Constants
  <2> QED  BY <2>1, <2>2, <2>3, Constants
<1>2. held' \in [User -> [Role -> 0..Forever]]
  <2> DEFINE h(u) == [r \in Role |-> IF r = RoleOf(groups[u]) THEN 0 ELSE Min({held[u][r] + 1, Forever})]
  <2>1. held' = [u \in User |-> h(u)]
    BY DEF Tick
  <2>2. ASSUME NEW u \in User PROVE h(u) \in [Role -> 0..Forever]
    <3>1. h(u) = held'[u]
      BY <2>1
    <3>2. \A r \in Role : h(u)[r] \in 0..Forever
      BY <1>1, <3>1
    <3> QED  BY <3>2
  <2> HIDE DEF h
  <2> QED  BY <2>1, <2>2
<1>3. ASSUME NEW f \in Flow
      PROVE  /\ pkce'[f] \in 0..(StateLife + 1) \cup {None}
             /\ pkce[f] = None => pkce'[f] = None
  <2>1. CASE pkce[f] = None
    BY <2>1 DEF Tick
  <2>2. CASE pkce[f] # None
    <3>1. pkce[f] \in 0..(StateLife + 1)
      BY <1>0, <2>2 DEF Types, TypeOK
    <3>2. pkce'[f] = Min({pkce[f] + 1, StateLife + 1})
      BY <2>2 DEF Tick
    <3>3. pkce'[f] = IF pkce[f] + 1 <= StateLife + 1 THEN pkce[f] + 1 ELSE StateLife + 1
      BY <3>1, <3>2, MinOfTwo, Constants
    <3> QED  BY <2>2, <3>1, <3>3, Constants
  <2> QED  BY <2>1, <2>2
<1>4. ASSUME NEW b \in Browser
      PROVE  /\ call'[b] \in Calls
             /\ call'[b].at = call[b].at /\ call'[b].flow = call[b].flow
             /\ call'[b].code = call[b].code /\ call'[b].role = call[b].role
             /\ call[b].at = "answered" => call'[b].age = call[b].age + 1
  <2>1. call[b] \in Calls
    BY <1>0 DEF Types, TypeOK, Calls
  <2>2. CASE call[b].at = "answered"
    <3> DEFINE c == [call[b] EXCEPT !.age = @ + 1]
    <3>1. call'[b] = c
      BY <2>2 DEF Tick
    <3>2. call[b].age + 1 \in 0..AnswerTime
      BY <2>1, <2>2, Constants DEF Tick, Calls
    <3>3. c \in [at : {call[b].at}, flow : {call[b].flow}, code : {call[b].code},
                 role : {call[b].role}, age : {call[b].age + 1}]
      BY <2>1 DEF Calls
    <3> HIDE DEF c
    <3> QED  BY <2>1, <3>1, <3>2, <3>3 DEF Calls
  <2>3. CASE call[b].at # "answered"
    BY <2>1, <2>3 DEF Tick
  <2> QED  BY <2>2, <2>3
<1>5. ASSUME NEW b \in Browser
      PROVE  /\ jar'[b] \in [user : User \cup {None}, role : Role, left : 0..SessionLife] \cup {None}
             /\ jar'[b] # None => /\ jar[b] # None
                                  /\ jar'[b].user = jar[b].user /\ jar'[b].role = jar[b].role
                                  /\ jar[b].left \in 0..SessionLife
                                  /\ jar'[b].left = IF jar[b].left - 1 >= 0 THEN jar[b].left - 1 ELSE 0
  <2>1. CASE jar[b] = None
    BY <2>1 DEF Tick
  <2>2. CASE jar[b] # None
    <3> DEFINE l == Max({jar[b].left - 1, 0})
               c == [jar[b] EXCEPT !.left = l]
    <3>1. jar[b] \in [user : User \cup {None}, role : Role, left : 0..SessionLife]
      BY <1>0, <2>2 DEF Types, TypeOK
    <3>2. jar'[b] = c
      BY <2>2 DEF Tick
    <3>3. l = (IF jar[b].left - 1 >= 0 THEN jar[b].left - 1 ELSE 0) /\ l \in 0..SessionLife
      BY <3>1, MaxOfTwo, Constants
    <3> HIDE DEF l
    <3>4. c \in [user : {jar[b].user}, role : {jar[b].role}, left : {l}]
      BY <3>1
    <3> HIDE DEF c
    <3> QED  BY <2>2, <3>1, <3>2, <3>3, <3>4
  <2> QED  BY <2>1, <2>2
<1>6. ASSUME NEW b \in Browser
      PROVE  /\ request'[b] \in [user : User \cup {None}, role : Role, permission : Changes,
                                 age : 0..BodyTime] \cup {None}
             /\ request'[b] # None =>
                  /\ request[b] # None
                  /\ request'[b].user = request[b].user /\ request'[b].role = request[b].role
                  /\ request[b].age \in 0..BodyTime /\ request'[b].age = request[b].age + 1
  <2>1. CASE request[b] = None
    BY <2>1 DEF Tick
  <2>2. CASE request[b] # None
    <3> DEFINE c == [request[b] EXCEPT !.age = @ + 1]
    <3>1. request[b] \in [user : User \cup {None}, role : Role, permission : Changes, age : 0..BodyTime]
      BY <1>0, <2>2 DEF Types, TypeOK
    <3>2. request'[b] = c
      BY <2>2 DEF Tick
    <3>3. request[b].age + 1 \in 0..BodyTime
      BY <2>2, <3>1, Constants DEF Tick
    <3>4. c \in [user : {request[b].user}, role : {request[b].role},
                 permission : {request[b].permission}, age : {request[b].age + 1}]
      BY <3>1
    <3> HIDE DEF c
    <3> QED  BY <2>2, <3>1, <3>2, <3>3, <3>4
  <2> QED  BY <2>1, <2>2
<1>7. Types'
  <2>1. pkce' \in [Flow -> 0..(StateLife + 1) \cup {None}]
    BY <1>3 DEF Tick
  <2>2. call' \in [Browser -> Calls]
    BY <1>4 DEF Tick
  <2>3. jar' \in [Browser -> [user : User \cup {None}, role : Role, left : 0..SessionLife] \cup {None}]
    BY <1>5 DEF Tick
  <2>4. request' \in [Browser -> [user : User \cup {None}, role : Role, permission : Changes,
                                 age : 0..BodyTime] \cup {None}]
    BY <1>6 DEF Tick
  <2> QED  BY <1>0, <1>2, <2>1, <2>2, <2>3, <2>4 DEF Types, TypeOK, Calls
<1>8. States'
  <2>1. \A f \in Flow : pkce'[f] = None \/ pkce[f] # None
    BY <1>3
  <2>2. \A f \in Flow : pkce[f] = None => pkce'[f] = None
    BY <1>3
  <2>3. \A b \in Browser : Active(b)' <=> Active(b)
    BY <1>4 DEF Active
  <2>4. \A b \in Browser : Active(b)' => Holds(b)'
    BY <1>0, <1>4, <2>2, <2>3 DEF Inv, States, Holds
  <2>5. \A a, b \in Browser : Active(a)' /\ Active(b)' /\ call'[a].flow = call'[b].flow => a = b
    BY <1>4, <2>3 DEF Inv, States
  <2> QED  BY <1>0, <2>1, <2>4, <2>5 DEF Inv, States
<1>9. Issued'
  BY <1>0 DEF Inv, Issued
<1>10. Current'
  <2> SUFFICES ASSUME NEW u \in User, RoleOf(groups[u]) # None
               PROVE  held'[u][RoleOf(groups[u])] = 0
    BY <1>0 DEF Current, RoleOf
  <2>1. RoleOf(groups[u]) \in Role
    BY <1>0, RoleOfGroups
  <2> QED  BY <1>1, <2>1
<1>11. Fresh'
  <2> SUFFICES ASSUME NEW b \in Browser, call[b].at = "answered", call[b].role # None
               PROVE  held'[code[call[b].code]][call[b].role] <= call'[b].age
    BY <1>0, <1>4 DEF Fresh
  <2>1. code[call[b].code] \in User /\ call[b].role \in Role /\ call[b].age \in Int
    BY <1>0 DEF Inv, States, Active, Holds, Types, TypeOK
  <2> DEFINE now == held[code[call[b].code]][call[b].role]
             then == held'[code[call[b].code]][call[b].role]
  <2>2. now <= call[b].age
    BY DEF Inv, Fresh
  <2>3. now \in Int /\ then \in Int /\ then <= now + 1
    BY <1>0, <1>1, <1>2, <2>1
  <2>4. call'[b].age = call[b].age + 1
    BY <1>4
  <2> HIDE DEF now, then
  <2>5. then <= call'[b].age
    BY <2>1, <2>2, <2>3, <2>4
  <2> QED  BY <2>5 DEF then
<1>12. RoleWasHeld'
  <2>1. ASSUME NEW b \in Browser, Decodes(jar[b])', jar'[b].user # None
        PROVE  held'[jar'[b].user][jar'[b].role] <= SessionLife - jar'[b].left + AnswerTime
    <3>1. /\ jar[b] # None /\ jar'[b].user = jar[b].user /\ jar'[b].role = jar[b].role
          /\ jar[b].left \in 0..SessionLife /\ jar'[b].left = jar[b].left - 1 /\ jar[b].left > 0
      BY <1>5, <2>1 DEF Decodes
    <3>2. jar[b].user \in User /\ jar[b].role \in Role
      BY <1>0, <2>1, <3>1 DEF Types, TypeOK
    <3> DEFINE now == held[jar[b].user][jar[b].role]
               then == held'[jar[b].user][jar[b].role]
    <3>3. now <= SessionLife - jar[b].left + AnswerTime
      BY <2>1, <3>1 DEF Inv, RoleWasHeld, Decodes
    <3>4. now \in Int /\ then \in Int /\ then <= now + 1
      BY <1>0, <1>1, <1>2, <3>2
    <3> HIDE DEF now, then
    <3>5. then <= SessionLife - jar'[b].left + AnswerTime
      BY <3>1, <3>3, <3>4, Constants
    <3> QED  BY <3>1, <3>5 DEF then
  <2>2. ASSUME NEW b \in Browser, request'[b] # None, request'[b].user # None
        PROVE  held'[request'[b].user][request'[b].role] < SessionLife + AnswerTime + request'[b].age
    <3>1. /\ request[b] # None
          /\ request'[b].user = request[b].user /\ request'[b].role = request[b].role
          /\ request[b].age \in 0..BodyTime /\ request'[b].age = request[b].age + 1
      BY <1>6, <2>2
    <3>2. request[b].user \in User /\ request[b].role \in Role
      BY <1>0, <2>2, <3>1 DEF Types, TypeOK
    <3> DEFINE now == held[request[b].user][request[b].role]
               then == held'[request[b].user][request[b].role]
    <3>3. now < SessionLife + AnswerTime + request[b].age
      BY <2>2, <3>1 DEF Inv, RoleWasHeld
    <3>4. now \in Int /\ then \in Int /\ then <= now + 1
      BY <1>0, <1>1, <1>2, <3>2
    <3> HIDE DEF now, then
    <3>5. then < SessionLife + AnswerTime + request'[b].age
      BY <3>1, <3>3, <3>4, Constants
    <3> QED  BY <3>1, <3>5 DEF then
  <2> QED  BY <2>1, <2>2 DEF RoleWasHeld
<1> QED  BY <1>7, <1>8, <1>9, <1>10, <1>11, <1>12 DEF Inv

\* A restart forgets entries, callbacks and requests, and no cookie.
LEMMA RestartInv ==
  ASSUME Inv, Restart
  PROVE  Inv'
<1> DEFINE i == Idle
<1>1. i \in Calls /\ i.at = "idle"
  BY Constants DEF Idle, Calls
<1>2. call' = [b \in Browser |-> i]
  BY DEF Restart
<1> HIDE DEF i
<1>3. Types'
  BY <1>1, <1>2 DEF Inv, Types, TypeOK, Calls, Restart, provider
<1>4. \A b \in Browser : call'[b].at = "idle"
  BY <1>1, <1>2
<1>5. (States /\ Fresh)'
  BY <1>4 DEF Inv, Restart, provider, States, Active, Fresh
<1>6. (Issued /\ Current /\ RoleWasHeld)'
  BY DEF Inv, Restart, provider, Issued, Current, RoleWasHeld, Decodes
<1> QED  BY <1>3, <1>5, <1>6 DEF Inv

LEMMA NextInv ==
  ASSUME Inv, [Next]_vars
  PROVE  Inv'
<1>1. ASSUME NEW f \in Flow, Start(f) PROVE Inv'
  BY <1>1, StartInv
<1>2. ASSUME NEW f \in Flow, Sweep(f) PROVE Inv'
  BY <1>2, DroppedInv DEF Sweep
<1>3. ASSUME NEW f \in Flow, NEW u \in User, Authenticate(f, u) PROVE Inv'
  BY <1>3, AuthenticateInv
<1>4. ASSUME NEW b \in Browser, SignOn(b) PROVE Inv'
  <2>1. ASSUME NEW f \in Flow, NEW g \in Flow, Callback(b, f, g) PROVE Inv'
    BY <2>1, CallbackInv
  <2>2. ASSUME NEW f \in Flow, CallbackLate(b, f) PROVE Inv'
    BY <2>2, DroppedInv DEF CallbackLate
  <2>3. CASE Tokens(b)
    BY <2>3, TokensInv
  <2>4. CASE UserInfo(b)
    BY <2>4, UserInfoInv
  <2>5. CASE Issue(b)
    BY <2>5, IssueInv
  <2>6. CASE Refuse(b)
    BY <2>6, RefuseInv
  <2>7. ASSUME NEW r \in LegacyRoles, TokenLogin(b, r) PROVE Inv'
    BY <2>7, TokenLoginInv
  <2>8. CASE Logout(b)
    BY <2>8, LogoutInv
  <2> QED  BY <1>4, <2>1, <2>2, <2>3, <2>4, <2>5, <2>6, <2>7, <2>8 DEF SignOn
<1>5. ASSUME NEW b \in Browser, NEW p \in Changes, Admit(b, p) PROVE Inv'
  BY <1>5, AdmitInv
<1>6. ASSUME NEW b \in Browser, Perform(b) PROVE Inv'
  BY <1>6, PerformInv
<1>7. ASSUME NEW u \in User, NEW G \in SUBSET Role, Regroup(u, G) PROVE Inv'
  BY <1>7, RegroupInv
<1>8. CASE Tick
  BY <1>8, TickInv
<1>9. CASE Restart
  BY <1>9, RestartInv
<1>10. CASE UNCHANGED vars
  BY <1>10 DEF vars, provider, Inv, Types, TypeOK, States, Active, Holds, Issued, Current, Fresh,
               RoleWasHeld, Decodes
<1> QED  BY <1>1, <1>2, <1>3, <1>4, <1>5, <1>6, <1>7, <1>8, <1>9, <1>10 DEF Next

\* The state of a sign-in, the roles and their ages stay what Inv says.
THEOREM Invariance == Spec => []Inv
<1>1. Init => Inv
  BY InitInv
<1>2. Inv /\ [Next]_vars => Inv'
  BY NextInv
<1> QED  BY <1>1, <1>2, PTL DEF Spec

\* A state ends in at most one session, and that session is of the user who
\* authenticated at the sign-in that began it (exchangeCode takes the entry
\* out before it waits, and compares the nonce).
THEOREM SignInsStaySeparate == Spec => []SignInsAreSeparate
<1>1. Inv => SignInsAreSeparate
  <2> SUFFICES ASSUME Inv PROVE SignInsAreSeparate
    OBVIOUS
  <2>1. TypeOK /\ SessionIsItsOwners
    BY DEF Inv, Types, Issued, SessionIsItsOwners
  <2>2. ASSUME NEW f \in Flow PROVE Cardinality(sessions[f]) <= 1
    <3>1. CASE sessions[f] = {}
      <4>1. Cardinality(sessions[f]) = 0
        BY <3>1, FS_EmptySet
      <4> QED  BY <4>1
    <3>2. ASSUME NEW s \in sessions[f] PROVE Cardinality(sessions[f]) <= 1
      <4>1. sessions[f] = {s}
        BY <3>2 DEF Inv, Issued
      <4>2. Cardinality(sessions[f]) = 1
        BY <4>1, FS_Singleton
      <4> QED  BY <4>2
    <3> QED  BY <3>1, <3>2
  <2> QED  BY <2>1, <2>2 DEF SignInsAreSeparate, OneSessionPerState
<1> QED  BY <1>1, Invariance, PTL

\* The role in a cookie or in a request that waits for its body was its user's
\* no longer ago than a session, an answer and a body last.
THEOREM RoleStaysRecent == Spec => []RoleWasHeld
<1>1. Inv => RoleWasHeld
  BY DEF Inv
<1> QED  BY <1>1, Invariance, PTL
=============================================================================
