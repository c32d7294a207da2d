-------------------------------- MODULE SignIn --------------------------------
(***************************************************************************)
(* How people sign in to the console and what their session lets them do   *)
(* (central/oidc.ts, account-auth.ts, rbac.ts, central/server.ts).         *)
(*                                                                         *)
(* A sign-in leaves Central with a state that is kept in memory, comes     *)
(* back to the callback with that state and a code, and is exchanged with  *)
(* the provider in two waits: the tokens, then the user's groups.  The     *)
(* outcome is a signed cookie that carries the role and is not stored      *)
(* anywhere; a token login is the fallback.  A request is judged by the    *)
(* cookie it came with, and one that changes something waits for its body  *)
(* after that.                                                             *)
(*                                                                         *)
(* The provider is external and trusted with no more than this: a code and *)
(* the nonce that comes back belong to the sign-in at which a user         *)
(* authenticated.  It is not assumed to honour a code once, or to check    *)
(* the verifier.  Time is kept as ages and remaining times.                *)
(***************************************************************************)
EXTENDS Integers, FiniteSets, FiniteSetsExt

CONSTANTS
  Browser,     \* tabs and browsers, each with its cookie jar
  Flow,        \* sign-ins: the random states of buildAuthorizeUrl
  User,        \* people known to the provider
  Role,        \* the ranks of the roles in use: 1 viewer ... 4 superadmin
  LegacyRoles, \* roles with a configured login token
  None,
  SessionLife, \* 12 h
  StateLife,   \* PKCE_TTL_MS
  AnswerTime,  \* bound: how long an answer of the provider is under way
  BodyTime     \* bound: how long a body is under way

ASSUME SignInAssumption ==
  /\ Role \subseteq 1..4 /\ LegacyRoles \subseteq Role
  /\ IsFiniteSet(Flow) /\ IsFiniteSet(User) /\ IsFiniteSet(Browser)
  /\ {SessionLife, StateLife} \subseteq Nat \ {0}
  /\ {AnswerTime, BodyTime} \subseteq Nat
  /\ None \notin Role \cup User \cup Flow

VARIABLES
  pkce,     \* pkceStore: flow -> age of its entry, or None
  begun,    \* flows that were begun: a state is never drawn twice
  \* The provider:
  code,     \* flow -> who authenticated there, or None
  groups,   \* user -> roles of the vaivar-* groups
  \* The callbacks, one per browser:
  call,     \* what a callback holds, see Idle
  \* Cookies and requests:
  jar,      \* browser -> its cookie, or None
  request,  \* browser -> a request that waits for its body, or None
  \* What happened, for the properties:
  sessions, \* flow -> sessions issued for it
  held      \* user -> role -> how long ago the user last had it

provider == <<code, groups>>
vars == <<pkce, begun, provider, call, jar, request, sessions, held>>

Forever == SessionLife + AnswerTime + BodyTime + 1
Idle == [at |-> "idle", flow |-> None, code |-> None, role |-> None, age |-> 0]

-----------------------------------------------------------------------------
(* Roles.                                                                  *)

\* PERMISSIONS, each granted from this rank on (ROLE_PERMISSIONS, RANK).
Needs == [read |-> 1, manage_honeypots |-> 2, manage_integrations |-> 3, manage_system |-> 4]
Can(role, permission) == role >= Needs[permission]

\* Routes whose handler waits for a body between its check and its effect.
Changes == {"manage_honeypots", "manage_integrations"}

\* mapGroupsToRole: the highest of the groups; no group, no session.
RoleOf(G) == IF G = {} THEN None ELSE Max(G)

\* encodeSessionCookie: a session that begins now.  The token login has no user.
Cookie(u, r) == [user |-> u, role |-> r, left |-> SessionLife]

\* Mutant: the time in the cookie is not compared with the clock.
DecodesAlways(c) == c # None

\* decodeSessionCookie: signed by Central, and not past its time.
Decodes(c) == c # None /\ c.left > 0

\* resolveCaller and the gate of createServer.
Permitted(b, permission) == Decodes(jar[b]) /\ Can(jar[b].role, permission)

-----------------------------------------------------------------------------
(* Signing in.                                                             *)

\* /api/v1/oidc/start: buildAuthorizeUrl, once the endpoints are known.  When
\* they are not, it answers 500 and nothing is kept.
Start(f) ==
  /\ f \notin begun
  /\ begun' = begun \cup {f}
  /\ pkce' = [pkce EXCEPT ![f] = 0]
  /\ UNCHANGED <<provider, call, jar, request, sessions, held>>

\* External: a user authenticates at the page the state led to.
Authenticate(f, u) ==
  /\ f \in begun /\ code[f] = None
  /\ code' = [code EXCEPT ![f] = u]
  /\ UNCHANGED <<pkce, begun, groups, call, jar, request, sessions, held>>

Enter(b, f, g) ==
  /\ call[b] = Idle
  /\ pkce[f] # None /\ pkce[f] <= StateLife
  /\ code[g] # None
  /\ call' = [call EXCEPT ![b] = [Idle EXCEPT !.at = "tokens", !.flow = f, !.code = g]]

\* /api/v1/oidc/callback with the state of f and the code of g: exchangeCode
\* takes the entry out before it waits for anything.
Callback(b, f, g) ==
  /\ Enter(b, f, g)
  /\ pkce' = [pkce EXCEPT ![f] = None]
  /\ UNCHANGED <<begun, provider, jar, request, sessions, held>>

\* The same with an entry that is too old: it is taken out and refused.
CallbackLate(b, f) ==
  /\ call[b] = Idle
  /\ pkce[f] # None /\ pkce[f] > StateLife
  /\ pkce' = [pkce EXCEPT ![f] = None]
  /\ UNCHANGED <<begun, provider, call, jar, request, sessions, held>>

\* Mutant: the nonce is not looked at.
TokensAnyNonce(b) ==
  /\ call[b].at = "tokens"
  /\ call' = [call EXCEPT ![b].at = "groups"]
  /\ UNCHANGED <<pkce, begun, provider, jar, request, sessions, held>>

\* The tokens of the code arrive and carry the nonce of this entry.
Tokens(b) ==
  /\ call[b].at = "tokens" /\ call[b].code = call[b].flow
  /\ call' = [call EXCEPT ![b].at = "groups"]
  /\ UNCHANGED <<pkce, begun, provider, jar, request, sessions, held>>

\* The provider answers with the groups of the user; the answer is under way.
UserInfo(b) ==
  /\ call[b].at = "groups"
  /\ call' = [call EXCEPT ![b].at = "answered", ![b].role = RoleOf(groups[code[call[b].code]])]
  /\ UNCHANGED <<pkce, begun, provider, jar, request, sessions, held>>

\* The answer arrives with a role: issueSessionCookie.
Issue(b) ==
  /\ call[b].at = "answered" /\ call[b].role # None
  /\ jar' = [jar EXCEPT ![b] = Cookie(code[call[b].code], call[b].role)]
  /\ sessions' = [sessions EXCEPT ![call[b].flow] = @ \cup {<<b, code[call[b].code]>>}]
  /\ call' = [call EXCEPT ![b] = Idle]
  /\ UNCHANGED <<pkce, begun, provider, request, held>>

\* No endpoints, an error, a wrong nonce, no group, or a browser that went
\* away: back to /login with nothing, and the state is gone.
Refuse(b) ==
  /\ call[b] # Idle
  /\ call' = [call EXCEPT ![b] = Idle]
  /\ UNCHANGED <<pkce, begun, provider, jar, request, sessions, held>>

\* /api/v1/login with a configured token: findLegacyRole.
TokenLogin(b, r) ==
  /\ jar' = [jar EXCEPT ![b] = Cookie(None, r)]
  /\ UNCHANGED <<pkce, begun, provider, call, request, sessions, held>>

\* /api/v1/logout and /api/v1/oidc/logout: clearSessionCookie, in this browser.
Logout(b) ==
  /\ jar[b] # None
  /\ jar' = [jar EXCEPT ![b] = None]
  /\ UNCHANGED <<pkce, begun, provider, call, request, sessions, held>>

-----------------------------------------------------------------------------
(* Requests.                                                               *)

\* A request that changes something is let in with the role of its cookie...
Admit(b, p) ==
  /\ request[b] = None /\ p \in Changes
  /\ Permitted(b, p)
  /\ request' = [request EXCEPT ![b] =
                   [user |-> jar[b].user, role |-> jar[b].role, permission |-> p, age |-> 0]]
  /\ UNCHANGED <<pkce, begun, provider, call, jar, sessions, held>>

\* ...and has its effect when the body is there, whatever became of the cookie.
Perform(b) ==
  /\ request[b] # None
  /\ request' = [request EXCEPT ![b] = None]
  /\ UNCHANGED <<pkce, begun, provider, call, jar, sessions, held>>

-----------------------------------------------------------------------------
(* The provider's administrator, time, and the process.                    *)

Regroup(u, G) ==
  /\ groups' = [groups EXCEPT ![u] = G]
  /\ held' = [held EXCEPT ![u] =
                [r \in Role |-> IF r \in {RoleOf(groups[u]), RoleOf(G)} THEN 0 ELSE @[r]]]
  /\ UNCHANGED <<pkce, begun, code, call, jar, request, sessions>>

\* Time passes; a cookie that has run out is dropped by its browser (Max-Age).
Tick ==
  /\ \A b \in Browser : call[b].age < AnswerTime \/ call[b].at # "answered"
  /\ \A b \in Browser : request[b] # None => request[b].age < BodyTime
  /\ pkce' = [f \in Flow |-> IF pkce[f] = None THEN None ELSE Min({pkce[f] + 1, StateLife + 1})]
  /\ call' = [b \in Browser |-> IF call[b].at = "answered"
                                  THEN [call[b] EXCEPT !.age = @ + 1] ELSE call[b]]
  /\ jar' = [b \in Browser |-> IF jar[b] = None THEN None
                                 ELSE [jar[b] EXCEPT !.left = Max({@ - 1, 0})]]
  /\ request' = [b \in Browser |-> IF request[b] = None THEN None
                                     ELSE [request[b] EXCEPT !.age = @ + 1]]
  /\ held' = [u \in User |-> [r \in Role |->
                IF r = RoleOf(groups[u]) THEN 0 ELSE Min({held[u][r] + 1, Forever})]]
  /\ UNCHANGED <<begun, provider, sessions>>

\* startSweeper: the timer drops an entry past its time.
Sweep(f) ==
  /\ pkce[f] # None /\ pkce[f] > StateLife
  /\ pkce' = [pkce EXCEPT ![f] = None]
  /\ UNCHANGED <<begun, provider, call, jar, request, sessions, held>>

\* Entries and callbacks are lost; cookies are good as long as the key is.
Restart ==
  /\ pkce' = [f \in Flow |-> None]
  /\ call' = [b \in Browser |-> Idle]
  /\ request' = [b \in Browser |-> None]
  /\ UNCHANGED <<begun, provider, jar, sessions, held>>

Init ==
  /\ pkce = [f \in Flow |-> None] /\ begun = {}
  /\ code = [f \in Flow |-> None] /\ groups \in [User -> {{}, Role}]
  /\ call = [b \in Browser |-> Idle]
  /\ jar = [b \in Browser |-> None] /\ request = [b \in Browser |-> None]
  /\ sessions = [f \in Flow |-> {}]
  /\ held = [u \in User |-> [r \in Role |-> IF r = RoleOf(groups[u]) THEN 0 ELSE Forever]]

SignOn(b) ==
  \/ \E f, g \in Flow : Callback(b, f, g)
  \/ \E f \in Flow : CallbackLate(b, f)
  \/ Tokens(b) \/ UserInfo(b) \/ Issue(b) \/ Refuse(b)
  \/ \E r \in LegacyRoles : TokenLogin(b, r)
  \/ Logout(b)

Next ==
  \/ \E f \in Flow : Start(f) \/ Sweep(f) \/ (\E u \in User : Authenticate(f, u))
  \/ \E b \in Browser : SignOn(b) \/ (\E p \in Changes : Admit(b, p)) \/ Perform(b)
  \/ \E u \in User, G \in SUBSET Role : Regroup(u, G)
  \/ Tick \/ Restart

Spec == Init /\ [][Next]_vars

-----------------------------------------------------------------------------
(* Properties.                                                             *)

TypeOK ==
  /\ pkce \in [Flow -> 0..(StateLife + 1) \cup {None}] /\ begun \subseteq Flow
  /\ code \in [Flow -> User \cup {None}] /\ groups \in [User -> SUBSET Role]
  /\ call \in [Browser -> [at : {"idle", "tokens", "groups", "answered"}, flow : Flow \cup {None},
                           code : Flow \cup {None}, role : Role \cup {None}, age : 0..AnswerTime]]
  /\ jar \in [Browser -> [user : User \cup {None}, role : Role, left : 0..SessionLife] \cup {None}]
  /\ request \in [Browser -> [user : User \cup {None}, role : Role, permission : Changes,
                              age : 0..BodyTime] \cup {None}]
  /\ held \in [User -> [Role -> 0..Forever]]

\* A state is good for one session: of two callbacks with one state, in two
\* tabs or repeated by a browser, at most one ends in a cookie.
OneSessionPerState == \A f \in Flow : Cardinality(sessions[f]) <= 1

\* A session belongs to who authenticated at the sign-in its state began, also
\* when the answers of two sign-ins are mixed up.
SessionIsItsOwners ==
  \A f \in Flow : \A s \in sessions[f] : s[2] = code[f]

\* What a sign-in leaves, with the types.
SignInsAreSeparate == TypeOK /\ OneSessionPerState /\ SessionIsItsOwners

\* The role a request acts with is never asked for again: it was the user's at
\* most the life of a session, one answer and one body ago, and no longer.
RoleWasHeld ==
  \A b \in Browser :
    /\ (Decodes(jar[b]) /\ jar[b].user # None)
         => held[jar[b].user][jar[b].role] <= SessionLife - jar[b].left + AnswerTime
    /\ (request[b] # None /\ request[b].user # None)
         => held[request[b].user][request[b].role] < SessionLife + AnswerTime + request[b].age
=============================================================================
